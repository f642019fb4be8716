-------------------------- MODULE Kingsley_proofs --------------------------
(* For every memory, every number of bins and every sequence of calls, the *)
(* shipped allocator keeps its lists, headers, arenas and contents intact, *)
(* and is the C allocator that its clients take it for.                    *)
EXTENDS Kingsley, Facts

-----------------------------------------------------------------------------
(* Size classes.                                                           *)

Doubles(f) == f = [c \in Nat |-> IF c = 0 THEN 1 ELSE 2 * f[c - 1]]

(* Walks that follow the same links agree as far as both go. *)
LEMMA WalksAgree ==
  ASSUME NEW m \in Nat, NEW n \in Nat, m <= n, NEW v, NEW w, NEW h, NEW next, NEW D, NEW null,
         Follows(v, m, h, next, D, null), Follows(w, n, h, next, D, null)
  PROVE  \A i \in 0 .. m : v[i] = w[i]
<1> DEFINE T == {i \in Nat : i <= m => v[i] = w[i]}
           Step(u, i) == IF i = 0 THEN h ELSE IF u[i - 1] \in D THEN next[u[i - 1]] ELSE null
<1>1. \A i \in 0 .. m : v[i] = Step(v, i)
  BY DEF Follows
<1>2. \A i \in 0 .. n : w[i] = Step(w, i)
  BY DEF Follows
<1>3. 0 \in T
  <2>1. 0 \in 0 .. m /\ 0 \in 0 .. n
    OBVIOUS
  <2> QED BY <1>1, <1>2, <2>1
<1>4. ASSUME NEW i \in Nat, i \in T PROVE i + 1 \in T
  <2>1. CASE i + 1 <= m
    <3>1. i + 1 \in 0 .. m /\ i + 1 \in 0 .. n /\ i + 1 # 0 /\ (i + 1) - 1 = i /\ i <= m
      BY <2>1
    <3>2. v[i] = w[i]
      BY <1>4, <3>1
    <3>3. v[i + 1] = Step(v, i + 1) /\ w[i + 1] = Step(w, i + 1)
      <4> HIDE DEF Step
      <4> QED BY <1>1, <1>2, <3>1
    <3> QED BY <3>1, <3>2, <3>3
  <2> QED BY <2>1
<1>5. Nat \subseteq T
  <2> HIDE DEF T
  <2> QED BY <1>3, <1>4, SetInduction
<1> QED BY <1>5

LEMMA DoublingExists == \E f : Doubles(f)
<1> DEFINE twice == [x \in Nat |-> 2 * x]
           Walk(n) == CHOOSE w : Follows(w, n, 1, twice, Nat, 0)
           f == [n \in Nat |-> Walk(n)[n]]
<1>1. ASSUME NEW n \in Nat PROVE Follows(Walk(n), n, 1, twice, Nat, 0)
  BY WalkExists
<1>2. \A n \in Nat : f[n] = Walk(n)[n]
  OBVIOUS
<1>3. f[0] = 1
  <2>1. 0 \in 0 .. 0
    OBVIOUS
  <2> HIDE DEF f, Walk
  <2> QED BY <1>1, <1>2, <2>1 DEF Follows
<1>4. ASSUME NEW n \in Nat, f[n] \in Nat PROVE f[n + 1] = 2 * f[n]
  <2>1. n + 1 \in Nat /\ n + 1 \in 0 .. n + 1 /\ n + 1 # 0 /\ (n + 1) - 1 = n /\ n \in 0 .. n
        /\ n <= n + 1
    OBVIOUS
  <2> HIDE DEF f, Walk
  <2>2. Follows(Walk(n), n, 1, twice, Nat, 0) /\ Follows(Walk(n + 1), n + 1, 1, twice, Nat, 0)
    BY <1>1, <2>1
  <2>3. Walk(n + 1)[n] = Walk(n)[n]
    <3> HIDE DEF twice
    <3> QED BY <2>1, <2>2, WalksAgree
  <2>4. Walk(n + 1)[n + 1] = IF Walk(n + 1)[n] \in Nat THEN twice[Walk(n + 1)[n]] ELSE 0
    <3> HIDE DEF twice
    <3> QED BY <2>1, <2>2 DEF Follows
  <2> QED BY <1>2, <1>4, <2>1, <2>3, <2>4
<1>5. \A n \in Nat : f[n] \in Nat
  <2> DEFINE T == {n \in Nat : f[n] \in Nat}
  <2>1. 0 \in T
    BY <1>3
  <2>2. ASSUME NEW n \in Nat, n \in T PROVE n + 1 \in T
    <3> HIDE DEF f
    <3> QED BY <1>4, <2>2
  <2>3. Nat \subseteq T
    <3> HIDE DEF T
    <3> QED BY <2>1, <2>2, SetInduction
  <2> QED BY <2>3
<1>6. \A c \in Nat : f[c] = IF c = 0 THEN 1 ELSE 2 * f[c - 1]
  <2> HIDE DEF f
  <2> TAKE c \in Nat
  <2>1. CASE c # 0
    <3>1. c - 1 \in Nat /\ (c - 1) + 1 = c
      BY <2>1
    <3> QED BY <1>4, <1>5, <2>1, <3>1
  <2> QED BY <1>3, <2>1
<1>7. f = [c \in Nat |-> f[c]]
  OBVIOUS
<1>8. Doubles(f)
  <2> HIDE DEF f
  <2> QED BY <1>6, <1>7 DEF Doubles
<1> HIDE DEF f
<1> QED BY <1>8

(* Each class is twice as large as the one before. *)
LEMMA ClassStep ==
  /\ Class2Size[0] = 1
  /\ \A c \in Nat : Class2Size[c + 1] = 2 * Class2Size[c]
<1>1. Class2Size = CHOOSE f : Doubles(f)
  BY DEF Class2Size, Doubles
<1>2. Doubles(Class2Size)
  <2> HIDE <1>1
  <2> QED BY <1>1, DoublingExists
<1>3. \A c \in Nat : Class2Size[c] = IF c = 0 THEN 1 ELSE 2 * Class2Size[c - 1]
  BY <1>2 DEF Doubles
<1>4. \A c \in Nat : c + 1 \in Nat /\ c + 1 # 0 /\ (c + 1) - 1 = c
  OBVIOUS
<1> QED BY <1>3, <1>4

(* There are more words in an object than its class counts. *)
LEMMA ClassType == \A c \in Nat : Class2Size[c] \in Nat /\ Class2Size[c] > c
<1> DEFINE T == {c \in Nat : Class2Size[c] \in Nat /\ Class2Size[c] > c}
<1>1. 0 \in T
  BY ClassStep
<1>2. ASSUME NEW c \in Nat, c \in T PROVE c + 1 \in T
  <2>1. Class2Size[c + 1] = 2 * Class2Size[c]
    BY ClassStep
  <2> QED BY <1>2, <2>1
<1>3. Nat \subseteq T
  <2> HIDE DEF T
  <2> QED BY <1>1, <1>2, SetInduction
<1> QED BY <1>3

(* Larger classes have larger objects. *)
LEMMA ClassGrows ==
  ASSUME NEW c \in Nat, NEW d \in Nat, c < d
  PROVE  2 * Class2Size[c] <= Class2Size[d]
<1> DEFINE T == {e \in Nat : 2 * Class2Size[c] <= Class2Size[c + 1 + e]}
<1>1. 0 \in T
  BY ClassStep, ClassType
<1>2. ASSUME NEW e \in Nat, e \in T PROVE e + 1 \in T
  <2>1. c + 1 + e \in Nat /\ c + 1 + (e + 1) = (c + 1 + e) + 1
    OBVIOUS
  <2>2. Class2Size[c + 1 + (e + 1)] = 2 * Class2Size[c + 1 + e] /\ Class2Size[c + 1 + e] \in Nat
    BY <2>1, ClassStep, ClassType
  <2> QED BY <1>2, <2>2, ClassType
<1>3. Nat \subseteq T
  <2> HIDE DEF T
  <2> QED BY <1>1, <1>2, SetInduction
<1>4. d - c - 1 \in Nat /\ c + 1 + (d - c - 1) = d
  OBVIOUS
<1> QED BY <1>3, <1>4

(* The ceiling of the logarithm is the least class that is large enough. *)
LEMMA Size2ClassIs ==
  ASSUME NEW n \in Nat
  PROVE  /\ Size2Class(n) \in Nat /\ Class2Size[Size2Class(n)] >= n
         /\ \A d \in 0 .. Size2Class(n) - 1 : Class2Size[d] < n
<1> DEFINE Least(c) == Class2Size[c] >= n /\ \A d \in 0 .. c - 1 : Class2Size[d] < n
           T == {k \in Nat : (\E c \in 0 .. k : Class2Size[c] >= n) => \E c \in 0 .. k : Least(c)}
<1>1. 0 \in T
  OBVIOUS
<1>2. ASSUME NEW k \in Nat, k \in T PROVE k + 1 \in T
  <2>1. CASE \E c \in 0 .. k : Class2Size[c] >= n
    <3>1. PICK c \in 0 .. k : Least(c)
      BY <1>2, <2>1
    <3>2. c \in 0 .. k + 1
      OBVIOUS
    <3> HIDE DEF Least
    <3> QED BY <3>1, <3>2
  <2>2. CASE ~ \E c \in 0 .. k : Class2Size[c] >= n
    <3>1. \A d \in 0 .. k : Class2Size[d] < n
      BY <2>2, ClassType
    <3>2. SUFFICES ASSUME NEW c \in 0 .. k + 1, Class2Size[c] >= n PROVE Least(k + 1)
      OBVIOUS
    <3>3. c = k + 1
      BY <2>2, <3>2
    <3> QED BY <3>1, <3>2, <3>3
  <2> QED BY <2>1, <2>2
<1>3. Nat \subseteq T
  <2> HIDE DEF T
  <2> QED BY <1>1, <1>2, SetInduction
<1>4. Class2Size[n] >= n /\ n \in 0 .. n
  BY ClassType
<1>5. \E c \in 0 .. n : Least(c)
  <2>1. n \in T
    BY <1>3
  <2> HIDE DEF Least
  <2> QED BY <1>4, <2>1
<1> QED BY <1>5 DEF Size2Class

LEMMA Size2ClassOfSize ==
  ASSUME NEW c \in Nat
  PROVE  Size2Class(Class2Size[c]) = c
<1> DEFINE n == Class2Size[c]
<1>1. n \in Nat
  BY ClassType
<1>2. /\ Size2Class(n) \in Nat /\ Class2Size[Size2Class(n)] >= n
      /\ \A d \in 0 .. Size2Class(n) - 1 : Class2Size[d] < n
  BY <1>1, Size2ClassIs
<1>3. ~(c < Size2Class(n))
  BY <1>1, <1>2
<1>4. ~(Size2Class(n) < c)
  BY <1>1, <1>2, ClassGrows, ClassType
<1> QED BY <1>2, <1>3, <1>4

(* An object of a class's size goes back to the bin it came from. *)
LEMMA FreeBinOfSize ==
  ASSUME NEW c \in Nat
  PROVE  FreeBin(Class2Size[c]) = c
<1> DEFINE Fits(b) == /\ b = 0 \/ Class2Size[b] <= Class2Size[c]
                      /\ \A d \in b + 1 .. c : Class2Size[d] > Class2Size[c]
<1>1. FreeBin(Class2Size[c]) = CHOOSE b \in 0 .. c : Fits(b)
  BY Size2ClassOfSize DEF FreeBin
<1>2. Class2Size[c] \in Nat
  BY ClassType
<1>3. Fits(c) /\ c \in 0 .. c
  BY <1>2
<1>4. ASSUME NEW b \in 0 .. c, Fits(b) PROVE b = c
  <2>1. b < c => c \in b + 1 .. c
    OBVIOUS
  <2> QED BY <1>2, <1>4, <2>1
<1> HIDE DEF Fits
<1> QED BY <1>1, <1>3, <1>4

(* A pointer of unknown size goes to the first bin. *)
LEMMA FreeBinOfNone == FreeBin(0) = 0 /\ Class2Size[0] = 1
<1>1. Size2Class(0) = 0
  BY DEF Size2Class
<1> QED BY <1>1, ClassStep DEF FreeBin

LEMMA SmallMod ==
  ASSUME NEW m \in Nat, NEW d \in Nat, m < d
  PROVE  m % d = m
<1>1. d \in Nat \ {0}
  OBVIOUS
<1>2. PICK q, r : q = m \div d /\ r = m % d
  OBVIOUS
<1>3. q \in Nat /\ r \in 0 .. d - 1 /\ m = q * d + r
  BY <1>1, <1>2, Division
<1>4. CASE q = 0
  BY <1>2, <1>3, <1>4
<1>5. CASE q # 0
  <2>1. q * d >= d
    BY <1>3, <1>5
  <2> QED BY <1>3, <2>1
<1> QED BY <1>4, <1>5

(* The next multiple of n. *)
LEMMA AlignUpIs ==
  ASSUME NEW n \in Nat \ {0}, NEW a \in Nat
  PROVE  AlignUp(n, a) \in Nat /\ a <= AlignUp(n, a) /\ AlignUp(n, a) < a + n
         /\ AlignUp(n, a) % n = 0
<1> DEFINE x == a + n - 1
           q == x \div n
<1>1. x \in Nat
  OBVIOUS
<1>2. q \in Nat /\ (x % n) \in 0 .. n - 1 /\ x = q * n + (x % n)
  <2> HIDE DEF x
  <2> QED BY <1>1, Division
<1>3. AlignUp(n, a) = q * n
  BY DEF AlignUp
<1>4. q * n \in Nat /\ (q * n) % n = 0
  <2> HIDE DEF q
  <2> QED BY <1>2, MultipleMod
<1> QED
  <2>1. q * n <= x /\ x < q * n + n
    <3> HIDE DEF q, x
    <3> QED BY <1>1, <1>2, <1>4
  <2> HIDE DEF q
  <2> QED BY <1>3, <1>4, <2>1

(* What ANSIWrapper asks for has at least a second word, so its class is   *)
(* never the first.                                                        *)
LEMMA MallocClass ==
  ASSUME NEW n \in Nat
  PROVE  /\ Size2Class(AnsiSize(n)) \in Nat \ {0}
         /\ Class2Size[Size2Class(AnsiSize(n))] >= n
<1> DEFINE m == AnsiSize(n)
<1>1. m \in Nat /\ m >= n /\ m >= 2
  <2> DEFINE x == IF n < 2 THEN 2 ELSE n
  <2>1. x \in Nat /\ x >= n /\ x >= 2 /\ 2 \in Nat \ {0}
    OBVIOUS
  <2>2. m = AlignUp(2, x)
    BY DEF AnsiSize
  <2> HIDE DEF x, m
  <2>3. AlignUp(2, x) \in Nat /\ x <= AlignUp(2, x)
    BY <2>1, AlignUpIs
  <2> QED BY <2>1, <2>2, <2>3
<1> HIDE DEF m
<1>2. Size2Class(m) \in Nat /\ Class2Size[Size2Class(m)] >= m
  BY <1>1, Size2ClassIs
<1>3. Size2Class(m) # 0 /\ Class2Size[Size2Class(m)] \in Nat
  BY <1>1, <1>2, ClassStep, ClassType
<1> QED BY <1>1, <1>2, <1>3 DEF m

-----------------------------------------------------------------------------
(* Rings: doubly linked lists through words e (prev) and e + 1 (next).     *)

(* From hd the links lead through all of S and back, and each entry's prev *)
(* is the entry that leads to it.                                          *)
IsRing(mem, hd, S) ==
  LET ring == S \union {hd}
  IN  /\ hd \notin S
      /\ \A e \in ring : mem[NextOf(e)] \in ring /\ mem[mem[NextOf(e)]] = e
      /\ \A part \in (SUBSET ring) \ {{}, ring} : \E e \in part : mem[NextOf(e)] \notin part

(* Only the words of its own entries matter. *)
LEMMA RingSame ==
  ASSUME NEW mem, NEW k, NEW hd, NEW S, IsRing(mem, hd, S),
         \A e \in S \union {hd} : k[e] = mem[e] /\ k[NextOf(e)] = mem[NextOf(e)]
  PROVE  IsRing(k, hd, S)
BY DEF IsRing

(* The ring of an empty bin is its head alone. *)
LEMMA RingEmpty ==
  ASSUME NEW mem, NEW hd, NEW S, IsRing(mem, hd, S)
  PROVE  mem[NextOf(hd)] = hd <=> S = {}
<1>1. ASSUME mem[NextOf(hd)] = hd PROVE S = {}
  <2>1. {hd} \in SUBSET (S \union {hd}) /\ {hd} # {}
    OBVIOUS
  <2>2. \A e \in {hd} : mem[NextOf(e)] \in {hd}
    BY <1>1
  <2>3. {hd} = S \union {hd}
    BY <2>1, <2>2 DEF IsRing
  <2> QED BY <2>3 DEF IsRing
<1>2. ASSUME S = {} PROVE mem[NextOf(hd)] = hd
  BY <1>2 DEF IsRing
<1> QED BY <1>1, <1>2

(* DLList::insert makes the ring one entry longer. *)
LEMMA RingInsert ==
  ASSUME NEW mem, NEW k, NEW hd \in Int, NEW S \in SUBSET Int, NEW p \in Int,
         IsRing(mem, hd, S), p \notin S, p # hd,
         k[p] = hd, k[NextOf(p)] = mem[NextOf(hd)], k[NextOf(hd)] = p, k[mem[NextOf(hd)]] = p,
         \A e \in S \union {hd} : e # mem[NextOf(hd)] => k[e] = mem[e],
         \A e \in S : k[NextOf(e)] = mem[NextOf(e)]
  PROVE  IsRing(k, hd, S \union {p})
<1> DEFINE ring == S \union {hd}
           new == (S \union {p}) \union {hd}
           f == mem[NextOf(hd)]
<1>1. hd \notin S \union {p} /\ new = ring \union {p} /\ p \notin ring
  BY DEF IsRing
<1>2. f \in ring /\ mem[f] = hd
  BY DEF IsRing
<1>3. ASSUME NEW e \in new PROVE k[NextOf(e)] \in new /\ k[k[NextOf(e)]] = e
  <2>1. CASE e = p
    BY <1>2, <2>1
  <2>2. CASE e = hd
    BY <2>2
  <2>3. CASE e \in S
    <3>1. mem[NextOf(e)] \in ring /\ mem[mem[NextOf(e)]] = e /\ e # hd
      BY <2>3 DEF IsRing
    <3>2. mem[NextOf(e)] # f
      BY <1>2, <3>1
    <3> QED BY <2>3, <3>1, <3>2
  <2> QED BY <2>1, <2>2, <2>3
<1>4. ASSUME NEW part \in SUBSET new, part # {}, part # new, \A e \in part : k[NextOf(e)] \in part
      PROVE  FALSE
  <2>1. CASE p \in part
    <3> DEFINE q == part \ {p}
    <3>1. q \in SUBSET ring /\ f \in q
      BY <1>1, <1>2, <1>4, <2>1
    <3>2. ASSUME NEW e \in q PROVE mem[NextOf(e)] \in q
      <4>1. CASE e = hd
        BY <3>1, <4>1
      <4>2. CASE e \in S
        <5>1. mem[NextOf(e)] \in ring
          BY <4>2 DEF IsRing
        <5>2. k[NextOf(e)] \in part /\ k[NextOf(e)] = mem[NextOf(e)]
          BY <1>4, <4>2
        <5> QED BY <1>1, <5>1, <5>2
      <4> QED BY <3>1, <4>1, <4>2
    <3>3. q = ring
      <4> HIDE DEF q
      <4>1. q # {}
        BY <3>1
      <4> QED BY <3>1, <3>2, <4>1 DEF IsRing
    <3> QED BY <1>1, <1>4, <2>1, <3>3
  <2>2. CASE p \notin part
    <3>1. hd \notin part
      BY <1>4, <2>2
    <3>2. part \in SUBSET ring /\ part # ring
      BY <1>1, <2>2, <3>1
    <3>3. \A e \in part : mem[NextOf(e)] \in part
      BY <1>4, <3>1, <3>2
    <3> QED BY <1>4, <3>2, <3>3 DEF IsRing
  <2> QED BY <2>1, <2>2
<1> QED BY <1>1, <1>3, <1>4 DEF IsRing

(* DLList::get takes the first entry out of the ring. *)
LEMMA RingGet ==
  ASSUME NEW mem, NEW k, NEW hd, NEW S, NEW f, NEW next,
         IsRing(mem, hd, S), f = mem[NextOf(hd)], f # hd, next = mem[NextOf(f)],
         k[NextOf(hd)] = next, k[next] = hd,
         \A e \in S \union {hd} : e # next => k[e] = mem[e],
         \A e \in S : k[NextOf(e)] = mem[NextOf(e)]
  PROVE  f \in S /\ next \in (S \ {f}) \union {hd} /\ IsRing(k, hd, S \ {f})
<1> DEFINE ring == S \union {hd}
           new == (S \ {f}) \union {hd}
<1>1. f \in S /\ mem[f] = hd /\ next \in ring /\ mem[next] = f /\ hd \notin S
  BY DEF IsRing
<1>2. next # f /\ next \in new /\ ring = new \union {f}
  BY <1>1
<1>3. ASSUME NEW e \in S \ {f} PROVE mem[NextOf(e)] \in new \ {next} /\ mem[mem[NextOf(e)]] = e
  <2>1. mem[NextOf(e)] \in ring /\ mem[mem[NextOf(e)]] = e
    BY DEF IsRing
  <2> QED BY <1>1, <2>1
<1>4. ASSUME NEW e \in new PROVE k[NextOf(e)] \in new /\ k[k[NextOf(e)]] = e
  <2>1. CASE e = hd
    BY <1>2, <2>1
  <2>2. CASE e \in S \ {f}
    BY <1>3, <2>2
  <2> QED BY <2>1, <2>2
<1>5. ASSUME NEW part \in SUBSET new, part # {}, part # new, \A e \in part : k[NextOf(e)] \in part
      PROVE  FALSE
  <2>1. CASE hd \in part
    <3> DEFINE q == part \union {f}
    <3>1. q \in SUBSET ring /\ q # {} /\ next \in part
      BY <1>1, <1>2, <1>5, <2>1
    <3>2. ASSUME NEW e \in q PROVE mem[NextOf(e)] \in q
      <4>1. CASE e = hd
        BY <4>1
      <4>2. CASE e = f
        BY <3>1, <4>2
      <4>3. CASE e \in S \ {f}
        <5>1. e \in part
          BY <4>3
        <5> QED BY <1>5, <4>3, <5>1
      <4> QED BY <3>1, <4>1, <4>2, <4>3
    <3>3. q = ring
      <4> HIDE DEF q
      <4> QED BY <3>1, <3>2 DEF IsRing
    <3>4. f \notin part
      BY <1>1, <1>5
    <3> QED BY <1>1, <1>2, <1>5, <3>3, <3>4
  <2>2. CASE hd \notin part
    <3>1. part \in SUBSET ring /\ part # ring /\ part \in SUBSET (S \ {f})
      BY <1>2, <2>2
    <3>2. \A e \in part : mem[NextOf(e)] \in part
      BY <1>5, <3>1
    <3> QED BY <1>5, <3>1, <3>2 DEF IsRing
  <2> QED BY <2>1, <2>2
<1> QED BY <1>1, <1>2, <1>4, <1>5 DEF IsRing

-----------------------------------------------------------------------------
(* The invariant, as a statement on a heap h, the objects C cut from its   *)
(* arenas, the pointers I memalign moved into objects, and the addresses A *)
(* of blocks that are with clients.  It is stated for any of these because *)
(* a call of the wrapper is several calls of the heap.                     *)

(* What should be in bin c. *)
Free(c, C, I, A) ==
  IF c = 0 THEN I \ A
  ELSE {o[1] : o \in {o \in C : o[2] = Class2Size[c] /\ \A p \in I \union A : ~Holds(o, p)}}

Values == Int \union Data \union {Magic}

HeapType ==
  [mem : [Address -> Values], arenas : SUBSET (Word \X Nat),
   arena : ArenaAddrs \union {NULL}, space : Nat, left : Nat]

(* Arenas lie in memory side by side, and what is left of the current one  *)
(* lies behind its header.                                                 *)
ArenasInv(h) ==
  /\ \A m \in h.arenas :
       /\ m[1] + m[2] - 1 <= MemTop
       /\ \A k \in h.arenas : k # m => m[1] + m[2] <= k[1] \/ k[1] + k[2] <= m[1]
  /\ h.arena # NULL =>
       \E m \in h.arenas :
         /\ m[1] = h.arena
         /\ m[1] + ArenaHeader <= h.space /\ h.space + h.left <= m[1] + m[2]

(* Object o with its header lies before object q with its own. *)
Before(o, q) == o[1] + o[2] <= q[1] - SizeHeader

Within(o, m) == m[1] + ArenaHeader + SizeHeader <= o[1] /\ o[1] + o[2] <= m[1] + m[2]

(* Objects have the size of a class, and lie in arenas side by side,       *)
(* outside what is left.                                                   *)
ObjectsInv(h, C) ==
  /\ C \subseteq Word \X Nat
  /\ \A o \in C :
       /\ \E c \in Nat \ {0} : o[2] = Class2Size[c]
       /\ \E m \in h.arenas : Within(o, m)
       /\ h.arena # NULL => o[1] + o[2] <= h.space \/ h.space + h.left <= o[1] - SizeHeader
       /\ \A q \in C : q # o => Before(o, q) \/ Before(q, o)

(* Headers are as they were written, and nothing else looks like one. *)
HeadersInv(h, C) ==
  /\ \A o \in C : h.mem[o[1] - 2] = o[2] /\ h.mem[o[1] - 1] = Magic
  /\ \A a \in Address : h.mem[a] = Magic => \E o \in C : a = o[1] - 1

(* An object has one user: a client whose block starts where the object    *)
(* starts, or a pointer memalign moved into it, freed since or not.        *)
UsersInv(C, I, A) ==
  /\ \A p \in I \union A : \E o \in C : Holds(o, p) /\ Holds(o, NextOf(p))
  /\ \A p \in I : \A o \in C : p # o[1]
  /\ \A p \in A \ I : \E o \in C : p = o[1]
  /\ \A o \in C : \A p, q \in I \union A : Holds(o, p) /\ Holds(o, q) => p = q

RingsInv(h, C, I, A) == \A c \in Bins : IsRing(h.mem, Head(c), Free(c, C, I, A))

Good(h, C, I, A) ==
  /\ h \in HeapType
  /\ ArenasInv(h) /\ ObjectsInv(h, C) /\ HeadersInv(h, C)
  /\ UsersInv(C, I, A) /\ RingsInv(h, C, I, A)

-----------------------------------------------------------------------------
(* What the invariant says of single objects and entries.                  *)

LEMMA ObjectFacts ==
  ASSUME NEW h, NEW C, NEW I, NEW A, Good(h, C, I, A), NEW o \in C
  PROVE  /\ o[1] \in Int /\ o[1] >= 6 /\ o[2] \in Nat /\ o[2] >= 2
         /\ o[1] + o[2] - 1 <= MemTop /\ o = <<o[1], o[2]>>
<1>1. o \in Word \X Nat
  BY DEF Good, ObjectsInv
<1>2. PICK c \in Nat \ {0} : o[2] = Class2Size[c]
  BY DEF Good, ObjectsInv
<1>3. o[2] >= 2
  BY <1>2, ClassType
<1>4. PICK m \in h.arenas : Within(o, m)
  BY DEF Good, ObjectsInv
<1>5. m[1] \in Nat /\ m[2] \in Nat /\ m[1] >= 1 /\ m[1] + m[2] - 1 <= MemTop
  <2>1. m \in Word \X Nat
    BY DEF Good, HeapType
  <2> QED BY <2>1 DEF Good, ArenasInv, Word
<1>6. MemTop \in Nat
  BY KingsleyAssumption
<1> QED BY <1>1, <1>3, <1>4, <1>5, <1>6 DEF Within, ArenaHeader, SizeHeader, Word

(* Words of an object are words of memory. *)
LEMMA HeldWords ==
  ASSUME NEW h, NEW C, NEW I, NEW A, Good(h, C, I, A), NEW o \in C, NEW w, Holds(o, w)
  PROVE  w \in Int /\ w >= 6 /\ w \in Word /\ w \in Address
BY ObjectFacts, KingsleyAssumption DEF Holds, Word, Address

(* No word belongs to two objects. *)
LEMMA OneHolder ==
  ASSUME NEW h, NEW C, NEW I, NEW A, Good(h, C, I, A), NEW o \in C, NEW q \in C,
         NEW w, Holds(o, w), Holds(q, w)
  PROVE  o = q
<1>1. /\ o[1] \in Int /\ o[2] \in Nat /\ q[1] \in Int /\ q[2] \in Nat
  BY ObjectFacts
<1>2. o # q => Before(o, q) \/ Before(q, o)
  BY DEF Good, ObjectsInv
<1> QED BY <1>1, <1>2 DEF Before, SizeHeader, Holds

(* The word before an object is its header's, not another object's. *)
LEMMA HeaderApart ==
  ASSUME NEW h, NEW C, NEW I, NEW A, Good(h, C, I, A), NEW o \in C, NEW q \in C
  PROVE  ~Holds(q, o[1] - 1) /\ ~Holds(q, o[1] - 2)
<1>1. /\ o[1] \in Int /\ o[2] \in Nat /\ q[1] \in Int /\ q[2] \in Nat /\ o[2] >= 2
  BY ObjectFacts
<1>2. o # q => Before(o, q) \/ Before(q, o)
  BY DEF Good, ObjectsInv
<1> QED BY <1>1, <1>2 DEF Before, SizeHeader, Holds

LEMMA HeldStart ==
  ASSUME NEW h, NEW C, NEW I, NEW A, Good(h, C, I, A), NEW o \in C
  PROVE  Holds(o, o[1]) /\ Holds(o, NextOf(o[1]))
BY ObjectFacts DEF Holds, NextOf

(* The heads have words of their own. *)
LEMMA HeadFacts ==
  ASSUME NEW c \in Bins
  PROVE  /\ Head(c) \in Int /\ Head(c) < -1 /\ NextOf(Head(c)) < 0
         /\ Head(c) \in Address /\ NextOf(Head(c)) \in Address
         /\ \A d \in Bins : /\ Head(d) = Head(c) => c = d
                            /\ Head(d) # NextOf(Head(c))
<1>1. NumBins \in Nat
  BY KingsleyAssumption
<1>2. c \in Nat /\ \A d \in Bins : d \in Nat
  BY <1>1 DEF Bins
<1>3. Head(c) \in Heads
  BY DEF Heads
<1> QED BY <1>2, <1>3 DEF Head, NextOf, Address

(* A free entry lies with both its words in an object no client is in. *)
LEMMA EntryHome ==
  ASSUME NEW h, NEW C, NEW I, NEW A, Good(h, C, I, A), NEW c \in Bins,
         NEW e \in Free(c, C, I, A)
  PROVE  \E o \in C : /\ Holds(o, e) /\ Holds(o, NextOf(e))
                      /\ \A a \in A : ~Holds(o, a)
                      /\ c # 0 => /\ o[1] = e /\ o[2] = Class2Size[c]
                                  /\ \A p \in I \union A : ~Holds(o, p)
                      /\ c = 0 => e \in I
<1>1. CASE c = 0
  <2>1. e \in I \ A
    BY <1>1 DEF Free
  <2>2. PICK o \in C : Holds(o, e) /\ Holds(o, NextOf(e))
    BY <2>1 DEF Good, UsersInv
  <2>3. \A a \in A : ~Holds(o, a)
    BY <2>1, <2>2 DEF Good, UsersInv
  <2> QED BY <1>1, <2>1, <2>2, <2>3
<1>2. CASE c # 0
  <2>1. PICK o \in C : e = o[1] /\ o[2] = Class2Size[c] /\ \A p \in I \union A : ~Holds(o, p)
    BY <1>2 DEF Free
  <2> QED BY <1>2, <2>1, HeldStart
<1> QED BY <1>1, <1>2

(* No object has two free entries. *)
LEMMA OneEntry ==
  ASSUME NEW h, NEW C, NEW I, NEW A, Good(h, C, I, A),
         NEW c \in Bins, NEW e \in Free(c, C, I, A), NEW d \in Bins, NEW f \in Free(d, C, I, A),
         NEW o \in C, Holds(o, e), Holds(o, f)
  PROVE  e = f /\ c = d
<1>1. c \in Nat /\ d \in Nat
  BY KingsleyAssumption DEF Bins
<1>2. PICK q \in C : /\ Holds(q, e)
                     /\ c # 0 => /\ q[1] = e /\ q[2] = Class2Size[c]
                                 /\ \A p \in I \union A : ~Holds(q, p)
                     /\ c = 0 => e \in I
  BY EntryHome
<1>3. PICK r \in C : /\ Holds(r, f)
                     /\ d # 0 => /\ r[1] = f /\ r[2] = Class2Size[d]
                                 /\ \A p \in I \union A : ~Holds(r, p)
                     /\ d = 0 => f \in I
  BY EntryHome
<1>4. q = o /\ r = o
  BY <1>2, <1>3, OneHolder
<1>5. CASE c = 0 /\ d = 0
  BY <1>2, <1>3, <1>5 DEF Good, UsersInv
<1>6. CASE c # 0 /\ d # 0
  <2>1. e = f /\ Class2Size[c] = Class2Size[d]
    BY <1>2, <1>3, <1>4, <1>6
  <2>2. Size2Class(Class2Size[c]) = c /\ Size2Class(Class2Size[d]) = d
    BY <1>1, Size2ClassOfSize
  <2> QED BY <2>1, <2>2
<1>7. c = 0 <=> d = 0
  BY <1>2, <1>3, <1>4
<1> QED BY <1>5, <1>6, <1>7

(* The words of different entries, heads included, are different. *)
LEMMA EntriesApart ==
  ASSUME NEW h, NEW C, NEW I, NEW A, Good(h, C, I, A), NEW c \in Bins, NEW d \in Bins,
         NEW e \in Free(c, C, I, A) \union {Head(c)}, NEW f \in Free(d, C, I, A) \union {Head(d)}
  PROVE  /\ e \in Address /\ NextOf(e) \in Address /\ e \in Int /\ e # NextOf(f)
         /\ e = f => c = d
<1>1. ASSUME NEW b \in Bins, NEW x \in Free(b, C, I, A)
      PROVE  x \in Int /\ x >= 6 /\ x \in Address /\ NextOf(x) \in Address
  BY <1>1, EntryHome, HeldWords
<1>2. CASE e \in Free(c, C, I, A) /\ f \in Free(d, C, I, A)
  <2>1. PICK q \in C : Holds(q, f) /\ Holds(q, NextOf(f))
    BY <1>2, EntryHome
  <2>2. e = NextOf(f) => e = f
    BY <1>2, <2>1, OneEntry
  <2>3. f # NextOf(f)
    BY <1>1, <1>2 DEF NextOf
  <2>4. e = f => c = d
    BY <1>2, <2>1, OneEntry
  <2> QED BY <1>1, <1>2, <2>2, <2>3, <2>4
<1>3. CASE e = Head(c) /\ f \in Free(d, C, I, A)
  BY <1>1, <1>3, HeadFacts DEF NextOf
<1>4. CASE e \in Free(c, C, I, A) /\ f = Head(d)
  BY <1>1, <1>4, HeadFacts
<1>5. CASE e = Head(c) /\ f = Head(d)
  BY <1>5, HeadFacts
<1> QED BY <1>2, <1>3, <1>4, <1>5

-----------------------------------------------------------------------------
(* What a call of the heap does to the objects that clients are in.        *)

Untouched(h, k, C, A) ==
  \A o \in C : (\E a \in A : Holds(o, a)) => \A w : Holds(o, w) => k.mem[w] = h.mem[w]

(* From heap h with objects C the object o, old or new, went to a client. *)
Took(h, k, C, I, A, o) ==
  /\ Good(k, C \union {o}, I, A \union {o[1]})
  /\ \A p \in I \union A : ~Holds(o, p)
  /\ Untouched(h, k, C, A)
  /\ o \notin C => \A c \in Bins : Class2Size[c] = o[2] => Free(c, C, I, A) = {}

(* mmap's results, if any, are apart from all arenas. *)
LEMMA NewArenaGood ==
  ASSUME NEW h, NEW C, NEW I, NEW A, Good(h, C, I, A), NEW n \in Nat,
         NEW z \in NewArena(h, n)
  PROVE  Good(z, C, I, A) /\ z.mem = h.mem /\ (z.arena # NULL => z.left >= n)
<1> DEFINE size == IF ChunkSize < n THEN n ELSE ChunkSize
<1>1. size \in Nat /\ size >= n
  BY KingsleyAssumption
<1>2. h \in HeapType
  BY DEF Good
<1>3. PICK a \in MmapResults(h, size + ArenaHeader) :
        z = IF a = NULL THEN [h EXCEPT !.arena = NULL]
            ELSE [h EXCEPT !.arenas = @ \union {<<a, size + ArenaHeader>>},
                           !.arena = a, !.space = a + ArenaHeader, !.left = size]
  BY DEF NewArena
<1> HIDE DEF size
<1>4. CASE a = NULL
  <2>1. z = [h EXCEPT !.arena = NULL]
    BY <1>3, <1>4
  <2>2. /\ z \in HeapType /\ z.mem = h.mem /\ z.arenas = h.arenas /\ z.arena = NULL
    BY <1>2, <2>1 DEF HeapType
  <2>3. ArenasInv(z) /\ ObjectsInv(z, C) /\ HeadersInv(z, C) /\ RingsInv(z, C, I, A)
    BY <2>2 DEF Good, ArenasInv, ObjectsInv, HeadersInv, RingsInv
  <2> QED BY <2>2, <2>3 DEF Good
<1>5. CASE a # NULL
  <2> DEFINE m == <<a, size + ArenaHeader>>
  <2>1. /\ a \in ArenaAddrs /\ a + (size + ArenaHeader) - 1 <= MemTop
        /\ \A k \in h.arenas : a + (size + ArenaHeader) <= k[1] \/ k[1] + k[2] <= a
    BY <1>3, <1>5 DEF MmapResults
  <2>2. a \in Word /\ a \in Nat /\ size + ArenaHeader \in Nat
    BY <1>1, <2>1, KingsleyAssumption DEF Word, ArenaHeader
  <2>3. z = [h EXCEPT !.arenas = @ \union {<<a, size + ArenaHeader>>},
                      !.arena = a, !.space = a + ArenaHeader, !.left = size]
    BY <1>3, <1>5
  <2>4. /\ z.mem = h.mem /\ z.arenas = h.arenas \union {m} /\ z.arena = a
        /\ z.space = a + ArenaHeader /\ z.left = size
        /\ z = [mem |-> h.mem, arenas |-> h.arenas \union {m}, arena |-> a,
                space |-> a + ArenaHeader, left |-> size]
    BY <1>2, <2>3 DEF HeapType
  <2>5. z \in HeapType
    <3>1. m \in Word \X Nat /\ h.arenas \subseteq Word \X Nat /\ h.mem \in [Address -> Values]
      BY <1>2, <2>2 DEF HeapType
    <3>2. a + ArenaHeader \in Nat
      BY <2>2 DEF ArenaHeader
    <3> QED BY <1>1, <2>1, <2>4, <3>1, <3>2 DEF HeapType
  <2>6. \A k \in h.arenas : k[1] \in Nat /\ k[2] \in Nat
    <3>1. h.arenas \subseteq Word \X Nat
      BY <1>2 DEF HeapType
    <3> QED BY <3>1 DEF Word
  <2>7. ArenasInv(z)
    <3>1. ASSUME NEW j \in z.arenas
          PROVE  /\ j[1] + j[2] - 1 <= MemTop
                 /\ \A k \in z.arenas : k # j => j[1] + j[2] <= k[1] \/ k[1] + k[2] <= j[1]
      <4>1. CASE j \in h.arenas
        BY <2>1, <2>4, <4>1 DEF Good, ArenasInv
      <4>2. CASE j = m
        BY <2>1, <2>4, <4>2
      <4> QED BY <2>4, <4>1, <4>2
    <3>2. /\ m \in z.arenas /\ m[1] = z.arena
          /\ m[1] + ArenaHeader <= z.space /\ z.space + z.left <= m[1] + m[2]
      BY <1>1, <2>2, <2>4 DEF ArenaHeader
    <3> HIDE DEF m
    <3> QED BY <3>1, <3>2 DEF ArenasInv
  <2>8. ObjectsInv(z, C)
    <3>1. ASSUME NEW o \in C
          PROVE  /\ \E c \in Nat \ {0} : o[2] = Class2Size[c]
                 /\ \E k \in z.arenas : Within(o, k)
                 /\ o[1] + o[2] <= z.space \/ z.space + z.left <= o[1] - SizeHeader
                 /\ \A q \in C : q # o => Before(o, q) \/ Before(q, o)
      <4>1. PICK k \in h.arenas : Within(o, k)
        BY DEF Good, ObjectsInv
      <4>2. k \in z.arenas
        BY <2>4
      <4>3. o[1] \in Int /\ o[2] \in Nat
        BY ObjectFacts
      <4>4. o[1] + o[2] <= z.space \/ z.space + z.left <= o[1] - SizeHeader
        BY <1>1, <2>1, <2>2, <2>4, <2>6, <4>1, <4>3 DEF Within, ArenaHeader, SizeHeader
      <4> QED BY <4>1, <4>2, <4>4 DEF Good, ObjectsInv
    <3>2. C \subseteq Word \X Nat
      BY DEF Good, ObjectsInv
    <3> QED BY <3>1, <3>2 DEF ObjectsInv
  <2>9. HeadersInv(z, C) /\ RingsInv(z, C, I, A)
    BY <2>4 DEF Good, HeadersInv, RingsInv
  <2> HIDE DEF m
  <2> QED BY <1>1, <2>4, <2>5, <2>7, <2>8, <2>9 DEF Good
<1> QED BY <1>4, <1>5

(* Neither a free entry nor the head of a bin lies in what is left of the  *)
(* current arena.                                                          *)
LEMMA SpaceIsFree ==
  ASSUME NEW h, NEW C, NEW I, NEW A, Good(h, C, I, A), h.arena # NULL,
         NEW w \in h.space .. h.space + h.left - 1
  PROVE  /\ w \in Address /\ w \in Word /\ w >= 4 /\ h.mem[w] # Magic
         /\ \A o \in C : ~Holds(o, w) /\ w # o[1] - 1 /\ w # o[1] - 2
         /\ \A c \in Bins : \A e \in Free(c, C, I, A) \union {Head(c)} : w # e /\ w # NextOf(e)
<1>1. h.space \in Nat /\ h.left \in Nat
  BY DEF Good, HeapType
<1>2. PICK m \in h.arenas : m[1] + ArenaHeader <= h.space /\ h.space + h.left <= m[1] + m[2]
  BY DEF Good, ArenasInv
<1>3. m[1] \in Nat /\ m[1] >= 1 /\ m[2] \in Nat /\ m[1] + m[2] - 1 <= MemTop
  <2>1. m \in Word \X Nat
    BY DEF Good, HeapType
  <2> QED BY <2>1 DEF Good, ArenasInv, Word
<1>4. w \in Nat /\ w >= 4 /\ w <= MemTop
  BY <1>1, <1>2, <1>3, KingsleyAssumption DEF ArenaHeader
<1>5. w \in Word /\ w \in Address
  BY <1>4, KingsleyAssumption DEF Word, Address
<1>6. ASSUME NEW o \in C PROVE ~Holds(o, w) /\ w # o[1] - 1 /\ w # o[1] - 2
  <2>1. o[1] + o[2] <= h.space \/ h.space + h.left <= o[1] - SizeHeader
    BY DEF Good, ObjectsInv
  <2>2. o[1] \in Int /\ o[2] \in Nat
    BY ObjectFacts
  <2> QED BY <1>1, <1>4, <2>1, <2>2 DEF Holds, SizeHeader
<1>7. h.mem[w] # Magic
  BY <1>5, <1>6 DEF Good, HeadersInv
<1>8. ASSUME NEW c \in Bins, NEW e \in Free(c, C, I, A) \union {Head(c)}
      PROVE  w # e /\ w # NextOf(e)
  <2>1. CASE e = Head(c)
    BY <1>4, <2>1, HeadFacts
  <2>2. CASE e \in Free(c, C, I, A)
    BY <1>6, <2>2, EntryHome
  <2> QED BY <2>1, <2>2
<1> QED BY <1>4, <1>5, <1>6, <1>7, <1>8

(* A use of an object nobody was in takes it out of its bin, and changes   *)
(* no other bin.                                                           *)
LEMMA FreeWithUser ==
  ASSUME NEW h, NEW C, NEW I, NEW A, Good(h, C, I, A), NEW o \in C,
         \A p \in I \union A : ~Holds(o, p), NEW c \in Nat
  PROVE  Free(c, C, I, A \union {o[1]}) = Free(c, C, I, A) \ {o[1]}
<1>1. CASE c = 0
  BY <1>1 DEF Free
<1>2. CASE c # 0
  <2>1. ASSUME NEW q \in C, q # o PROVE ~Holds(q, o[1]) /\ q[1] # o[1]
    BY <2>1, HeldStart, OneHolder
  <2>2. Holds(o, o[1])
    BY HeldStart
  <2> QED BY <1>2, <2>1, <2>2 DEF Free
<1> QED BY <1>1, <1>2

(* ... and it has one user then. *)
LEMMA UsersWithUser ==
  ASSUME NEW h, NEW C, NEW I, NEW A, Good(h, C, I, A), NEW o \in C,
         \A p \in I \union A : ~Holds(o, p)
  PROVE  UsersInv(C, I, A \union {o[1]})
<1>1. Holds(o, o[1]) /\ Holds(o, NextOf(o[1]))
  BY HeldStart
<1>2. \A q \in C : Holds(q, o[1]) => q = o
  BY <1>1, OneHolder
<1>3. \A p \in I \union (A \union {o[1]}) : \E q \in C : Holds(q, p) /\ Holds(q, NextOf(p))
  BY <1>1 DEF Good, UsersInv
<1>4. \A p \in (A \union {o[1]}) \ I : \E q \in C : p = q[1]
  BY DEF Good, UsersInv
<1>5. \A q \in C : \A x, y \in I \union (A \union {o[1]}) : Holds(q, x) /\ Holds(q, y) => x = y
  BY <1>2 DEF Good, UsersInv
<1> QED BY <1>3, <1>4, <1>5 DEF Good, UsersInv

(* The heap after n words were cut, with a header, from what is left. *)
CutFrom(h, need, n) ==
  [h EXCEPT !.mem[h.space] = n, !.mem[h.space + 1] = Magic,
            !.space = @ + need, !.left = @ - need]

CutObject(h, n) == <<h.space + SizeHeader, n>>

LEMMA CutFields ==
  ASSUME NEW h \in HeapType, NEW need \in Nat, NEW n
  PROVE  CutFrom(h, need, n) =
           [mem |-> [[h.mem EXCEPT ![h.space] = n] EXCEPT ![h.space + 1] = Magic],
            arenas |-> h.arenas, arena |-> h.arena, space |-> h.space + need,
            left |-> h.left - need]
<1> DEFINE s == h.space
<1>1. ASSUME NEW k,
             k = [h EXCEPT !.mem[s] = n, !.mem[s + 1] = Magic,
                           !.space = @ + need, !.left = @ - need]
      PROVE  /\ k.arenas = h.arenas /\ k.arena = h.arena /\ k.space = s + need
             /\ k.left = h.left - need
             /\ k.mem = [[h.mem EXCEPT ![s] = n] EXCEPT ![s + 1] = Magic]
             /\ k = [mem |-> k.mem, arenas |-> k.arenas, arena |-> k.arena, space |-> k.space,
                     left |-> k.left]
  BY <1>1 DEF HeapType
<1>2. CutFrom(h, need, n) = [h EXCEPT !.mem[s] = n, !.mem[s + 1] = Magic,
                                      !.space = @ + need, !.left = @ - need]
  BY DEF CutFrom
<1> QED BY <1>1, <1>2

IsCut(h, C, I, A, k, o) ==
  /\ o \notin C /\ \A p \in I \union A : ~Holds(o, p)
  /\ k \in HeapType /\ ArenasInv(k)
  /\ ObjectsInv(k, C \union {o}) /\ HeadersInv(k, C \union {o})
  /\ \A a \in Address : a \notin h.space .. h.space + h.left - 1 => k.mem[a] = h.mem[a]

(* An object cut from what is left, not used yet. *)
LEMMA CutGood ==
  ASSUME NEW h, NEW C, NEW I, NEW A, Good(h, C, I, A), h.arena # NULL,
         NEW c \in Nat \ {0}, NEW need \in Nat, need >= Class2Size[c] + SizeHeader,
         need <= h.left
  PROVE  IsCut(h, C, I, A, CutFrom(h, need, Class2Size[c]), CutObject(h, Class2Size[c]))
<1> DEFINE s == h.space
           n == Class2Size[c]
           k == CutFrom(h, need, n)
           o == CutObject(h, n)
           D == C \union {o}
<1>1. s \in Nat /\ h.left \in Nat /\ h.mem \in [Address -> Values] /\ h \in HeapType
  BY DEF Good, HeapType
<1>2. n \in Nat /\ n >= 2
  BY ClassType
<1> HIDE DEF n, k, o
<1>3. s \in s .. s + h.left - 1 /\ s + 1 \in s .. s + h.left - 1
  BY <1>1, <1>2 DEF SizeHeader, n
<1>4. s \in Address /\ s + 1 \in Address /\ s \in Word /\ s >= 4 /\ s # s + 1
  BY <1>1, <1>3, SpaceIsFree
<1>5. /\ k.arenas = h.arenas /\ k.arena = h.arena /\ k.space = s + need
      /\ k.left = h.left - need
      /\ k.mem = [[h.mem EXCEPT ![s] = n] EXCEPT ![s + 1] = Magic]
      /\ k = [mem |-> k.mem, arenas |-> k.arenas, arena |-> k.arena, space |-> k.space,
              left |-> k.left]
  BY <1>1, CutFields DEF k
<1>6. /\ k.mem[s] = n /\ k.mem[s + 1] = Magic
      /\ \A a \in Address \ {s, s + 1} : k.mem[a] = h.mem[a]
      /\ k.mem \in [Address -> Values]
  <2>1. n \in Values /\ Magic \in Values
    BY <1>2 DEF Values
  <2> QED BY <1>1, <1>4, <1>5, <2>1
<1>7. k \in HeapType
  <2>1. k.space \in Nat /\ k.left \in Nat
    BY <1>1, <1>5
  <2>2. k.arenas \in SUBSET (Word \X Nat) /\ k.arena \in ArenaAddrs \union {NULL}
    BY <1>1, <1>5 DEF HeapType
  <2> QED BY <1>5, <1>6, <2>1, <2>2 DEF HeapType
<1>8. PICK m \in h.arenas : /\ m[1] = h.arena
                            /\ m[1] + ArenaHeader <= s /\ s + h.left <= m[1] + m[2]
  BY DEF Good, ArenasInv
<1>9. m[1] \in Nat /\ m[2] \in Nat /\ m[1] + m[2] - 1 <= MemTop
  <2>1. m \in Word \X Nat
    BY DEF Good, HeapType
  <2> QED BY <2>1 DEF Good, ArenasInv, Word
<1>10. ArenasInv(k)
  <2>1. /\ m[1] + ArenaHeader <= k.space /\ k.space + k.left <= m[1] + m[2]
    BY <1>1, <1>5, <1>8, <1>9 DEF ArenaHeader
  <2> QED BY <1>5, <1>8, <2>1 DEF Good, ArenasInv
<1>11. /\ o[1] = s + SizeHeader /\ o[2] = n /\ o \in Word \X Nat
       /\ o[1] + o[2] <= k.space /\ Within(o, m)
  <2>1. o[1] = s + SizeHeader /\ o[2] = n /\ o = <<s + SizeHeader, n>>
    BY DEF CutObject, o
  <2>2. s + SizeHeader \in Word
    <3>1. s + SizeHeader <= MemTop
      <4>1. MemTop \in Nat /\ n + SizeHeader <= h.left
        BY <1>1, <1>2, KingsleyAssumption DEF SizeHeader, n
      <4> QED BY <1>1, <1>2, <1>8, <1>9, <4>1 DEF SizeHeader
    <3> QED BY <1>1, <3>1, KingsleyAssumption DEF SizeHeader, Word
  <2>3. o[1] + o[2] <= k.space
    BY <1>1, <1>2, <1>5, <2>1 DEF n, SizeHeader
  <2>4. k.space <= m[1] + m[2]
    BY <1>1, <1>5, <1>8, <1>9
  <2>5. Within(o, m)
    BY <1>1, <1>2, <1>5, <1>8, <1>9, <2>1, <2>3, <2>4 DEF Within, SizeHeader, ArenaHeader
  <2> QED BY <1>2, <2>1, <2>2, <2>3, <2>5 DEF n
<1>12. ASSUME NEW q \in C
       PROVE  /\ Before(o, q) \/ Before(q, o)
              /\ q[1] + q[2] <= k.space \/ k.space + k.left <= q[1] - SizeHeader
  <2>1. q[1] \in Int /\ q[2] \in Nat /\ q[2] >= 2
    BY ObjectFacts
  <2>2. q[1] + q[2] <= s \/ s + h.left <= q[1] - SizeHeader
    BY DEF Good, ObjectsInv
  <2> QED BY <1>1, <1>2, <1>5, <1>11, <2>1, <2>2 DEF Before, SizeHeader
<1>13. o \notin C
  <2>1. o[1] \in Nat /\ o[2] >= 2 /\ o[2] \in Nat
    BY <1>1, <1>2, <1>11 DEF SizeHeader
  <2> QED BY <1>12, <2>1 DEF Before, SizeHeader
<1>14. ObjectsInv(k, D)
  <2>1. \A q \in C : /\ \E d \in Nat \ {0} : q[2] = Class2Size[d]
                     /\ \E j \in h.arenas : Within(q, j)
                     /\ \A r \in C : r # q => Before(q, r) \/ Before(r, q)
    BY DEF Good, ObjectsInv
  <2>2. C \subseteq Word \X Nat
    BY DEF Good, ObjectsInv
  <2>3. D \subseteq Word \X Nat
    BY <1>11, <2>2
  <2>4. ASSUME NEW q \in D
        PROVE  /\ \E d \in Nat \ {0} : q[2] = Class2Size[d]
               /\ \E j \in k.arenas : Within(q, j)
               /\ k.arena # NULL => q[1] + q[2] <= k.space \/ k.space + k.left <= q[1] - SizeHeader
               /\ \A r \in D : r # q => Before(q, r) \/ Before(r, q)
    <3>1. CASE q = o
      <4>1. q[2] = Class2Size[c]
        BY <1>11, <3>1 DEF n
      <4>2. \E j \in k.arenas : Within(q, j)
        BY <1>5, <1>11, <3>1
      <4>3. q[1] + q[2] <= k.space
        BY <1>11, <3>1
      <4>4. \A r \in D : r # q => Before(q, r) \/ Before(r, q)
        BY <1>12, <3>1
      <4> QED BY <4>1, <4>2, <4>3, <4>4
    <3>2. CASE q \in C
      BY <1>5, <1>12, <2>1, <3>2
    <3> QED BY <3>1, <3>2
  <2> QED BY <2>3, <2>4 DEF ObjectsInv
<1>15. HeadersInv(k, D)
  <2>1. ASSUME NEW q \in C PROVE k.mem[q[1] - 2] = q[2] /\ k.mem[q[1] - 1] = Magic
    <3>1. /\ q[1] - 2 \notin {s, s + 1} /\ q[1] - 1 \notin {s, s + 1}
      BY <1>3, SpaceIsFree
    <3>2. q[1] - 2 \in Address /\ q[1] - 1 \in Address
      BY ObjectFacts, KingsleyAssumption DEF Address, Word
    <3>3. h.mem[q[1] - 2] = q[2] /\ h.mem[q[1] - 1] = Magic
      BY DEF Good, HeadersInv
    <3> QED BY <1>6, <3>1, <3>2, <3>3
  <2>2. k.mem[o[1] - 2] = o[2] /\ k.mem[o[1] - 1] = Magic
    <3>1. o[1] - 2 = s /\ o[1] - 1 = s + 1
      BY <1>1, <1>11 DEF SizeHeader
    <3> QED BY <1>6, <1>11, <3>1
  <2>3. ASSUME NEW a \in Address, k.mem[a] = Magic PROVE \E q \in D : a = q[1] - 1
    <3>1. CASE a = s + 1
      BY <1>1, <1>11, <3>1 DEF SizeHeader
    <3>2. CASE a = s
      <4>1. n # Magic
        BY <1>2, KingsleyAssumption
      <4> QED BY <1>6, <2>3, <3>2, <4>1
    <3>3. CASE a \notin {s, s + 1}
      <4>1. h.mem[a] = Magic
        BY <1>6, <2>3, <3>3
      <4> QED BY <4>1 DEF Good, HeadersInv
    <3> QED BY <3>1, <3>2, <3>3
  <2> QED BY <2>1, <2>2, <2>3 DEF HeadersInv
<1>16. \A p \in I \union A : ~Holds(o, p)
  <2>1. ASSUME NEW p \in I \union A, Holds(o, p) PROVE FALSE
    <3>1. PICK q \in C : Holds(q, p)
      BY DEF Good, UsersInv
    <3>2. q[1] \in Int /\ q[2] \in Nat /\ o[1] \in Nat /\ o[2] \in Nat
      BY <1>1, <1>2, <1>11, ObjectFacts DEF SizeHeader
    <3> QED BY <1>12, <2>1, <3>1, <3>2 DEF Holds, Before, SizeHeader
  <2> QED BY <2>1
<1> QED BY <1>3, <1>6, <1>7, <1>10, <1>13, <1>14, <1>15, <1>16 DEF n, k, o, IsCut

(* A new object is nobody's, and no bin's. *)
LEMMA FreeWithObject ==
  ASSUME NEW C, NEW I, NEW A, NEW o, NEW c \in Nat, Holds(o, o[1]),
         \A p \in I : p # o[1], \A q \in C : ~Holds(q, o[1])
  PROVE  Free(c, C \union {o}, I, A \union {o[1]}) = Free(c, C, I, A)
<1>1. CASE c = 0
  BY <1>1 DEF Free
<1>2. CASE c # 0
  <2> DEFINE Unused(q, B) == \A p \in I \union B : ~Holds(q, p)
  <2>1. ~Unused(o, A \union {o[1]})
    OBVIOUS
  <2>2. \A q \in C : Unused(q, A \union {o[1]}) <=> Unused(q, A)
    OBVIOUS
  <2>3. {q \in C \union {o} : q[2] = Class2Size[c] /\ Unused(q, A \union {o[1]})}
          = {q \in C : q[2] = Class2Size[c] /\ Unused(q, A)}
    <3> HIDE DEF Unused
    <3> QED BY <2>1, <2>2
  <2> QED BY <1>2, <2>3 DEF Free
<1> QED BY <1>1, <1>2

LEMMA UsersWithObject ==
  ASSUME NEW C, NEW I, NEW A, UsersInv(C, I, A), NEW o, Holds(o, o[1]), Holds(o, NextOf(o[1])),
         \A p \in I \union A : ~Holds(o, p), \A q \in C : ~Holds(q, o[1])
  PROVE  UsersInv(C \union {o}, I, A \union {o[1]})
<1> DEFINE D == C \union {o}
           B == A \union {o[1]}
<1>1. \A p \in I \union B : \E q \in D : Holds(q, p) /\ Holds(q, NextOf(p))
  BY DEF UsersInv
<1>2. \A p \in I : \A q \in D : p # q[1]
  BY DEF UsersInv
<1>3. \A p \in B \ I : \E q \in D : p = q[1]
  BY DEF UsersInv
<1>4. \A q \in D : \A x, y \in I \union B : Holds(q, x) /\ Holds(q, y) => x = y
  BY DEF UsersInv
<1> QED BY <1>1, <1>2, <1>3, <1>4 DEF UsersInv

(* ZoneHeap and SizeHeap: a new object behind its header, or none. *)
LEMMA CarveGood ==
  ASSUME NEW h, NEW C, NEW I, NEW A, Good(h, C, I, A), NEW c \in Nat \ {0},
         c \in Bins => Free(c, C, I, A) = {}, NEW out \in Carve(h, Class2Size[c])
  PROVE  \/ out.ptr = Crash /\ Good(out.heap, C, I, A) /\ Untouched(h, out.heap, C, A)
         \/ \E o : /\ o[1] = out.ptr /\ o[2] = Class2Size[c]
                   /\ Took(h, out.heap, C, I, A, o)
<1> DEFINE n == Class2Size[c]
           need == AlignUp(MemAlign, n + SizeHeader)
<1>1. n \in Nat /\ need \in Nat /\ need >= n + SizeHeader
  <2>1. n \in Nat
    BY ClassType
  <2>2. n + SizeHeader \in Nat /\ MemAlign \in Nat \ {0}
    BY <2>1 DEF SizeHeader, MemAlign
  <2> HIDE DEF n
  <2> QED BY <2>1, <2>2, AlignUpIs
<1> HIDE DEF need
<1>2. PICK z \in IF HasRoom(h, need) THEN {h} ELSE NewArena(h, need) :
        out = IF z.arena = NULL THEN Outcome(Crash, z)
              ELSE Outcome(z.space + SizeHeader,
                           [z EXCEPT !.mem[z.space] = n, !.mem[z.space + 1] = Magic,
                                     !.space = @ + need, !.left = @ - need])
  BY DEF Carve, need
<1>3. Good(z, C, I, A) /\ z.mem = h.mem /\ (z.arena # NULL => need <= z.left)
  <2>1. CASE HasRoom(h, need)
    BY <1>2, <2>1 DEF HasRoom
  <2>2. CASE ~HasRoom(h, need)
    BY <1>1, <1>2, <2>2, NewArenaGood
  <2> QED BY <2>1, <2>2
<1>4. CASE z.arena = NULL
  BY <1>2, <1>3, <1>4 DEF Outcome, Untouched
<1>5. CASE z.arena # NULL
  <2> DEFINE o == CutObject(z, n)
             D == C \union {o}
             B == A \union {o[1]}
             k == CutFrom(z, need, n)
  <2>1. out.ptr = o[1] /\ out.heap = k /\ o[2] = n /\ o[1] = z.space + SizeHeader
    BY <1>2, <1>5 DEF Outcome, CutFrom, CutObject
  <2>2. /\ o \notin C /\ \A p \in I \union A : ~Holds(o, p)
        /\ k \in HeapType /\ ArenasInv(k) /\ ObjectsInv(k, D) /\ HeadersInv(k, D)
        /\ \A a \in Address : a \notin z.space .. z.space + z.left - 1 => k.mem[a] = z.mem[a]
    <3>1. need >= Class2Size[c] + SizeHeader
      BY <1>1
    <3>2. need \in Nat /\ need <= z.left /\ z.arena # NULL /\ Good(z, C, I, A)
      BY <1>1, <1>3, <1>5
    <3>3. IsCut(z, C, I, A, CutFrom(z, need, Class2Size[c]), CutObject(z, Class2Size[c]))
      BY <3>1, <3>2, CutGood
    <3> QED BY <3>3 DEF IsCut
  <2>3. z.space \in Nat /\ n >= 2
    BY <1>3, ClassType DEF Good, HeapType
  <2>4. Holds(o, o[1]) /\ Holds(o, NextOf(o[1]))
    <3> HIDE DEF o, n
    <3> QED BY <1>1, <2>1, <2>3 DEF Holds, NextOf, SizeHeader
  <2> HIDE DEF o, k, n
  <2>5. \A q \in C : ~Holds(q, o[1])
    <3>1. \A q \in C : Before(o, q) \/ Before(q, o)
      BY <2>2 DEF ObjectsInv
    <3>2. \A q \in C : q[1] \in Int /\ q[2] \in Int
      BY <1>3, ObjectFacts
    <3>3. o[1] \in Int /\ o[2] \in Int /\ o[2] >= 2
      BY <1>1, <2>1, <2>3 DEF SizeHeader
    <3> QED BY <3>1, <3>2, <3>3 DEF Before, Holds, SizeHeader
  <2>6. UsersInv(D, I, B)
    <3>1. UsersInv(C, I, A)
      BY <1>3 DEF Good
    <3> QED BY <2>2, <2>4, <2>5, <3>1, UsersWithObject
  <2>7. RingsInv(k, D, I, B)
    <3> SUFFICES ASSUME NEW d \in Bins PROVE IsRing(k.mem, Head(d), Free(d, D, I, B))
      BY DEF RingsInv
    <3>1. d \in Nat
      BY KingsleyAssumption DEF Bins
    <3>2. \A p \in I : p # o[1]
      BY <2>2, <2>4
    <3>3. Free(d, D, I, B) = Free(d, C, I, A)
      BY <2>4, <2>5, <3>1, <3>2, FreeWithObject
    <3>4. IsRing(z.mem, Head(d), Free(d, C, I, A))
      BY <1>3 DEF Good, RingsInv
    <3>5. \A e \in Free(d, C, I, A) \union {Head(d)} :
            k.mem[e] = z.mem[e] /\ k.mem[NextOf(e)] = z.mem[NextOf(e)]
      <4>1. ASSUME NEW e \in Free(d, C, I, A) \union {Head(d)}
            PROVE  /\ e \notin z.space .. z.space + z.left - 1
                   /\ NextOf(e) \notin z.space .. z.space + z.left - 1
                   /\ e \in Address /\ NextOf(e) \in Address
        BY <1>3, <1>5, SpaceIsFree, EntriesApart
      <4> QED BY <2>2, <4>1
    <3> QED BY <3>3, <3>4, <3>5, RingSame
  <2>8. Good(k, D, I, B)
    BY <2>2, <2>6, <2>7 DEF Good
  <2>9. Untouched(h, k, C, A)
    <3>1. \A q \in C : \A w : Holds(q, w) =>
            w \in Address /\ w \notin z.space .. z.space + z.left - 1
      BY <1>3, <1>5, HeldWords, SpaceIsFree
    <3> QED BY <1>3, <2>2, <3>1 DEF Untouched
  <2>10. \A b \in Bins : Class2Size[b] = o[2] => Free(b, C, I, A) = {}
    <3>1. \A b \in Bins : b \in Nat
      BY KingsleyAssumption DEF Bins
    <3>2. \A b \in Bins : Class2Size[b] = o[2] => b = c
      BY <2>1, <3>1, Size2ClassOfSize DEF n
    <3> QED BY <3>2
  <2>11. Took(h, k, C, I, A, o)
    BY <2>2, <2>8, <2>9, <2>10 DEF Took
  <2> QED BY <2>1, <2>11 DEF n
<1> QED BY <1>4, <1>5

-----------------------------------------------------------------------------
(* DLList: what a change of the links of one bin leaves alone.             *)

(* Only memory changes. *)
SameArenas(h, k) ==
  /\ k \in HeapType
  /\ k.arenas = h.arenas /\ k.arena = h.arena /\ k.space = h.space /\ k.left = h.left

(* A client's pointer lies with the word behind it in the one object it is *)
(* in, and no free entry does.                                             *)
LEMMA UserHome ==
  ASSUME NEW h, NEW C, NEW I, NEW A, Good(h, C, I, A), NEW p \in A
  PROVE  /\ p \in Word /\ p \in Int /\ p >= 6 /\ p \in Address /\ NextOf(p) \in Address
         /\ \E o \in C : /\ Holds(o, p) /\ Holds(o, NextOf(p))
                         /\ \A a \in A \ {p} : ~Holds(o, a)
                         /\ \A c \in Bins : \A e \in Free(c, C, I, A) :
                              ~Holds(o, e) /\ ~Holds(o, NextOf(e))
<1>1. PICK o \in C : Holds(o, p) /\ Holds(o, NextOf(p))
  BY DEF Good, UsersInv
<1>2. \A a \in A \ {p} : ~Holds(o, a)
  BY <1>1 DEF Good, UsersInv
<1>3. ASSUME NEW c \in Bins, NEW e \in Free(c, C, I, A), Holds(o, e) \/ Holds(o, NextOf(e))
      PROVE  FALSE
  <2>1. PICK q \in C : Holds(q, e) /\ Holds(q, NextOf(e)) /\ \A a \in A : ~Holds(q, a)
    BY EntryHome
  <2>2. q = o
    BY <1>3, <2>1, OneHolder
  <2> QED BY <1>1, <2>1, <2>2
<1>4. p \in Word /\ p \in Int /\ p >= 6 /\ p \in Address /\ NextOf(p) \in Address
  BY <1>1, HeldWords
<1> QED BY <1>1, <1>2, <1>3, <1>4

(* The words of a head, a free entry or a client's pointer are no headers. *)
LEMMA LinkNoHeader ==
  ASSUME NEW h, NEW C, NEW I, NEW A, Good(h, C, I, A), NEW c \in Bins,
         NEW e \in Free(c, C, I, A) \union {Head(c)} \union A, NEW o \in C
  PROVE  /\ e # o[1] - 1 /\ e # o[1] - 2 /\ NextOf(e) # o[1] - 1 /\ NextOf(e) # o[1] - 2
<1>1. CASE e = Head(c)
  <2>1. o[1] \in Int /\ o[1] >= 6
    BY ObjectFacts
  <2> QED BY <1>1, <2>1, HeadFacts DEF NextOf
<1>2. CASE \E q \in C : Holds(q, e) /\ Holds(q, NextOf(e))
  BY <1>2, HeaderApart
<1>3. e # Head(c) => \E q \in C : Holds(q, e) /\ Holds(q, NextOf(e))
  BY EntryHome, UserHome
<1> QED BY <1>1, <1>2, <1>3

(* From heap h to k nothing changed but links of the entries of bin c and  *)
(* of p, which a client gives back.                                        *)
OnlyLinks(h, k, C, I, A, c, p) ==
  \A a \in Address :
    \/ k.mem[a] = h.mem[a]
    \/ /\ k.mem[a] \in Int
       /\ \E e \in Free(c, C, I, A) \union {Head(c), p} : a = e \/ a = NextOf(e)

(* All but bin c is as before. *)
LinksFramed(h, k, C, I, A, c, p) ==
  /\ k \in HeapType /\ ArenasInv(k) /\ ObjectsInv(k, C) /\ HeadersInv(k, C)
  /\ \A d \in Bins \ {c} : IsRing(k.mem, Head(d), Free(d, C, I, A))
  /\ Untouched(h, k, C, A \ {p})

LEMMA LinkFrame ==
  ASSUME NEW h, NEW C, NEW I, NEW A, Good(h, C, I, A), NEW c \in Bins,
         NEW p \in {Head(c)} \union A, NEW k, SameArenas(h, k), OnlyLinks(h, k, C, I, A, c, p)
  PROVE  LinksFramed(h, k, C, I, A, c, p)
<1> DEFINE links == Free(c, C, I, A) \union {Head(c), p}
<1>1. k \in HeapType /\ ArenasInv(k) /\ ObjectsInv(k, C)
  BY DEF SameArenas, Good, ArenasInv, ObjectsInv
<1>2. \A e \in links : e \in Free(c, C, I, A) \union {Head(c)} \union A
  OBVIOUS
<1>3. ASSUME NEW e \in links, NEW o \in C
      PROVE  /\ e # o[1] - 1 /\ e # o[1] - 2 /\ NextOf(e) # o[1] - 1 /\ NextOf(e) # o[1] - 2
  BY <1>2, LinkNoHeader
<1>4. HeadersInv(k, C)
  <2>1. ASSUME NEW o \in C PROVE k.mem[o[1] - 2] = o[2] /\ k.mem[o[1] - 1] = Magic
    <3>1. o[1] - 2 \in Address /\ o[1] - 1 \in Address
      BY ObjectFacts, KingsleyAssumption DEF Address, Word
    <3>2. k.mem[o[1] - 2] = h.mem[o[1] - 2] /\ k.mem[o[1] - 1] = h.mem[o[1] - 1]
      BY <1>3, <3>1 DEF OnlyLinks
    <3> QED BY <3>2 DEF Good, HeadersInv
  <2>2. ASSUME NEW a \in Address, k.mem[a] = Magic PROVE \E o \in C : a = o[1] - 1
    <3>1. k.mem[a] = h.mem[a]
      BY <2>2, KingsleyAssumption DEF OnlyLinks
    <3> QED BY <2>2, <3>1 DEF Good, HeadersInv
  <2> QED BY <2>1, <2>2 DEF HeadersInv
<1>5. ASSUME NEW d \in Bins \ {c} PROVE IsRing(k.mem, Head(d), Free(d, C, I, A))
  <2>1. ASSUME NEW e \in Free(d, C, I, A) \union {Head(d)}, NEW f \in links
        PROVE  /\ e \in Address /\ NextOf(e) \in Address /\ e \in Int /\ f \in Int
               /\ e # f /\ e # NextOf(f) /\ NextOf(e) # f
    <3>1. CASE f \in Free(c, C, I, A) \union {Head(c)}
      BY <3>1, EntriesApart
    <3>2. CASE f \in A
      <4>1. /\ f \in Int /\ f >= 6
            /\ \E o \in C : /\ Holds(o, f) /\ Holds(o, NextOf(f))
                            /\ \A b \in Bins : \A x \in Free(b, C, I, A) :
                                 ~Holds(o, x) /\ ~Holds(o, NextOf(x))
        BY <3>2, UserHome
      <4>2. CASE e = Head(d)
        BY <4>1, <4>2, HeadFacts DEF NextOf
      <4>3. CASE e \in Free(d, C, I, A)
        BY <4>1, <4>3, EntriesApart
      <4> QED BY <4>2, <4>3
    <3> QED BY <3>1, <3>2
  <2>2. \A e \in Free(d, C, I, A) \union {Head(d)} :
          k.mem[e] = h.mem[e] /\ k.mem[NextOf(e)] = h.mem[NextOf(e)]
    <3>1. \A e \in Free(d, C, I, A) \union {Head(d)} : \A f \in links : NextOf(e) # NextOf(f)
      BY <2>1 DEF NextOf
    <3>2. \A e \in Free(d, C, I, A) \union {Head(d)} : e \in Address /\ NextOf(e) \in Address
      BY EntriesApart
    <3> QED BY <2>1, <3>1, <3>2 DEF OnlyLinks
  <2>3. IsRing(h.mem, Head(d), Free(d, C, I, A))
    BY DEF Good, RingsInv
  <2> QED BY <2>2, <2>3, RingSame
<1>6. Untouched(h, k, C, A \ {p})
  <2>1. ASSUME NEW o \in C, NEW a \in A \ {p}, Holds(o, a), NEW w, Holds(o, w)
        PROVE  k.mem[w] = h.mem[w]
    <3>1. w \in Address /\ w \in Int /\ w >= 6
      BY <2>1, HeldWords
    <3>2. ASSUME NEW e \in links PROVE ~Holds(o, e) /\ ~Holds(o, NextOf(e))
      <4>1. CASE e = Head(c)
        <5>1. e < 0 /\ NextOf(e) < 0 /\ e \in Int
          BY <4>1, HeadFacts
        <5>2. \A x : Holds(o, x) => x >= 6
          BY HeldWords
        <5>3. NextOf(e) \in Int
          BY <5>1 DEF NextOf
        <5> QED BY <5>1, <5>2, <5>3
      <4>2. CASE e \in Free(c, C, I, A)
        <5>1. PICK q \in C : Holds(q, e) /\ Holds(q, NextOf(e)) /\ ~Holds(q, a)
          BY <4>2, EntryHome
        <5> QED BY <2>1, <5>1, OneHolder
      <4>3. CASE e = p /\ p \in A
        <5>1. PICK q \in C : Holds(q, p) /\ Holds(q, NextOf(p)) /\ ~Holds(q, a)
          BY <4>3, UserHome
        <5> QED BY <2>1, <4>3, <5>1, OneHolder
      <4> QED BY <4>1, <4>2, <4>3
    <3> QED BY <2>1, <3>1, <3>2 DEF OnlyLinks
  <2> QED BY <2>1 DEF Untouched
<1> QED BY <1>1, <1>4, <1>5, <1>6 DEF LinksFramed

Relinked(h, a, x, b, y) == [h EXCEPT !.mem[a] = x, !.mem[b] = y]

LEMMA RelinkedFields ==
  ASSUME NEW h \in HeapType, NEW a, NEW x, NEW b, NEW y, NEW k, k = Relinked(h, a, x, b, y)
  PROVE  /\ k.mem = [[h.mem EXCEPT ![a] = x] EXCEPT ![b] = y]
         /\ k.arenas = h.arenas /\ k.arena = h.arena /\ k.space = h.space /\ k.left = h.left
         /\ k = [mem |-> k.mem, arenas |-> k.arenas, arena |-> k.arena, space |-> k.space,
                 left |-> k.left]
<1>1. k = [h EXCEPT !.mem[a] = x, !.mem[b] = y]
  BY DEF Relinked
<1> QED BY <1>1 DEF HeapType

(* DLList::get takes the first object out of a bin. *)
LEMMA GetGood ==
  ASSUME NEW h, NEW C, NEW I, NEW A, Good(h, C, I, A), NEW c \in Bins, c # 0, ~IsEmpty(h, c)
  PROVE  \E o \in C : /\ o[1] = Get(h, c).ptr /\ o[2] = Class2Size[c]
                      /\ Took(h, Get(h, c).heap, C, I, A, o)
<1> DEFINE hd == Head(c)
           S == Free(c, C, I, A)
           f == h.mem[NextOf(hd)]
           next == h.mem[NextOf(f)]
           k == Get(h, c).heap
<1>1. Get(h, c).ptr = f /\ k = Relinked(h, NextOf(hd), next, next, hd)
  BY DEF Get, First, Outcome, Relinked
<1>2. IsRing(h.mem, hd, S) /\ f # hd
  BY DEF Good, RingsInv, IsEmpty, First
<1>3. h \in HeapType /\ h.mem \in [Address -> Values]
  BY DEF Good, HeapType
<1> HIDE DEF k, S, hd
<1>4. f \in S /\ next \in S \union {hd}
  <2>1. f \in S \union {hd} /\ next \in S \union {hd}
    BY <1>2 DEF IsRing
  <2> QED BY <1>2, <2>1
<1>5. \A e \in S \union {hd} : e \in Address /\ NextOf(e) \in Address /\ e \in Int
                              /\ \A x \in S \union {hd} : e # NextOf(x)
  BY EntriesApart DEF S, hd
<1>6. /\ k.mem = [[h.mem EXCEPT ![NextOf(hd)] = next] EXCEPT ![next] = hd]
      /\ k.arenas = h.arenas /\ k.arena = h.arena /\ k.space = h.space /\ k.left = h.left
      /\ k = [mem |-> k.mem, arenas |-> k.arenas, arena |-> k.arena, space |-> k.space,
              left |-> k.left]
  <2> HIDE DEF f, next
  <2> QED BY <1>1, <1>3, RelinkedFields
<1> HIDE DEF f, next
<1>7. /\ next # NextOf(hd) /\ next \in Address /\ NextOf(hd) \in Address
      /\ next \in Int /\ hd \in Int
  BY <1>4, <1>5
<1>8. /\ k.mem[NextOf(hd)] = next /\ k.mem[next] = hd
      /\ \A a \in Address \ {NextOf(hd), next} : k.mem[a] = h.mem[a]
      /\ k.mem \in [Address -> Values]
  <2>1. next \in Values /\ hd \in Values
    BY <1>7 DEF Values
  <2> QED BY <1>3, <1>6, <1>7, <2>1
<1>9. SameArenas(h, k)
  BY <1>3, <1>6, <1>8 DEF SameArenas, HeapType
<1>10. LinksFramed(h, k, C, I, A, c, hd)
  <2> PICK p \in {Head(c)} \union A : p = Head(c)
    OBVIOUS
  <2>1. \A a \in Address :
          \/ k.mem[a] = h.mem[a]
          \/ /\ k.mem[a] \in Int
             /\ \E e \in Free(c, C, I, A) \union {Head(c), p} : a = e \/ a = NextOf(e)
    BY <1>4, <1>7, <1>8 DEF S, hd
  <2>2. OnlyLinks(h, k, C, I, A, c, p)
    BY <2>1 DEF OnlyLinks
  <2>3. LinksFramed(h, k, C, I, A, c, p)
    BY <1>9, <2>2, LinkFrame
  <2> QED BY <2>3 DEF hd
<1>11. A \ {hd} = A
  <2>1. hd \notin A
    BY UserHome, HeadFacts DEF hd
  <2> QED BY <2>1
<1>12. IsRing(k.mem, hd, S \ {f})
  <2>1. \A e \in S \union {hd} : e # next => k.mem[e] = h.mem[e]
    BY <1>4, <1>5, <1>8
  <2>2. \A e \in S : k.mem[NextOf(e)] = h.mem[NextOf(e)]
    <3>1. \A e \in S : NextOf(e) # next /\ NextOf(e) \in Address
      BY <1>4, <1>5
    <3>2. hd \notin S
      BY <1>2 DEF IsRing
    <3>3. \A e \in S : NextOf(e) # NextOf(hd)
      BY <1>5, <3>2 DEF NextOf
    <3> QED BY <1>8, <3>1, <3>3
  <2>3. f = h.mem[NextOf(hd)] /\ next = h.mem[NextOf(f)]
    BY DEF f, next
  <2> QED BY <1>2, <1>8, <2>1, <2>2, <2>3, RingGet
<1>13. PICK o \in C : o[1] = f /\ o[2] = Class2Size[c] /\ \A p \in I \union A : ~Holds(o, p)
  BY <1>4, EntryHome DEF S
<1>14. RingsInv(k, C, I, A \union {f})
  <2> SUFFICES ASSUME NEW d \in Bins PROVE IsRing(k.mem, Head(d), Free(d, C, I, A \union {f}))
    BY DEF RingsInv
  <2>1. Free(d, C, I, A \union {f}) = Free(d, C, I, A) \ {f}
    <3>1. d \in Nat
      BY KingsleyAssumption DEF Bins
    <3> QED BY <1>13, <3>1, FreeWithUser
  <2>2. CASE d = c
    BY <1>12, <2>1, <2>2 DEF S, hd
  <2>3. CASE d # c
    <3>1. f \notin Free(d, C, I, A)
      BY <1>4, <2>3, EntriesApart DEF S
    <3>2. Free(d, C, I, A) \ {f} = Free(d, C, I, A)
      BY <3>1
    <3> QED BY <1>10, <2>1, <2>3, <3>2 DEF LinksFramed
  <2> QED BY <2>2, <2>3
<1>15. UsersInv(C, I, A \union {f})
  BY <1>13, UsersWithUser
<1>16. C \union {o} = C
  OBVIOUS
<1>17. Good(k, C, I, A \union {f})
  BY <1>10, <1>14, <1>15 DEF Good, LinksFramed
<1>18. Took(h, k, C, I, A, o)
  BY <1>10, <1>11, <1>13, <1>16, <1>17 DEF Took, LinksFramed
<1> QED BY <1>1, <1>13, <1>18 DEF k

(* What malloc may do: find no memory, or give an object as large as asked *)
(* that nobody is in.                                                      *)
MallocDid(h, C, I, A, n, out) ==
  \/ /\ out.ptr \in {NULL, Crash}
     /\ Good(out.heap, C, I, A) /\ Untouched(h, out.heap, C, A)
  \/ \E o : o[1] = out.ptr /\ o[2] >= n /\ Took(h, out.heap, C, I, A, o)

(* StrictSegHeap::malloc under ANSIWrapper. *)
LEMMA MallocGood ==
  ASSUME NEW h, NEW C, NEW I, NEW A, Good(h, C, I, A), NEW n \in Nat, NEW out \in Malloc(h, n)
  PROVE  MallocDid(h, C, I, A, n, out)
<1> DEFINE c == Size2Class(AnsiSize(n))
<1>1. c \in Nat \ {0} /\ Class2Size[c] >= n
  BY MallocClass
<1> HIDE DEF c
<1>2. CASE n >= HalfRange
  <2>1. out = Outcome(NULL, h)
    BY <1>2, KingsleyAssumption DEF Malloc
  <2> QED BY <2>1 DEF Outcome, MallocDid, Untouched
<1>3. CASE n < HalfRange /\ c \in Bins /\ ~IsEmpty(h, c)
  <2>1. out = Get(h, c)
    BY <1>3, KingsleyAssumption DEF Malloc, c
  <2>2. \E o \in C : /\ o[1] = Get(h, c).ptr /\ o[2] = Class2Size[c]
                     /\ Took(h, Get(h, c).heap, C, I, A, o)
    BY <1>1, <1>3, GetGood
  <2> QED BY <1>1, <2>1, <2>2 DEF MallocDid
<1>4. CASE n < HalfRange /\ ~(c \in Bins /\ ~IsEmpty(h, c))
  <2>1. out \in Carve(h, Class2Size[c])
    BY <1>4, KingsleyAssumption DEF Malloc, c
  <2>2. c \in Bins => Free(c, C, I, A) = {}
    <3>1. c \in Bins => IsRing(h.mem, Head(c), Free(c, C, I, A)) /\ h.mem[NextOf(Head(c))] = Head(c)
      BY <1>4 DEF Good, RingsInv, IsEmpty, First
    <3> QED BY <3>1, RingEmpty
  <2>3. \/ out.ptr = Crash /\ Good(out.heap, C, I, A) /\ Untouched(h, out.heap, C, A)
        \/ \E o : /\ o[1] = out.ptr /\ o[2] = Class2Size[c]
                  /\ Took(h, out.heap, C, I, A, o)
    BY <1>1, <2>1, <2>2, CarveGood
  <2> QED BY <1>1, <2>3 DEF MallocDid
<1>5. n \in Int /\ HalfRange \in Int
  BY KingsleyAssumption
<1> QED BY <1>2, <1>3, <1>4, <1>5

-----------------------------------------------------------------------------
(* free.                                                                   *)

(* What the magic word tells: the size of an object, none of a pointer     *)
(* memalign moved.                                                         *)
LEMMA SizeOfObject ==
  ASSUME NEW h, NEW C, NEW I, NEW A, Good(h, C, I, A), NEW o \in C
  PROVE  GetSize(h, o[1]) = o[2]
BY DEF Good, HeadersInv, GetSize

LEMMA SizeOfMoved ==
  ASSUME NEW h, NEW C, NEW I, NEW A, Good(h, C, I, A), NEW p \in I
  PROVE  GetSize(h, p) = 0
<1>1. PICK o \in C : Holds(o, p) /\ p # o[1]
  BY DEF Good, UsersInv
<1>2. Holds(o, p - 1) /\ p \in Int
  BY <1>1, ObjectFacts DEF Holds
<1>3. p - 1 \in Address
  BY <1>2, HeldWords
<1>4. h.mem[p - 1] # Magic
  <2>1. SUFFICES ASSUME h.mem[p - 1] = Magic PROVE FALSE
    OBVIOUS
  <2>2. PICK q \in C : p - 1 = q[1] - 1
    BY <1>3, <2>1 DEF Good, HeadersInv
  <2> QED BY <1>2, <2>2, HeaderApart
<1> QED BY <1>4 DEF GetSize

Linked(h, p, hd, next) ==
  [h EXCEPT !.mem[p] = hd, !.mem[NextOf(p)] = next, !.mem[NextOf(hd)] = p, !.mem[next] = p]

LEMMA LinkedFields ==
  ASSUME NEW h \in HeapType, NEW p, NEW hd, NEW next, NEW k, k = Linked(h, p, hd, next)
  PROVE  /\ k.mem = [[[[h.mem EXCEPT ![p] = hd] EXCEPT ![NextOf(p)] = next]
                        EXCEPT ![NextOf(hd)] = p] EXCEPT ![next] = p]
         /\ k.arenas = h.arenas /\ k.arena = h.arena /\ k.space = h.space /\ k.left = h.left
         /\ k = [mem |-> k.mem, arenas |-> k.arenas, arena |-> k.arena, space |-> k.space,
                 left |-> k.left]
<1>1. k = [h EXCEPT !.mem[p] = hd, !.mem[NextOf(p)] = next, !.mem[NextOf(hd)] = p,
                    !.mem[next] = p]
  BY DEF Linked
<1> QED BY <1>1 DEF HeapType

LEMMA UsersWithout ==
  ASSUME NEW C, NEW I, NEW A, UsersInv(C, I, A), NEW p
  PROVE  UsersInv(C, I, A \ {p})
<1>1. I \union (A \ {p}) \subseteq I \union A /\ (A \ {p}) \ I \subseteq A \ I
  OBVIOUS
<1> QED BY <1>1 DEF UsersInv

(* A client's pointer goes to the bin it belongs in. *)
LEMMA InsertGood ==
  ASSUME NEW h, NEW C, NEW I, NEW A, Good(h, C, I, A), NEW p \in A, NEW c \in Bins,
         Free(c, C, I, A \ {p}) = Free(c, C, I, A) \union {p},
         \A d \in Bins \ {c} : Free(d, C, I, A \ {p}) = Free(d, C, I, A)
  PROVE  Good(Insert(h, c, p), C, I, A \ {p}) /\ Untouched(h, Insert(h, c, p), C, A \ {p})
<1> DEFINE hd == Head(c)
           S == Free(c, C, I, A)
           next == h.mem[NextOf(hd)]
           k == Insert(h, c, p)
<1>1. k = Linked(h, p, hd, next)
  BY DEF Insert, First, Linked
<1>2. IsRing(h.mem, hd, S)
  BY DEF Good, RingsInv
<1>3. h \in HeapType /\ h.mem \in [Address -> Values]
  BY DEF Good, HeapType
<1> HIDE DEF k, S, hd
<1>4. next \in S \union {hd} /\ hd \notin S
  BY <1>2 DEF IsRing
<1>5. \A e \in S \union {hd} : e \in Address /\ NextOf(e) \in Address /\ e \in Int
                              /\ \A x \in S \union {hd} : e # NextOf(x)
  BY EntriesApart DEF S, hd
<1>6. p \in Int /\ p >= 6 /\ p \in Address /\ NextOf(p) \in Address /\ p # NextOf(p)
  BY UserHome DEF NextOf
<1>7. \A e \in S \union {hd} : e # p /\ e # NextOf(p) /\ NextOf(e) # p /\ NextOf(e) # NextOf(p)
  <2>1. \A e \in S : e # p /\ e # NextOf(p) /\ NextOf(e) # p
    BY UserHome DEF S
  <2>2. hd # p /\ hd # NextOf(p) /\ NextOf(hd) # p
    BY <1>6, HeadFacts DEF hd, NextOf
  <2>3. \A e \in S \union {hd} : NextOf(e) # NextOf(p)
    BY <1>5, <1>6, <2>1, <2>2 DEF NextOf
  <2> QED BY <2>1, <2>2, <2>3
<1>8. /\ k.mem = [[[[h.mem EXCEPT ![p] = hd] EXCEPT ![NextOf(p)] = next]
                        EXCEPT ![NextOf(hd)] = p] EXCEPT ![next] = p]
      /\ k.arenas = h.arenas /\ k.arena = h.arena /\ k.space = h.space /\ k.left = h.left
      /\ k = [mem |-> k.mem, arenas |-> k.arenas, arena |-> k.arena, space |-> k.space,
              left |-> k.left]
  <2> HIDE DEF next
  <2> QED BY <1>1, <1>3, LinkedFields
<1>9. next = h.mem[NextOf(hd)]
  OBVIOUS
<1> HIDE DEF next
<1>10. /\ next # NextOf(hd) /\ next \in Address /\ NextOf(hd) \in Address
       /\ next \in Int /\ hd \in Int
       /\ next # p /\ next # NextOf(p) /\ NextOf(hd) # p /\ NextOf(hd) # NextOf(p)
  BY <1>4, <1>5, <1>7
<1>11. /\ k.mem[p] = hd /\ k.mem[NextOf(p)] = next /\ k.mem[NextOf(hd)] = p /\ k.mem[next] = p
       /\ \A a \in Address \ {p, NextOf(p), NextOf(hd), next} : k.mem[a] = h.mem[a]
       /\ k.mem \in [Address -> Values]
  <2>1. next \in Values /\ hd \in Values /\ p \in Values
    BY <1>6, <1>10 DEF Values
  <2> QED BY <1>3, <1>6, <1>8, <1>10, <2>1
<1>12. SameArenas(h, k)
  BY <1>3, <1>8, <1>11 DEF SameArenas, HeapType
<1>13. OnlyLinks(h, k, C, I, A, c, p)
  <2>1. \A a \in Address :
          \/ k.mem[a] = h.mem[a]
          \/ /\ k.mem[a] \in Int
             /\ \E e \in S \union {hd, p} : a = e \/ a = NextOf(e)
    BY <1>4, <1>6, <1>10, <1>11
  <2> QED BY <2>1 DEF OnlyLinks, S, hd
<1>14. LinksFramed(h, k, C, I, A, c, p)
  BY <1>12, <1>13, LinkFrame
<1>15. IsRing(k.mem, hd, S \union {p})
  <2>1. \A e \in S \union {hd} : e # next => k.mem[e] = h.mem[e]
    BY <1>5, <1>7, <1>11
  <2>2. \A e \in S : k.mem[NextOf(e)] = h.mem[NextOf(e)]
    <3>1. \A e \in S : NextOf(e) # next /\ NextOf(e) \in Address
      BY <1>4, <1>5
    <3>2. \A e \in S : NextOf(e) # NextOf(hd)
      BY <1>4, <1>5, <1>10 DEF NextOf
    <3> QED BY <1>7, <1>11, <3>1, <3>2
  <2>3. S \in SUBSET Int /\ p \notin S /\ p # hd
    BY <1>5, <1>7
  <2> QED BY <1>2, <1>6, <1>9, <1>10, <1>11, <2>1, <2>2, <2>3, RingInsert
<1>16. RingsInv(k, C, I, A \ {p})
  <2> SUFFICES ASSUME NEW d \in Bins PROVE IsRing(k.mem, Head(d), Free(d, C, I, A \ {p}))
    BY DEF RingsInv
  <2>1. CASE d = c
    BY <1>15, <2>1 DEF S, hd
  <2>2. CASE d # c
    BY <1>14, <2>2 DEF LinksFramed
  <2> QED BY <2>1, <2>2
<1>17. UsersInv(C, I, A \ {p})
  BY UsersWithout DEF Good
<1> QED BY <1>14, <1>16, <1>17 DEF Good, LinksFramed, k

(* Without its client, an object is free in the bin of its size. *)
LEMMA FreeWithoutUser ==
  ASSUME NEW h, NEW C, NEW I, NEW A, Good(h, C, I, A), NEW o \in C, o[1] \in A, o[1] \notin I,
         NEW d \in Nat
  PROVE  /\ d # 0 /\ Class2Size[d] = o[2]
              => Free(d, C, I, A \ {o[1]}) = Free(d, C, I, A) \union {o[1]}
         /\ d = 0 \/ Class2Size[d] # o[2] => Free(d, C, I, A \ {o[1]}) = Free(d, C, I, A)
<1>1. \A q \in C : Holds(q, o[1]) => q = o
  BY HeldStart, OneHolder
<1>2. \A p \in I \union (A \ {o[1]}) : ~Holds(o, p)
  BY HeldStart DEF Good, UsersInv
<1>3. I \union A = (I \union (A \ {o[1]})) \union {o[1]}
  OBVIOUS
<1>4. \A q \in C \ {o} : (\A p \in I \union (A \ {o[1]}) : ~Holds(q, p))
                           <=> (\A p \in I \union A : ~Holds(q, p))
  BY <1>1, <1>3
<1>5. \E p \in I \union A : Holds(o, p)
  BY HeldStart
<1>6. I \ (A \ {o[1]}) = I \ A
  OBVIOUS
<1> DEFINE B == A \ {o[1]}
<1>7. ASSUME d # 0, Class2Size[d] = o[2]
      PROVE  Free(d, C, I, B) = Free(d, C, I, A) \union {o[1]}
  <2>1. {q \in C : q[2] = Class2Size[d] /\ \A p \in I \union B : ~Holds(q, p)}
          = {q \in C : q[2] = Class2Size[d] /\ \A p \in I \union A : ~Holds(q, p)} \union {o}
    BY <1>2, <1>4, <1>5, <1>7
  <2> QED BY <1>7, <2>1 DEF Free
<1>8. ASSUME d # 0, Class2Size[d] # o[2]
      PROVE  Free(d, C, I, B) = Free(d, C, I, A)
  <2>1. {q \in C : q[2] = Class2Size[d] /\ \A p \in I \union B : ~Holds(q, p)}
          = {q \in C : q[2] = Class2Size[d] /\ \A p \in I \union A : ~Holds(q, p)}
    BY <1>4, <1>8
  <2> QED BY <1>8, <2>1 DEF Free
<1>9. d = 0 => Free(d, C, I, B) = Free(d, C, I, A)
  BY <1>6 DEF Free
<1> QED BY <1>7, <1>8, <1>9

(* A block goes back, and nobody else's memory changes. *)
LEMMA FreeGood ==
  ASSUME NEW h, NEW C, NEW I, NEW A, Good(h, C, I, A), NEW p \in A
  PROVE  Good(FreeObject(h, p), C, I, A \ {p}) /\ Untouched(h, FreeObject(h, p), C, A \ {p})
<1>1. /\ MaxObjectSize = Class2Size[NumBins - 1] /\ NumBins - 1 \in Nat /\ MaxObjectSize \in Nat
      /\ 0 \in Bins
  BY KingsleyAssumption, ClassType DEF MaxObjectSize, Bins
<1>2. CASE p \in I
  <2>1. FreeObject(h, p) = Insert(h, 0, p)
    BY <1>1, <1>2, SizeOfMoved, FreeBinOfNone DEF FreeObject
  <2>2. Free(0, C, I, A \ {p}) = Free(0, C, I, A) \union {p}
    BY <1>2 DEF Free
  <2>3. ASSUME NEW d \in Bins \ {0} PROVE Free(d, C, I, A \ {p}) = Free(d, C, I, A)
    <3>1. I \union (A \ {p}) = I \union A
      BY <1>2
    <3> QED BY <3>1 DEF Free
  <2>4. Good(Insert(h, 0, p), C, I, A \ {p}) /\ Untouched(h, Insert(h, 0, p), C, A \ {p})
    BY <1>1, <2>2, <2>3, InsertGood
  <2> QED BY <2>1, <2>4
<1>3. CASE p \notin I
  <2>1. PICK o \in C : p = o[1]
    BY <1>3 DEF Good, UsersInv
  <2>2. PICK c \in Nat \ {0} : o[2] = Class2Size[c]
    BY DEF Good, ObjectsInv
  <2>3. GetSize(h, p) = Class2Size[c] /\ Class2Size[c] \in Nat /\ FreeBin(Class2Size[c]) = c
    BY <2>1, <2>2, SizeOfObject, FreeBinOfSize, ClassType
  <2>4. \A d \in Nat : d # c => Class2Size[d] # o[2]
    <3>1. ASSUME NEW d \in Nat, d # c PROVE Class2Size[d] # Class2Size[c]
      <4>1. d < c => 2 * Class2Size[d] <= Class2Size[c]
        BY ClassGrows
      <4>2. c < d => 2 * Class2Size[c] <= Class2Size[d]
        BY ClassGrows
      <4>3. Class2Size[c] \in Nat /\ Class2Size[c] > 0 /\ Class2Size[d] \in Nat /\ Class2Size[d] > 0
        BY ClassType
      <4> QED BY <3>1, <4>1, <4>2, <4>3
    <3> QED BY <2>2, <3>1
  <2>5. CASE c \in Bins
    <3>1. Class2Size[c] <= MaxObjectSize
      <4>1. c <= NumBins - 1
        BY <2>5, <1>1 DEF Bins
      <4>2. CASE c = NumBins - 1
        BY <1>1, <4>2
      <4>3. CASE c < NumBins - 1
        BY <1>1, <2>3, <4>3, ClassGrows
      <4> QED BY <1>1, <4>1, <4>2, <4>3
    <3>2. FreeObject(h, p) = Insert(h, c, p)
      BY <1>1, <2>3, <3>1 DEF FreeObject
    <3>3. Free(c, C, I, A \ {p}) = Free(c, C, I, A) \union {p}
      BY <1>3, <2>1, <2>2, FreeWithoutUser
    <3>4. ASSUME NEW d \in Bins \ {c} PROVE Free(d, C, I, A \ {p}) = Free(d, C, I, A)
      <4>1. d \in Nat
        BY KingsleyAssumption DEF Bins
      <4> QED BY <1>3, <2>1, <2>4, <4>1, FreeWithoutUser
    <3>5. Good(Insert(h, c, p), C, I, A \ {p}) /\ Untouched(h, Insert(h, c, p), C, A \ {p})
      BY <2>5, <3>3, <3>4, InsertGood
    <3> QED BY <3>2, <3>5
  <2>6. CASE c \notin Bins
    <3>1. Class2Size[c] > MaxObjectSize
      <4>1. NumBins - 1 < c
        BY <2>6, <1>1 DEF Bins
      <4>2. 2 * Class2Size[NumBins - 1] <= Class2Size[c]
        BY <1>1, <4>1, ClassGrows
      <4>3. Class2Size[NumBins - 1] > 0
        BY <1>1, ClassType
      <4> QED BY <1>1, <2>3, <4>2, <4>3
    <3>2. FreeObject(h, p) = h
      BY <2>3, <3>1 DEF FreeObject
    <3>3. ASSUME NEW d \in Bins PROVE Free(d, C, I, A \ {p}) = Free(d, C, I, A)
      <4>1. d \in Nat /\ d # c
        BY <2>6, KingsleyAssumption DEF Bins
      <4> QED BY <1>3, <2>1, <2>4, <4>1, FreeWithoutUser
    <3>4. Good(h, C, I, A \ {p})
      BY <3>3, UsersWithout DEF Good, RingsInv
    <3> QED BY <3>2, <3>4 DEF Untouched
  <2> QED BY <2>5, <2>6
<1> QED BY <1>2, <1>3

-----------------------------------------------------------------------------
(* malloc and memalign as a client sees them.                              *)

(* Objects C became D: those with clients in them are as they were, and    *)
(* none was cut from an arena while its bin had a free one.                *)
Grown(h, C, I, A, k, D) ==
  /\ C \subseteq D /\ Untouched(h, k, C, A)
  /\ \A o \in D \ C : \A c \in Bins : Class2Size[c] = o[2] => Free(c, C, I, A) = {}

(* The client got object o, of n words or more, or m words inside it.      *)
PlacedIn(h, C, I, A, n, m, out, D, J, o) ==
  /\ Grown(h, C, I, A, out.heap, D) /\ Good(out.heap, D, J, A \union {out.ptr})
  /\ o \in D /\ Holds(o, out.ptr) /\ \A p \in I \union A : ~Holds(o, p)
  /\ \/ out.ptr = o[1] /\ n <= o[2] /\ J = I
     \/ out.ptr # o[1] /\ out.ptr + m <= o[1] + o[2] /\ J = I \union {out.ptr}

(* ... or nothing. *)
Nothing(h, C, I, A, out) ==
  /\ out.ptr \in {NULL, Crash}
  /\ \E D : Grown(h, C, I, A, out.heap, D) /\ Good(out.heap, D, I, A)

Served(h, C, I, A, n, m, out) ==
  Nothing(h, C, I, A, out) \/ \E D, J, o : PlacedIn(h, C, I, A, n, m, out, D, J, o)

LEMMA MallocServed ==
  ASSUME NEW h, NEW C, NEW I, NEW A, Good(h, C, I, A), NEW n \in Nat, NEW m, NEW out \in Malloc(h, n)
  PROVE  Nothing(h, C, I, A, out) \/ \E D, o : PlacedIn(h, C, I, A, n, m, out, D, I, o)
<1>1. MallocDid(h, C, I, A, n, out)
  BY MallocGood
<1>2. CASE out.ptr \in {NULL, Crash} /\ Good(out.heap, C, I, A) /\ Untouched(h, out.heap, C, A)
  <2>1. Grown(h, C, I, A, out.heap, C)
    BY <1>2 DEF Grown
  <2> QED BY <1>2, <2>1 DEF Nothing
<1>3. CASE \E o : o[1] = out.ptr /\ o[2] >= n /\ Took(h, out.heap, C, I, A, o)
  <2>1. PICK o : o[1] = out.ptr /\ o[2] >= n /\ Took(h, out.heap, C, I, A, o)
    BY <1>3
  <2>2. Good(out.heap, C \union {o}, I, A \union {o[1]}) /\ o \in C \union {o}
    BY <2>1 DEF Took
  <2>3. Holds(o, o[1]) /\ o[2] \in Nat
    BY <2>2, HeldStart, ObjectFacts
  <2>4. Grown(h, C, I, A, out.heap, C \union {o})
    BY <2>1 DEF Took, Grown
  <2>5. PlacedIn(h, C, I, A, n, m, out, C \union {o}, I, o)
    BY <2>1, <2>2, <2>3, <2>4 DEF PlacedIn, Took
  <2> QED BY <2>5
<1> QED BY <1>1, <1>2, <1>3 DEF MallocDid

(* A client may use an object from a word inside it on. *)
LEMMA ShiftGood ==
  ASSUME NEW h, NEW C, NEW I, NEW A, Good(h, C, I, A), NEW o \in C, o[1] \in A,
         NEW p, p # o[1], Holds(o, p), Holds(o, NextOf(p))
  PROVE  Good(h, C, I \union {p}, (A \ {o[1]}) \union {p})
<1> DEFINE J == I \union {p}
           B == (A \ {o[1]}) \union {p}
<1>1. \A q \in I \union A : Holds(o, q) => q = o[1]
  BY HeldStart DEF Good, UsersInv
<1>2. p \notin I \union A /\ o[1] \notin I
  BY <1>1 DEF Good, UsersInv
<1>3. J \union B = ((I \union A) \ {o[1]}) \union {p} /\ J \ B = I \ A /\ B \ J \subseteq A \ I
  BY <1>2
<1>4. \A q \in C : Holds(q, p) \/ Holds(q, o[1]) => q = o
  BY HeldStart, OneHolder
<1>5. \A q \in C : (\A u \in J \union B : ~Holds(q, u)) <=> (\A u \in I \union A : ~Holds(q, u))
  BY <1>3, <1>4, HeldStart
<1>6. ASSUME NEW c \in Bins PROVE Free(c, C, J, B) = Free(c, C, I, A)
  <2>1. {q \in C : q[2] = Class2Size[c] /\ \A u \in J \union B : ~Holds(q, u)}
          = {q \in C : q[2] = Class2Size[c] /\ \A u \in I \union A : ~Holds(q, u)}
    BY <1>5
  <2> QED BY <1>3, <2>1 DEF Free
<1>7. UsersInv(C, J, B)
  <2>1. \A q \in J \union B : \E x \in C : Holds(x, q) /\ Holds(x, NextOf(q))
    BY <1>3 DEF Good, UsersInv
  <2>2. \A q \in J : \A x \in C : q # x[1]
    <3>1. \A x \in C : p # x[1]
      BY <1>4, HeldStart
    <3> QED BY <3>1 DEF Good, UsersInv
  <2>3. \A q \in B \ J : \E x \in C : q = x[1]
    BY <1>3 DEF Good, UsersInv
  <2>4. ASSUME NEW x \in C, NEW q \in J \union B, NEW u \in J \union B, Holds(x, q), Holds(x, u)
        PROVE  q = u
    <3>1. CASE x = o
      BY <1>1, <1>3, <2>4, <3>1
    <3>2. CASE x # o
      <4>1. q # p /\ u # p
        BY <1>4, <2>4, <3>2
      <4> QED BY <1>3, <2>4, <4>1 DEF Good, UsersInv
    <3> QED BY <3>1, <3>2
  <2> QED BY <2>1, <2>2, <2>3, <2>4 DEF UsersInv
<1> QED BY <1>6, <1>7 DEF Good, RingsInv

(* A free object stays in its bin while others are cut. *)
LEMMA FreeMonotone ==
  ASSUME NEW C, NEW D, C \subseteq D, NEW I, NEW A, NEW c
  PROVE  Free(c, C, I, A) \subseteq Free(c, D, I, A)
BY DEF Free

(* A call after a call. *)
LEMMA GrownTwice ==
  ASSUME NEW h, NEW C, NEW I, NEW A, NEW k, NEW D, NEW l, NEW E,
         Grown(h, C, I, A, k, D), Grown(k, D, I, A, l, E)
  PROVE  Grown(h, C, I, A, l, E)
<1>1. C \subseteq D /\ D \subseteq E
  BY DEF Grown
<1>2. Untouched(h, l, C, A)
  BY <1>1 DEF Grown, Untouched
<1>3. ASSUME NEW o \in E \ C, NEW c \in Bins, Class2Size[c] = o[2] PROVE Free(c, C, I, A) = {}
  <2>1. CASE o \in D
    BY <1>3, <2>1 DEF Grown
  <2>2. CASE o \notin D
    <3>1. Free(c, D, I, A) = {}
      BY <1>3, <2>2 DEF Grown
    <3> QED BY <1>1, <3>1, FreeMonotone
  <2> QED BY <2>1, <2>2
<1> QED BY <1>1, <1>2, <1>3 DEF Grown

(* The object memalign tried goes back. *)
LEMMA TryGoesBack ==
  ASSUME NEW h, NEW C, NEW I, NEW A, NEW n, NEW m, NEW try, NEW D, NEW J, NEW o,
         PlacedIn(h, C, I, A, n, m, try, D, J, o), J = I
  PROVE  /\ Good(FreeObject(try.heap, try.ptr), D, I, A)
         /\ Grown(h, C, I, A, FreeObject(try.heap, try.ptr), D)
<1> DEFINE p == try.ptr
           k == FreeObject(try.heap, try.ptr)
<1>1. Good(try.heap, D, I, A \union {p}) /\ p \in A \union {p}
  BY DEF PlacedIn
<1>2. p \notin A
  BY DEF PlacedIn
<1>3. (A \union {p}) \ {p} = A
  BY <1>2
<1>4. Good(k, D, I, (A \union {p}) \ {p}) /\ Untouched(try.heap, k, D, (A \union {p}) \ {p})
  BY <1>1, FreeGood
<1>5. Grown(h, C, I, A, k, D)
  BY <1>3, <1>4 DEF PlacedIn, Grown, Untouched
<1> QED BY <1>3, <1>4, <1>5

Shifted(a, out) == [out EXCEPT !.ptr = IF @ \in {NULL, Crash} THEN @ ELSE AlignUp(a, @)]

LEMMA ShiftedFields ==
  ASSUME NEW a, NEW p, NEW k
  PROVE  /\ Shifted(a, Outcome(p, k)).heap = k
         /\ Shifted(a, Outcome(p, k)).ptr = IF p \in {NULL, Crash} THEN p ELSE AlignUp(a, p)
BY DEF Shifted, Outcome

(* What malloc returns are outcomes. *)
LEMMA MallocOutcome ==
  ASSUME NEW h, NEW n \in Nat, NEW out \in Malloc(h, n)
  PROVE  \E p, k : out = Outcome(p, k)
<1> DEFINE c == Size2Class(AnsiSize(n))
<1>1. CASE out = Outcome(NULL, h)
  BY <1>1
<1>2. CASE out = Get(h, c)
  BY <1>2 DEF Get
<1>3. CASE out \in Carve(h, Class2Size[c])
  BY <1>3 DEF Carve
<1>4. out = Outcome(NULL, h) \/ out = Get(h, c) \/ out \in Carve(h, Class2Size[c])
  <2>1. n \in Int /\ HalfRange \in Int
    BY KingsleyAssumption
  <2> HIDE DEF c
  <2>2. n >= HalfRange \/ n < HalfRange
    BY <2>1
  <2> QED BY <2>1, <2>2 DEF Malloc, c
<1> QED BY <1>1, <1>2, <1>3, <1>4

(* The object in which memalign places a block, shifted or not. *)
LEMMA ShiftedServed ==
  ASSUME NEW h, NEW C, NEW I, NEW A, NEW n \in Nat, NEW a \in Nat \ {0},
         NEW D, NEW o, NEW out, PlacedIn(h, C, I, A, n + 2 * a, n + 2 * a, out, D, I, o),
         NEW end, end.heap = out.heap, end.ptr = AlignUp(a, out.ptr)
  PROVE  \E J : PlacedIn(h, C, I, A, n, n + a, end, D, J, o)
<1>1. /\ Good(out.heap, D, I, A \union {out.ptr}) /\ o \in D /\ Grown(h, C, I, A, out.heap, D)
      /\ \A p \in I \union A : ~Holds(o, p)
  BY DEF PlacedIn
<1>2. o[1] \in Nat /\ o[2] \in Nat /\ Holds(o, o[1])
  BY <1>1, ObjectFacts, HeldStart
<1>3. out.ptr = o[1] /\ n + 2 * a <= o[2]
  <2>1. Holds(o, out.ptr)
    BY DEF PlacedIn
  <2>2. I # I \union {out.ptr}
    BY <1>1, <2>1
  <2> QED BY <2>2 DEF PlacedIn
<1> DEFINE p == AlignUp(a, o[1])
<1>4. p \in Nat /\ o[1] <= p /\ p < o[1] + a
  BY <1>2, AlignUpIs
<1> HIDE DEF p
<1>5. end.ptr = p
  BY <1>3 DEF p
<1>6. Holds(o, p) /\ Holds(o, NextOf(p)) /\ p + (n + a) <= o[1] + o[2] /\ n <= o[2]
  <2>1. p + 1 <= o[1] + o[2] - 1
    BY <1>2, <1>3, <1>4
  <2>2. p + (n + a) <= o[1] + o[2] /\ n <= o[2]
    BY <1>2, <1>3, <1>4
  <2> QED BY <1>2, <1>4, <2>1, <2>2 DEF Holds, NextOf
<1>7. CASE p = o[1]
  <2>1. PlacedIn(h, C, I, A, n, n + a, end, D, I, o)
    BY <1>1, <1>2, <1>3, <1>5, <1>6, <1>7 DEF PlacedIn
  <2> QED BY <2>1
<1>8. CASE p # o[1]
  <2>1. Good(out.heap, D, I \union {p}, ((A \union {o[1]}) \ {o[1]}) \union {p})
    <3>1. Good(out.heap, D, I, A \union {o[1]}) /\ o[1] \in A \union {o[1]}
      BY <1>1, <1>3
    <3> QED BY <1>1, <1>6, <1>8, <3>1, ShiftGood
  <2>2. ((A \union {o[1]}) \ {o[1]}) \union {p} = A \union {p}
    BY <1>1, <1>2
  <2>3. PlacedIn(h, C, I, A, n, n + a, end, D, I \union {p}, o)
    BY <1>1, <1>5, <1>6, <1>8, <2>1, <2>2 DEF PlacedIn
  <2> QED BY <2>3
<1> QED BY <1>7, <1>8

(* The second object memalign asks for has room for the alignment.         *)
Roomy(a) == IsPowerOf2(a) => 2 * a <= HalfRange

LEMMA SumDoesNotWrap ==
  ASSUME NEW h, NEW a \in Nat, NEW n \in Nat, IsPowerOf2(a), Roomy(a),
         NEW try \in Malloc(h, n), try.ptr # NULL
  PROVE  (n + 2 * a) % (2 * HalfRange) = n + 2 * a
<1>1. HalfRange \in Nat \ {0} /\ 2 * a <= HalfRange
  BY KingsleyAssumption DEF Roomy
<1>2. n < HalfRange
  <2>1. CASE n >= HalfRange
    <3>1. ~(n < HalfRange)
      BY <1>1, <2>1
    <3>2. try = Outcome(NULL, h)
      BY <2>1, <3>1 DEF Malloc
    <3> QED BY <3>2 DEF Outcome
  <2> QED BY <1>1, <2>1
<1>3. n + 2 * a \in Nat /\ n + 2 * a < 2 * HalfRange
  BY <1>1, <1>2
<1> QED BY <1>1, <1>3, SmallMod

(* generic_xxmemalign. *)
LEMMA MemalignServed ==
  ASSUME NEW h, NEW C, NEW I, NEW A, Good(h, C, I, A), NEW a \in Nat, NEW n \in Nat, Roomy(a),
         NEW out \in Memalign(h, a, n)
  PROVE  Served(h, C, I, A, n, n + a, out)
<1>1. CASE ~IsPowerOf2(a)
  <2>1. out = Outcome(NULL, h)
    BY <1>1 DEF Memalign
  <2>2. Grown(h, C, I, A, h, C)
    BY DEF Grown, Untouched
  <2> QED BY <2>1, <2>2 DEF Outcome, Served, Nothing
<1>2. CASE IsPowerOf2(a) /\ a <= MemAlign
  <2>1. out \in Malloc(h, n)
    BY <1>2 DEF Memalign
  <2> QED BY <2>1, MallocServed DEF Served
<1>3. CASE IsPowerOf2(a) /\ ~(a <= MemAlign)
  <2>1. a \in Nat \ {0} /\ n + 2 * a \in Nat
    BY <1>3 DEF MemAlign
  <2> DEFINE big == (n + 2 * a) % (2 * HalfRange)
  <2>2. out \in UNION {IF try.ptr \in {NULL, Crash} \/ try.ptr % a = 0 THEN {try}
                ELSE {Shifted(a, o) : o \in Malloc(FreeObject(try.heap, try.ptr), big)} :
                  try \in Malloc(h, n)}
    BY <1>3 DEF Memalign, Shifted
  <2>3. PICK try \in Malloc(h, n) :
          out \in IF try.ptr \in {NULL, Crash} \/ try.ptr % a = 0 THEN {try}
                 ELSE {Shifted(a, o) : o \in Malloc(FreeObject(try.heap, try.ptr), big)}
    BY <2>2
  <2>4. Nothing(h, C, I, A, try) \/ \E D, o : PlacedIn(h, C, I, A, n, n + a, try, D, I, o)
    BY MallocServed
  <2>5. CASE out = try
    BY <2>4, <2>5 DEF Served
  <2>6. CASE out # try
    <3> DEFINE k == FreeObject(try.heap, try.ptr)
    <3>1. try.ptr \notin {NULL, Crash}
      BY <2>3, <2>6
    <3>2. big = n + 2 * a
      BY <1>3, <2>3, <3>1, SumDoesNotWrap
    <3>3. PICK o \in Malloc(k, n + 2 * a) : out = Shifted(a, o)
      BY <2>3, <2>6, <3>2
    <3>4. PICK D, u : PlacedIn(h, C, I, A, n, n + a, try, D, I, u)
      BY <2>4, <3>1 DEF Nothing
    <3>5. Good(k, D, I, A) /\ Grown(h, C, I, A, k, D)
      BY <3>4, TryGoesBack
    <3> HIDE DEF k
    <3>6. \/ Nothing(k, D, I, A, o)
          \/ \E E, q : PlacedIn(k, D, I, A, n + 2 * a, n + 2 * a, o, E, I, q)
      BY <2>1, <3>3, <3>5, MallocServed
    <3>7. /\ out.heap = o.heap
          /\ out.ptr = IF o.ptr \in {NULL, Crash} THEN o.ptr ELSE AlignUp(a, o.ptr)
      <4>1. PICK p, l : o = Outcome(p, l)
        BY <2>1, MallocOutcome
      <4>2. o.ptr = p /\ o.heap = l
        BY <4>1 DEF Outcome
      <4> QED BY <3>3, <4>1, <4>2, ShiftedFields
    <3>8. CASE Nothing(k, D, I, A, o)
      <4>1. PICK E : Grown(k, D, I, A, o.heap, E) /\ Good(o.heap, E, I, A)
        BY <3>8 DEF Nothing
      <4>2. Grown(h, C, I, A, out.heap, E)
        BY <3>5, <3>7, <4>1, GrownTwice
      <4> QED BY <3>7, <3>8, <4>1, <4>2 DEF Nothing, Served
    <3>9. CASE \E E, q : PlacedIn(k, D, I, A, n + 2 * a, n + 2 * a, o, E, I, q)
      <4>1. PICK E, q : PlacedIn(k, D, I, A, n + 2 * a, n + 2 * a, o, E, I, q)
        BY <3>9
      <4>2. o.ptr \notin {NULL, Crash}
        <5>1. Good(o.heap, E, I, A \union {o.ptr}) /\ o.ptr \in A \union {o.ptr}
          BY <4>1 DEF PlacedIn
        <5>2. o.ptr \in Int /\ o.ptr >= 6
          BY <5>1, UserHome
        <5> QED BY <5>2 DEF NULL, Crash
      <4>3. out.ptr = AlignUp(a, o.ptr)
        BY <3>7, <4>2
      <4>4. PICK J : PlacedIn(k, D, I, A, n, n + a, out, E, J, q)
        BY <2>1, <3>7, <4>1, <4>3, ShiftedServed
      <4>5. Grown(h, C, I, A, out.heap, E)
        BY <3>5, <4>4, GrownTwice DEF PlacedIn
      <4>6. PlacedIn(h, C, I, A, n, n + a, out, E, J, q)
        BY <4>4, <4>5 DEF PlacedIn
      <4> QED BY <4>6 DEF Served
    <3> QED BY <3>6, <3>8, <3>9
  <2> QED BY <2>5, <2>6
<1> QED BY <1>1, <1>2, <1>3

-----------------------------------------------------------------------------
(* What clients write.                                                     *)

(* Nothing but words of object o changed. *)
OnlyWords(h, k, o) ==
  \A a \in Address : k.mem[a] = h.mem[a] \/ (Holds(o, a) /\ k.mem[a] # Magic)

(* A client's object has neither links nor headers in it. *)
LEMMA WriteGood ==
  ASSUME NEW h, NEW C, NEW I, NEW A, Good(h, C, I, A), NEW p \in A, NEW o \in C, Holds(o, p),
         NEW k, SameArenas(h, k), OnlyWords(h, k, o)
  PROVE  Good(k, C, I, A) /\ Untouched(h, k, C, A \ {p})
<1>1. k \in HeapType /\ ArenasInv(k) /\ ObjectsInv(k, C)
  BY DEF SameArenas, Good, ArenasInv, ObjectsInv
<1>2. HeadersInv(k, C)
  <2>1. ASSUME NEW q \in C PROVE k.mem[q[1] - 2] = q[2] /\ k.mem[q[1] - 1] = Magic
    <3>1. q[1] - 2 \in Address /\ q[1] - 1 \in Address
      BY ObjectFacts, KingsleyAssumption DEF Address, Word
    <3>2. ~Holds(o, q[1] - 2) /\ ~Holds(o, q[1] - 1)
      BY HeaderApart
    <3> QED BY <3>1, <3>2 DEF Good, HeadersInv, OnlyWords
  <2>2. ASSUME NEW a \in Address, k.mem[a] = Magic PROVE \E q \in C : a = q[1] - 1
    BY <2>2 DEF Good, HeadersInv, OnlyWords
  <2> QED BY <2>1, <2>2 DEF HeadersInv
<1>3. PICK u \in C : /\ Holds(u, p)
                     /\ \A x \in A \ {p} : ~Holds(u, x)
                     /\ \A c \in Bins : \A e \in Free(c, C, I, A) :
                          ~Holds(u, e) /\ ~Holds(u, NextOf(e))
  BY UserHome
<1>4. u = o
  BY <1>3, OneHolder
<1>5. ASSUME NEW c \in Bins PROVE IsRing(k.mem, Head(c), Free(c, C, I, A))
  <2>1. ASSUME NEW e \in Free(c, C, I, A) \union {Head(c)}
        PROVE  ~Holds(o, e) /\ ~Holds(o, NextOf(e)) /\ e \in Address /\ NextOf(e) \in Address
    <3>1. e \in Address /\ NextOf(e) \in Address
      BY EntriesApart
    <3>2. CASE e \in Free(c, C, I, A)
      BY <1>3, <1>4, <3>1, <3>2
    <3>3. CASE e = Head(c)
      <4>1. e < 0 /\ NextOf(e) < 0 /\ e \in Int /\ NextOf(e) \in Int
        BY <3>3, HeadFacts DEF NextOf
      <4>2. \A w : Holds(o, w) => w >= 6
        BY HeldWords
      <4> QED BY <3>1, <4>1, <4>2
    <3> QED BY <3>2, <3>3
  <2>2. \A e \in Free(c, C, I, A) \union {Head(c)} :
          k.mem[e] = h.mem[e] /\ k.mem[NextOf(e)] = h.mem[NextOf(e)]
    BY <2>1 DEF OnlyWords
  <2>3. IsRing(h.mem, Head(c), Free(c, C, I, A))
    BY DEF Good, RingsInv
  <2> QED BY <2>2, <2>3, RingSame
<1>6. Untouched(h, k, C, A \ {p})
  <2>1. ASSUME NEW q \in C, NEW a \in A \ {p}, Holds(q, a), NEW w, Holds(q, w)
        PROVE  k.mem[w] = h.mem[w]
    <3>1. q # o
      BY <1>3, <1>4, <2>1
    <3>2. w \in Address /\ ~Holds(o, w)
      BY <2>1, <3>1, HeldWords, OneHolder
    <3> QED BY <3>2 DEF OnlyWords
  <2> QED BY <2>1 DEF Untouched
<1> QED BY <1>1, <1>2, <1>5 , <1>6 DEF Good, RingsInv

(* The memory after n words from p on were set to what w says. *)
Written(h, p, n, w) == [a \in Address |-> IF a \in p .. p + n - 1 THEN w[a] ELSE h.mem[a]]

Writes(h, k, p, n, w) ==
  /\ k.mem = Written(h, p, n, w)
  /\ k.arenas = h.arenas /\ k.arena = h.arena /\ k.space = h.space /\ k.left = h.left
  /\ k = [mem |-> k.mem, arenas |-> k.arenas, arena |-> k.arena, space |-> k.space,
          left |-> k.left]

(* The words written look like no header. *)
Plain(w, p, n) == \A a \in p .. p + n - 1 : w[a] \in Values \ {Magic}

HoldsWords(h, p, n, w) == \A a \in p .. p + n - 1 : h.mem[a] = w[a]

LEMMA WrittenGood ==
  ASSUME NEW h, NEW C, NEW I, NEW A, Good(h, C, I, A), NEW p \in A, NEW o \in C, Holds(o, p),
         NEW n \in Nat, p + n <= o[1] + o[2], NEW w,
         Plain(w, p, n), NEW k, Writes(h, k, p, n, w)
  PROVE  /\ Good(k, C, I, A) /\ Untouched(h, k, C, A \ {p})
         /\ HoldsWords(k, p, n, w)
<1>1. p \in Int /\ p \in Word
  BY UserHome
<1>2. \A a \in p .. p + n - 1 : Holds(o, a) /\ a \in Address
  <2>1. \A a \in p .. p + n - 1 : Holds(o, a)
    BY <1>1, ObjectFacts DEF Holds
  <2> QED BY <2>1, HeldWords
<1>3. h \in HeapType /\ h.mem \in [Address -> Values]
  BY DEF Good, HeapType
<1>4. k.mem \in [Address -> Values]
  BY <1>2, <1>3 DEF Written, Writes, Plain
<1>5. SameArenas(h, k)
  BY <1>3, <1>4 DEF SameArenas, HeapType, Writes
<1>6. OnlyWords(h, k, o)
  BY <1>2 DEF OnlyWords, Written, Writes, Plain
<1>7. HoldsWords(k, p, n, w)
  BY <1>2 DEF Written, Writes, HoldsWords
<1> QED BY <1>5, <1>6, <1>7, WriteGood

Filling(x) == [a \in Address |-> x]

LEMMA FillWrites ==
  ASSUME NEW h \in HeapType, NEW p, NEW n, NEW x
  PROVE  /\ Fill(Outcome(p, h), n, x).ptr = p
         /\ Writes(h, Fill(Outcome(p, h), n, x).heap, p, n, Filling(x))
<1>1. Fill(Outcome(p, h), n, x) =
        Outcome(p, [h EXCEPT !.mem = [a \in Address |-> IF a \in p .. p + n - 1 THEN x ELSE @[a]]])
  BY DEF Fill, Outcome
<1>2. Written(h, p, n, Filling(x))
        = [a \in Address |-> IF a \in p .. p + n - 1 THEN x ELSE h.mem[a]]
  BY DEF Written, Filling
<1> DEFINE f == [a \in Address |-> IF a \in p .. p + n - 1 THEN x ELSE h.mem[a]]
<1>3. [h EXCEPT !.mem = [a \in Address |-> IF a \in p .. p + n - 1 THEN x ELSE @[a]]]
        = [h EXCEPT !.mem = f]
  OBVIOUS
<1> HIDE DEF f
<1> DEFINE k == [h EXCEPT !.mem = f]
<1>4. /\ k.mem = f /\ k.arenas = h.arenas /\ k.arena = h.arena /\ k.space = h.space
      /\ k.left = h.left
      /\ k = [mem |-> k.mem, arenas |-> k.arenas, arena |-> k.arena, space |-> k.space,
              left |-> k.left]
  BY DEF HeapType
<1> HIDE DEF k
<1>5. Fill(Outcome(p, h), n, x) = Outcome(p, k)
  BY <1>1, <1>3 DEF k
<1>6. Fill(Outcome(p, h), n, x).heap = k /\ Fill(Outcome(p, h), n, x).ptr = p
  BY <1>5 DEF Outcome
<1> QED BY <1>2, <1>4, <1>6 DEF Writes, f

LEMMA CopyWrites ==
  ASSUME NEW h \in HeapType, NEW p, NEW q, NEW n
  PROVE  Writes(h, Copy(h, p, q, n), q, n, [a \in q .. q + n - 1 |-> h.mem[p + a - q]])
<1> DEFINE w == [a \in q .. q + n - 1 |-> h.mem[p + a - q]]
           f == [a \in Address |-> IF a \in q .. q + n - 1 THEN h.mem[p + a - q] ELSE h.mem[a]]
<1>1. Written(h, q, n, w) = f
  BY DEF Written
<1>2. Copy(h, p, q, n) = [h EXCEPT !.mem = f]
  BY DEF Copy
<1> HIDE DEF f, w
<1> DEFINE k == [h EXCEPT !.mem = f]
<1>3. /\ k.mem = f /\ k.arenas = h.arenas /\ k.arena = h.arena /\ k.space = h.space
      /\ k.left = h.left
      /\ k = [mem |-> k.mem, arenas |-> k.arenas, arena |-> k.arena, space |-> k.space,
              left |-> k.left]
  BY DEF HeapType
<1> HIDE DEF k
<1>4. Copy(h, p, q, n) = k
  BY <1>2 DEF k
<1> QED BY <1>1, <1>3, <1>4 DEF Writes, w

(* The objects that are in a heap and were not in an earlier one.          *)
LEMMA NewObjectsAre ==
  ASSUME NEW h, NEW C, NEW I, NEW A, Good(h, C, I, A),
         NEW k, NEW D, NEW J, NEW B, Good(k, D, J, B), C \subseteq D
  PROVE  C \union NewObjects(h, k) = D
<1>1. ASSUME NEW o \in D \ C PROVE o \in NewObjects(h, k)
  <2>1. o[1] \in Int /\ o[1] >= 6 /\ o = <<o[1], o[2]>> /\ Holds(o, o[1])
    BY ObjectFacts, HeldStart
  <2>2. o[1] \in Word /\ o[1] - 1 \in Address
    <3>1. o[1] \in Word
      BY <2>1, HeldWords
    <3> QED BY <2>1, <3>1, KingsleyAssumption DEF Word, Address
  <2>3. k.mem[o[1] - 1] = Magic /\ k.mem[o[1] - 2] = o[2]
    BY DEF Good, HeadersInv
  <2>4. h.mem[o[1] - 1] # Magic
    <3>1. SUFFICES ASSUME h.mem[o[1] - 1] = Magic PROVE FALSE
      OBVIOUS
    <3>2. PICK q \in C : o[1] - 1 = q[1] - 1
      BY <2>2, <3>1 DEF Good, HeadersInv
    <3>3. q \in D /\ q[1] = o[1]
      <4>1. q \in D /\ q[1] \in Int
        BY ObjectFacts
      <4> QED BY <2>1, <3>2, <4>1
    <3>4. q = o
      BY <2>1, <3>3, HeldStart, OneHolder
    <3> QED BY <3>4
  <2>5. o = <<o[1], k.mem[o[1] - 2]>> /\ o[1] > 2
    BY <2>1, <2>3
  <2> QED BY <2>2, <2>3, <2>4, <2>5 DEF NewObjects
<1>2. ASSUME NEW o \in NewObjects(h, k) PROVE o \in D
  <2>1. PICK q \in Word : q > 2 /\ k.mem[q - 1] = Magic /\ o = <<q, k.mem[q - 2]>>
    BY <1>2 DEF NewObjects
  <2>2. q \in Int /\ q - 1 \in Address
    BY <2>1, KingsleyAssumption DEF Word, Address
  <2>3. PICK u \in D : q - 1 = u[1] - 1
    BY <2>1, <2>2 DEF Good, HeadersInv
  <2>4. u[1] \in Int /\ u = <<u[1], u[2]>> /\ k.mem[u[1] - 2] = u[2]
    BY ObjectFacts DEF Good, HeadersInv
  <2>5. q = u[1]
    BY <2>2, <2>3, <2>4
  <2> QED BY <2>1, <2>4, <2>5
<1> QED BY <1>1, <1>2

-----------------------------------------------------------------------------
(* Blocks.                                                                 *)

Blocks == [addr : Word, align : Nat, asked : Nat, size : Nat, data : Data \union {0}, kept : Nat]

AddrsOf(L) == {b.addr : b \in L}

(* A block lies in one object, from its start on and whole unless memalign *)
(* moved it, and holds what its client wrote.                              *)
BlockInv(h, C, I, b) ==
  /\ b \in Blocks /\ b.kept <= b.size
  /\ \E o \in C : /\ Holds(o, b.addr) /\ b.addr + b.size <= o[1] + o[2]
                  /\ b.addr \notin I => b.size = o[2]
  /\ \A i \in 0 .. b.kept - 1 : h.mem[b.addr + i] = b.data

BlocksInv(h, C, I, L) ==
  /\ \A b \in L : BlockInv(h, C, I, b)
  /\ \A b, c \in L : b.addr = c.addr => b = c

(* The invariant of the allocator, with its clients' blocks L. *)
AllGood(h, C, I, L) == Good(h, C, I, AddrsOf(L)) /\ BlocksInv(h, C, I, L)

(* A call leaves the blocks of others alone. *)
LEMMA BlocksFrame ==
  ASSUME NEW h, NEW C, NEW I, NEW A, Good(h, C, I, A), NEW L, BlocksInv(h, C, I, L),
         NEW D, C \subseteq D, NEW J, I \subseteq J, NEW k, Untouched(h, k, C, AddrsOf(L))
  PROVE  BlocksInv(k, D, J, L)
<1>1. ASSUME NEW b \in L PROVE BlockInv(k, D, J, b)
  <2>1. PICK o \in C : /\ Holds(o, b.addr) /\ b.addr + b.size <= o[1] + o[2]
                       /\ b.addr \notin I => b.size = o[2]
    BY DEF BlocksInv, BlockInv
  <2>2. b.addr \in Word /\ b.size \in Nat /\ b.kept \in Nat /\ b.kept <= b.size /\ b \in Blocks
    BY DEF BlocksInv, BlockInv, Blocks
  <2>3. \A w : Holds(o, w) => k.mem[w] = h.mem[w]
    BY <2>1 DEF Untouched, AddrsOf
  <2>4. ASSUME NEW i \in 0 .. b.kept - 1 PROVE k.mem[b.addr + i] = b.data
    <3>1. Holds(o, b.addr + i)
      BY <2>1, <2>2, ObjectFacts DEF Holds, Word
    <3> QED BY <2>3, <3>1 DEF BlocksInv, BlockInv
  <2> QED BY <2>1, <2>2, <2>4 DEF BlockInv
<1> QED BY <1>1 DEF BlocksInv

LEMMA BlocksWith ==
  ASSUME NEW h, NEW C, NEW I, NEW L, BlocksInv(h, C, I, L),
         NEW b, BlockInv(h, C, I, b), b.addr \notin AddrsOf(L)
  PROVE  BlocksInv(h, C, I, L \union {b}) /\ AddrsOf(L \union {b}) = AddrsOf(L) \union {b.addr}
BY DEF BlocksInv, AddrsOf

LEMMA BlocksWithout ==
  ASSUME NEW h, NEW C, NEW I, NEW L, BlocksInv(h, C, I, L), NEW b \in L
  PROVE  BlocksInv(h, C, I, L \ {b}) /\ AddrsOf(L \ {b}) = AddrsOf(L) \ {b.addr}
BY DEF BlocksInv, AddrsOf

(* The block a client finds at a pointer: it fits, and x is in its first   *)
(* kept words.                                                             *)
Fits(out, J, o, n, kept) ==
  \/ out.ptr = o[1] /\ kept <= o[2]
  \/ out.ptr \in J /\ out.ptr + n <= o[1] + o[2] /\ kept <= n

Starts(out, kept, x) == \A i \in 0 .. kept - 1 : out.heap.mem[out.ptr + i] = x

IsBlock(out, D, J, b) == BlockInv(out.heap, D, J, b) /\ b.addr = out.ptr

LEMMA NewBlockGood ==
  ASSUME NEW out, NEW D, NEW J, NEW B, Good(out.heap, D, J, B), NEW o \in D, out.ptr \in B,
         Holds(o, out.ptr), NEW a \in Nat, NEW n \in Nat, NEW x \in Data \union {0},
         NEW kept \in Nat,
         Fits(out, J, o, n, kept), Starts(out, kept, x)
  PROVE  IsBlock(out, D, J, NewBlock(out, a, n, x, kept))
<1> DEFINE n0 == GetSize(out.heap, out.ptr)
           size == IF n0 = 0 THEN n ELSE n0
<1>1. NewBlock(out, a, n, x, kept) =
        [addr |-> out.ptr, align |-> a, asked |-> n, size |-> size, data |-> x, kept |-> kept]
  BY DEF NewBlock
<1>2. out.ptr \in Word /\ out.ptr \in Int
  BY UserHome
<1>3. /\ size \in Nat /\ kept <= size /\ out.ptr + size <= o[1] + o[2]
      /\ out.ptr \notin J => size = o[2]
  <2>1. o[1] \in Int /\ o[2] \in Nat /\ o[2] >= 2
    BY ObjectFacts
  <2>2. CASE out.ptr = o[1] /\ kept <= o[2]
    <3>1. n0 = o[2]
      BY <2>2, SizeOfObject
    <3> QED BY <2>1, <2>2, <3>1
  <2>3. CASE out.ptr \in J /\ out.ptr + n <= o[1] + o[2] /\ kept <= n
    <3>1. n0 = 0
      BY <2>3, SizeOfMoved
    <3> QED BY <2>3, <3>1
  <2> QED BY <2>2, <2>3 DEF Fits
<1> HIDE DEF size
<1> QED BY <1>1, <1>2, <1>3 DEF IsBlock, BlockInv, Blocks, Starts

(* A client has a new block. *)
LEMMA DeliverGood ==
  ASSUME NEW h, NEW C, NEW I, NEW L, AllGood(h, C, I, L), NEW n, NEW m, NEW out, NEW D, NEW J,
         NEW o, PlacedIn(h, C, I, AddrsOf(L), n, m, out, D, J, o),
         NEW b, BlockInv(out.heap, D, J, b), b.addr = out.ptr
  PROVE  AllGood(out.heap, D, J, L \union {b})
<1>1. I \subseteq J /\ out.ptr \notin AddrsOf(L) /\ C \subseteq D
  BY DEF PlacedIn, Grown
<1>2. BlocksInv(out.heap, D, J, L)
  BY <1>1, BlocksFrame DEF AllGood, PlacedIn, Grown
<1>3. /\ BlocksInv(out.heap, D, J, L \union {b})
      /\ AddrsOf(L \union {b}) = AddrsOf(L) \union {b.addr}
  BY <1>1, <1>2, BlocksWith
<1> QED BY <1>3 DEF AllGood, PlacedIn

LEMMA NothingGood ==
  ASSUME NEW h, NEW C, NEW I, NEW L, AllGood(h, C, I, L), NEW k, NEW D, Good(k, D, I, AddrsOf(L)),
         Grown(h, C, I, AddrsOf(L), k, D)
  PROVE  AllGood(k, D, I, L)
BY BlocksFrame DEF AllGood, Grown

(* What clients and calls write is no magic number. *)
LEMMA DataIs ==
  ASSUME NEW x \in Data \union {0}
  PROVE  x \in Values \ {Magic}
BY KingsleyAssumption DEF Values

(* A client's block is filled, or its first n words are. *)
IsFilled(k, D, J, B, p, n, x, end) ==
  /\ end.ptr = p /\ Good(end.heap, D, J, B) /\ Untouched(k, end.heap, D, B \ {p})
  /\ Starts(end, n, x)

LEMMA FillGood ==
  ASSUME NEW k, NEW D, NEW J, NEW B, Good(k, D, J, B), NEW p \in B, NEW o \in D, Holds(o, p),
         NEW n \in Nat, p + n <= o[1] + o[2], NEW x \in Data \union {0}
  PROVE  IsFilled(k, D, J, B, p, n, x, Fill(Outcome(p, k), n, x))
<1> DEFINE end == Fill(Outcome(p, k), n, x)
<1>1. k \in HeapType
  BY DEF Good
<1>2. end.ptr = p /\ Writes(k, end.heap, p, n, Filling(x))
  BY <1>1, FillWrites
<1> HIDE DEF end
<1>3. p \in Int
  BY UserHome
<1>4. \A a \in p .. p + n - 1 : a \in Address
  <2>1. \A a \in p .. p + n - 1 : Holds(o, a)
    BY <1>3, ObjectFacts DEF Holds
  <2> QED BY <2>1, HeldWords
<1>5. \A a \in p .. p + n - 1 : Filling(x)[a] = x /\ Filling(x)[a] \in Values \ {Magic}
  BY <1>4, DataIs DEF Filling
<1>6. /\ Good(end.heap, D, J, B) /\ Untouched(k, end.heap, D, B \ {p})
      /\ HoldsWords(end.heap, p, n, Filling(x))
  <2>1. Plain(Filling(x), p, n)
    BY <1>5 DEF Plain
  <2> QED BY <1>2, <2>1, WrittenGood
<1>7. \A i \in 0 .. n - 1 : end.heap.mem[p + i] = x
  <2>1. \A i \in 0 .. n - 1 : p + i \in p .. p + n - 1
    BY <1>3
  <2> QED BY <1>5, <1>6, <2>1 DEF HoldsWords
<1>8. Starts(end, n, x)
  BY <1>2, <1>7 DEF Starts
<1> QED BY <1>2, <1>6, <1>8 DEF end, IsFilled

(* A new object is filled. *)
LEMMA FillPlaced ==
  ASSUME NEW h, NEW C, NEW I, NEW A, NEW n \in Nat, NEW m, NEW out, NEW D, NEW o,
         PlacedIn(h, C, I, A, n, m, out, D, I, o), NEW p, NEW k, out = Outcome(p, k),
         NEW x \in Data \union {0}
  PROVE  /\ PlacedIn(h, C, I, A, n, m, Fill(out, n, x), D, I, o)
         /\ Starts(Fill(out, n, x), n, x)
<1>1. out.ptr = p /\ out.heap = k
  BY DEF Outcome
<1>2. Good(k, D, I, A \union {p}) /\ p \in A \union {p} /\ o \in D /\ Holds(o, p) /\ p \notin A
      /\ p = o[1] /\ n <= o[2] /\ Grown(h, C, I, A, k, D)
  <2>1. p \notin I
    BY <1>1 DEF PlacedIn
  <2> QED BY <1>1, <2>1 DEF PlacedIn
<1>3. p + n <= o[1] + o[2]
  BY <1>2, ObjectFacts
<1> DEFINE end == Fill(Outcome(p, k), n, x)
<1>4. IsFilled(k, D, I, A \union {p}, p, n, x, end)
  BY <1>2, <1>3, FillGood
<1>5. end = Fill(out, n, x)
  OBVIOUS
<1> HIDE DEF end
<1>6. (A \union {p}) \ {p} = A
  BY <1>2
<1>7. Grown(h, C, I, A, end.heap, D)
  BY <1>2, <1>4, <1>6 DEF Grown, Untouched, IsFilled
<1>8. PlacedIn(h, C, I, A, n, m, end, D, I, o)
  BY <1>1, <1>2, <1>4, <1>7 DEF PlacedIn, IsFilled
<1> QED BY <1>4, <1>5, <1>8 DEF IsFilled

-----------------------------------------------------------------------------
(* The inductive invariant, and the calls.                                 *)

KingsleyInv == AllGood(heap, carved, inside, live) /\ dead \in BOOLEAN

(* A step keeps the invariant, and cuts no object while its bin has one.   *)
Cut == \A o \in carved' \ carved : \A c \in Bins :
         Class2Size[c] = o[2] => Free(c, carved, inside, AddrsOf(live)) = {}

StepIsGood == KingsleyInv' /\ Cut

LEMMA NothingStep ==
  ASSUME KingsleyInv, NEW out, Nothing(heap, carved, inside, AddrsOf(live), out),
         Return(out), live' = live, inside' = inside
  PROVE  StepIsGood
<1>1. PICK D : /\ Grown(heap, carved, inside, AddrsOf(live), out.heap, D)
               /\ Good(out.heap, D, inside, AddrsOf(live))
  BY DEF Nothing
<1>2. AllGood(heap, carved, inside, live) /\ Good(heap, carved, inside, AddrsOf(live))
  BY DEF KingsleyInv, AllGood
<1>3. AllGood(out.heap, D, inside, live)
  BY <1>1, <1>2, NothingGood
<1>4. carved \subseteq D
  BY <1>1 DEF Grown
<1>5. carved \union NewObjects(heap, out.heap) = D
  BY <1>1, <1>2, <1>4, NewObjectsAre
<1>6. heap' = out.heap /\ carved' = D /\ dead' \in BOOLEAN
  BY <1>5 DEF Return
<1>7. Cut
  BY <1>1, <1>6 DEF Cut, Grown
<1> QED BY <1>3, <1>6, <1>7 DEF StepIsGood, KingsleyInv

LEMMA PlacedStep ==
  ASSUME KingsleyInv, NEW n, NEW m, NEW out, NEW D, NEW J, NEW o,
         PlacedIn(heap, carved, inside, AddrsOf(live), n, m, out, D, J, o),
         NEW b, BlockInv(out.heap, D, J, b), b.addr = out.ptr,
         Return(out), live' = live \union {b}, inside' = J
  PROVE  StepIsGood
<1>1. AllGood(heap, carved, inside, live) /\ Good(heap, carved, inside, AddrsOf(live))
  BY DEF KingsleyInv, AllGood
<1>2. AllGood(out.heap, D, J, live \union {b})
  BY <1>1, DeliverGood
<1>3. Good(out.heap, D, J, AddrsOf(live \union {b})) /\ carved \subseteq D
  BY <1>2 DEF AllGood, PlacedIn, Grown
<1>4. carved \union NewObjects(heap, out.heap) = D
  BY <1>1, <1>3, NewObjectsAre
<1>5. heap' = out.heap /\ carved' = D /\ dead' \in BOOLEAN
  BY <1>4 DEF Return
<1>6. Cut
  BY <1>5 DEF Cut, Grown, PlacedIn
<1> QED BY <1>2, <1>5, <1>6 DEF StepIsGood, KingsleyInv

(* A pointer to an object is not one of malloc's failures. *)
IsPlaced(I, A, n, m, out, D, J, o) ==
  /\ out.ptr \notin {NULL, Crash}
  /\ Good(out.heap, D, J, A \union {out.ptr}) /\ o \in D /\ Holds(o, out.ptr)
  /\ J = I => out.ptr = o[1] /\ n <= o[2]
  /\ out.ptr = o[1] => J = I /\ n <= o[2]
  /\ out.ptr # o[1] => J = I \union {out.ptr} /\ out.ptr + m <= o[1] + o[2]

LEMMA PlacedFacts ==
  ASSUME NEW h, NEW C, NEW I, NEW A, NEW n, NEW m, NEW out, NEW D, NEW J, NEW o,
         PlacedIn(h, C, I, A, n, m, out, D, J, o)
  PROVE  IsPlaced(I, A, n, m, out, D, J, o)
<1>1. Good(out.heap, D, J, A \union {out.ptr}) /\ out.ptr \in A \union {out.ptr}
  BY DEF PlacedIn
<1>2. out.ptr \in Int /\ out.ptr >= 6
  BY <1>1, UserHome
<1>3. out.ptr \notin {NULL, Crash}
  BY <1>2 DEF NULL, Crash
<1>4. out.ptr \notin I
  BY DEF PlacedIn
<1> QED BY <1>1, <1>3, <1>4 DEF PlacedIn, IsPlaced

(* malloc, new: the block is whole and nobody has written in it. *)
LEMMA MallocStep ==
  ASSUME KingsleyInv, NEW n \in Nat, CallMalloc(n)
  PROVE  StepIsGood
<1>1. PICK out \in Malloc(heap, n) : Return(out) /\ Deliver(out, 1, n, 0, 0)
  BY DEF CallMalloc
<1>2. inside' = inside
  BY DEF CallMalloc
<1>3. Good(heap, carved, inside, AddrsOf(live))
  BY DEF KingsleyInv, AllGood
<1>4. \/ Nothing(heap, carved, inside, AddrsOf(live), out)
      \/ \E D, o : PlacedIn(heap, carved, inside, AddrsOf(live), n, n, out, D, inside, o)
  BY <1>3, MallocServed
<1>5. CASE Nothing(heap, carved, inside, AddrsOf(live), out)
  <2>1. live' = live
    BY <1>1, <1>5 DEF Nothing, Deliver
  <2> QED BY <1>1, <1>2, <1>5, <2>1, NothingStep
<1>6. CASE \E D, o : PlacedIn(heap, carved, inside, AddrsOf(live), n, n, out, D, inside, o)
  <2>1. PICK D, o : PlacedIn(heap, carved, inside, AddrsOf(live), n, n, out, D, inside, o)
    BY <1>6
  <2> DEFINE b == NewBlock(out, 1, n, 0, 0)
  <2>2. /\ Good(out.heap, D, inside, AddrsOf(live) \union {out.ptr}) /\ o \in D
        /\ out.ptr = o[1] /\ out.ptr \notin {NULL, Crash} /\ Holds(o, out.ptr)
    <3>1. IsPlaced(inside, AddrsOf(live), n, n, out, D, inside, o)
      BY <2>1, PlacedFacts
    <3> QED BY <3>1 DEF IsPlaced
  <2>3. live' = live \union {b}
    BY <1>1, <2>2 DEF Deliver
  <2>4. IsBlock(out, D, inside, b)
    <3>1. Fits(out, inside, o, n, 0)
      BY <2>2, ObjectFacts DEF Fits
    <3>2. out.ptr \in AddrsOf(live) \union {out.ptr}
      OBVIOUS
    <3>3. Starts(out, 0, 0)
      BY DEF Starts
    <3> QED BY <2>2, <3>1, <3>2, <3>3, NewBlockGood
  <2> HIDE DEF b
  <2> QED BY <1>1, <1>2, <2>1, <2>3, <2>4, PlacedStep DEF IsBlock
<1> QED BY <1>4, <1>5, <1>6

(* calloc and strdup: n words of the new block are written. *)
LEMMA FilledStep ==
  ASSUME KingsleyInv, NEW n \in Nat, NEW x \in Data \union {0}, NEW out \in Malloc(heap, n),
         NEW end, end = IF out.ptr \in {NULL, Crash} THEN out ELSE Fill(out, n, x),
         Return(end), Deliver(end, 1, n, x, n), inside' = inside
  PROVE  StepIsGood
<1>1. Good(heap, carved, inside, AddrsOf(live))
  BY DEF KingsleyInv, AllGood
<1>2. \/ Nothing(heap, carved, inside, AddrsOf(live), out)
      \/ \E D, o : PlacedIn(heap, carved, inside, AddrsOf(live), n, n, out, D, inside, o)
  BY <1>1, MallocServed
<1>3. CASE Nothing(heap, carved, inside, AddrsOf(live), out)
  <2>1. end = out /\ live' = live
    BY <1>3 DEF Nothing, Deliver
  <2> QED BY <1>3, <2>1, NothingStep
<1>4. CASE \E D, o : PlacedIn(heap, carved, inside, AddrsOf(live), n, n, out, D, inside, o)
  <2>1. PICK D, o : PlacedIn(heap, carved, inside, AddrsOf(live), n, n, out, D, inside, o)
    BY <1>4
  <2>2. end = Fill(out, n, x)
    BY <2>1, PlacedFacts DEF IsPlaced
  <2>3. PICK p, k : out = Outcome(p, k)
    BY MallocOutcome
  <2>4. /\ PlacedIn(heap, carved, inside, AddrsOf(live), n, n, end, D, inside, o)
        /\ Starts(end, n, x)
    <3>1. /\ PlacedIn(heap, carved, inside, AddrsOf(live), n, n, Fill(out, n, x), D, inside, o)
          /\ Starts(Fill(out, n, x), n, x)
      BY <2>1, <2>3, FillPlaced
    <3> QED BY <2>2, <3>1
  <2> DEFINE b == NewBlock(end, 1, n, x, n)
  <2>5. /\ Good(end.heap, D, inside, AddrsOf(live) \union {end.ptr}) /\ o \in D
        /\ end.ptr = o[1] /\ n <= o[2] /\ end.ptr \notin {NULL, Crash} /\ Holds(o, end.ptr)
    <3>1. IsPlaced(inside, AddrsOf(live), n, n, end, D, inside, o)
      BY <2>4, PlacedFacts
    <3> QED BY <3>1 DEF IsPlaced
  <2>6. live' = live \union {b}
    BY <2>5 DEF Deliver
  <2>7. IsBlock(end, D, inside, b)
    <3>1. end.ptr \in AddrsOf(live) \union {end.ptr}
      OBVIOUS
    <3>2. Fits(end, inside, o, n, n) /\ Starts(end, n, x)
      BY <2>4, <2>5 DEF Fits
    <3> QED BY <2>5, <3>1, <3>2, NewBlockGood
  <2> HIDE DEF b
  <2> QED BY <2>4, <2>6, <2>7, PlacedStep DEF IsBlock
<1> QED BY <1>2, <1>3, <1>4

(* A product that wrapped does not divide back. *)
LEMMA DivTimes ==
  ASSUME NEW n \in Nat, NEW size \in Nat \ {0}, NEW count, count = n \div size
  PROVE  count * size <= n
<1>1. n = count * size + (n % size) /\ (n % size) \in Nat /\ count \in Nat
  BY Division
<1> DEFINE r == n % size
           x == count * size
<1>2. n = x + r /\ r \in Nat /\ x \in Nat
  BY <1>1
<1> HIDE DEF r, x
<1>3. x <= n
  BY <1>2
<1> QED BY <1>3 DEF x

LEMMA ProductIs ==
  ASSUME NEW count \in Nat, NEW size \in Nat, NEW M \in Nat \ {0}, NEW n,
         n = (count * size) % M, size = 0 \/ count = n \div size
  PROVE  n = count * size
<1> DEFINE x == count * size
<1>1. x \in Nat
  OBVIOUS
<1>2. CASE size = 0
  <2>1. x = 0
    BY <1>2
  <2>2. 0 % M = 0
    OBVIOUS
  <2> QED BY <2>1, <2>2
<1>3. CASE size # 0
  <2> HIDE DEF x
  <2>1. (x % M) \in Nat /\ x = (x \div M) * M + (x % M) /\ (x \div M) \in Nat
    BY <1>1, Division
  <2>2. (x \div M) * M \in Nat
    BY <2>1
  <2>3. n \in Nat /\ n <= x
    <3>1. n = x % M
      BY DEF x
    <3> DEFINE r == x % M
               y == (x \div M) * M
    <3>2. x = y + r /\ r \in Nat /\ y \in Nat /\ n = r
      BY <2>1, <2>2, <3>1
    <3> HIDE DEF r, y
    <3> QED BY <1>1, <3>2
  <2>4. x <= n
    BY <1>3, <2>3, DivTimes DEF x
  <2>5. n = x
    BY <1>1, <2>3, <2>4
  <2> QED BY <2>5 DEF x
<1> QED BY <1>2, <1>3

LEMMA CallocStep ==
  ASSUME KingsleyInv, NEW count \in Nat, NEW size \in Nat, CallCalloc(count, size)
  PROVE  StepIsGood
<1> DEFINE n == (count * size) % (2 * HalfRange)
<1>1. PICK end \in Calloc(heap, count, size) :
        Return(end) /\ Deliver(end, 1, count * size, 0, count * size)
  BY DEF CallCalloc
<1>2. inside' = inside
  BY DEF CallCalloc
<1>3. CASE size # 0 /\ count # n \div size
  <2>1. end = Outcome(NULL, heap)
    BY <1>1, <1>3 DEF Calloc
  <2>2. end.ptr = NULL /\ end.heap = heap
    BY <2>1 DEF Outcome
  <2>3. Nothing(heap, carved, inside, AddrsOf(live), end)
    BY <2>2 DEF Nothing, Grown, Untouched, KingsleyInv, AllGood
  <2>4. live' = live
    BY <1>1, <2>2 DEF Deliver
  <2> QED BY <1>1, <1>2, <2>3, <2>4, NothingStep
<1>4. CASE ~(size # 0 /\ count # n \div size)
  <2>1. PICK out \in Malloc(heap, n) :
          end = IF out.ptr \in {NULL, Crash} THEN out ELSE Fill(out, n, 0)
    BY <1>1, <1>4 DEF Calloc
  <2>2. 2 * HalfRange \in Nat \ {0}
    BY KingsleyAssumption
  <2>3. n = count * size
    <3> DEFINE M == 2 * HalfRange
               q == (count * size) % M
    <3>1. M \in Nat \ {0} /\ (size = 0 \/ count = q \div size) /\ q = (count * size) % M
      BY <1>4, <2>2
    <3> HIDE DEF M, q
    <3>2. q = count * size
      BY <3>1, ProductIs
    <3> QED BY <3>2 DEF M, q
  <2>4. n \in Nat /\ 0 \in Data \union {0}
    BY <2>3
  <2>5. Deliver(end, 1, n, 0, n)
    BY <1>1, <2>3
  <2> HIDE DEF n
  <2> QED BY <1>1, <1>2, <2>1, <2>4, <2>5, FilledStep
<1> QED BY <1>3, <1>4

LEMMA StrdupStep ==
  ASSUME KingsleyInv, NEW n \in Nat, NEW x \in Data, CallStrdup(n, x)
  PROVE  StepIsGood
<1>1. PICK out \in Malloc(heap, n) :
        LET end == IF out.ptr \in {NULL, Crash} THEN out ELSE Fill(out, n, x)
        IN  Return(end) /\ Deliver(end, 1, n, x, n)
  BY DEF CallStrdup
<1>2. inside' = inside /\ x \in Data \union {0}
  BY DEF CallStrdup
<1> DEFINE end == IF out.ptr \in {NULL, Crash} THEN out ELSE Fill(out, n, x)
<1>3. Return(end) /\ Deliver(end, 1, n, x, n)
  BY <1>1
<1> QED BY <1>2, <1>3, FilledStep

(* memalign and its relatives: the block starts an object or lies in it.   *)
LEMMA AlignedStep ==
  ASSUME KingsleyInv, NEW a \in Nat, NEW n \in Nat, NEW align \in Nat, NEW size \in Nat,
         size <= n + a, Roomy(a), Aligned(a, n, align, size)
  PROVE  StepIsGood
<1>1. PICK out \in Memalign(heap, a, n) :
        /\ Return(out) /\ Deliver(out, align, size, 0, 0)
        /\ inside' = IF out.ptr \in {NULL, Crash} \/ GetSize(out.heap, out.ptr) # 0
                     THEN inside ELSE inside \union {out.ptr}
  BY DEF Aligned
<1>2. Good(heap, carved, inside, AddrsOf(live))
  BY DEF KingsleyInv, AllGood
<1>3. Served(heap, carved, inside, AddrsOf(live), n, n + a, out)
  BY <1>2, MemalignServed
<1>4. CASE Nothing(heap, carved, inside, AddrsOf(live), out)
  <2>1. live' = live /\ inside' = inside
    BY <1>1, <1>4 DEF Nothing, Deliver
  <2> QED BY <1>1, <1>4, <2>1, NothingStep
<1>5. CASE \E D, J, o : PlacedIn(heap, carved, inside, AddrsOf(live), n, n + a, out, D, J, o)
  <2>1. PICK D, J, o : PlacedIn(heap, carved, inside, AddrsOf(live), n, n + a, out, D, J, o)
    BY <1>5
  <2> DEFINE b == NewBlock(out, align, size, 0, 0)
  <2>2. /\ Good(out.heap, D, J, AddrsOf(live) \union {out.ptr}) /\ o \in D
        /\ out.ptr \notin {NULL, Crash} /\ Holds(o, out.ptr)
    <3>1. IsPlaced(inside, AddrsOf(live), n, n + a, out, D, J, o)
      BY <2>1, PlacedFacts
    <3> QED BY <3>1 DEF IsPlaced
  <2>3. o[1] \in Int /\ o[2] \in Nat /\ o[2] >= 2 /\ out.ptr \in Int
    <3>1. out.ptr \in AddrsOf(live) \union {out.ptr}
      OBVIOUS
    <3> QED BY <2>2, <3>1, ObjectFacts, UserHome
  <2>4. /\ out.ptr = o[1] => J = inside
        /\ out.ptr # o[1] => J = inside \union {out.ptr} /\ out.ptr + (n + a) <= o[1] + o[2]
    <3>1. IsPlaced(inside, AddrsOf(live), n, n + a, out, D, J, o)
      BY <2>1, PlacedFacts
    <3> QED BY <3>1 DEF IsPlaced
  <2>5. /\ inside' = J
        /\ out.ptr = o[1] \/ (out.ptr \in J /\ out.ptr + size <= o[1] + o[2])
    <3>1. CASE out.ptr = o[1]
      <4>1. J = inside /\ GetSize(out.heap, out.ptr) = o[2]
        BY <2>2, <2>4, <3>1, SizeOfObject
      <4> QED BY <1>1, <2>3, <3>1, <4>1
    <3>2. CASE out.ptr # o[1]
      <4>1. J = inside \union {out.ptr} /\ out.ptr + (n + a) <= o[1] + o[2]
        BY <2>4, <3>2
      <4>2. GetSize(out.heap, out.ptr) = 0
        BY <2>2, <4>1, SizeOfMoved
      <4> QED BY <1>1, <2>2, <2>3, <4>1, <4>2
    <3> QED BY <3>1, <3>2
  <2>6. live' = live \union {b}
    BY <1>1, <2>2 DEF Deliver
  <2>7. IsBlock(out, D, J, b)
    <3>1. out.ptr \in AddrsOf(live) \union {out.ptr}
      OBVIOUS
    <3>2. Fits(out, J, o, size, 0)
      BY <2>3, <2>5 DEF Fits
    <3>3. Starts(out, 0, 0)
      BY DEF Starts
    <3> QED BY <2>2, <3>1, <3>2, <3>3, NewBlockGood
  <2> HIDE DEF b
  <2> QED BY <1>1, <2>1, <2>5, <2>6, <2>7, PlacedStep DEF IsBlock
<1> QED BY <1>3, <1>4, <1>5 DEF Served
(* A block goes, or another takes its place: the rest stays as it is.      *)
LEMMA RestGood ==
  ASSUME NEW h, NEW C, NEW I, NEW L, AllGood(h, C, I, L), NEW b \in L,
         NEW k, NEW D, C \subseteq D, Untouched(h, k, C, AddrsOf(L) \ {b.addr})
  PROVE  BlocksInv(k, D, I, L \ {b})
<1> DEFINE M == L \ {b}
<1>1. BlocksInv(h, C, I, M) /\ AddrsOf(M) = AddrsOf(L) \ {b.addr}
  BY BlocksWithout DEF AllGood
<1> HIDE DEF M
<1>2. Good(h, C, I, AddrsOf(L)) /\ Untouched(h, k, C, AddrsOf(M))
  BY <1>1 DEF AllGood
<1>3. BlocksInv(k, D, I, M)
  BY <1>1, <1>2, BlocksFrame
<1> QED BY <1>3 DEF M

LEMMA ReplaceGood ==
  ASSUME NEW h, NEW C, NEW I, NEW L, AllGood(h, C, I, L), NEW b \in L,
         NEW k, NEW D, C \subseteq D, NEW p, p \notin AddrsOf(L) \ {b.addr},
         Good(k, D, I, (AddrsOf(L) \ {b.addr}) \union {p}),
         Untouched(h, k, C, AddrsOf(L) \ {b.addr}),
         NEW c, BlockInv(k, D, I, c), c.addr = p
  PROVE  AllGood(k, D, I, (L \ {b}) \union {c})
<1> DEFINE M == L \ {b}
<1>1. AddrsOf(M) = AddrsOf(L) \ {b.addr}
  BY BlocksWithout DEF AllGood
<1>2. BlocksInv(k, D, I, M)
  BY RestGood
<1> HIDE DEF M
<1>3. c.addr \notin AddrsOf(M)
  BY <1>1
<1>4. BlocksInv(k, D, I, M \union {c})
  BY <1>2, <1>3, BlocksWith
<1>5. AddrsOf(M \union {c}) = AddrsOf(M) \union {c.addr}
  BY DEF AddrsOf
<1> QED BY <1>1, <1>4, <1>5 DEF AllGood, M

(* free. *)
LEMMA FreeStep ==
  ASSUME KingsleyInv, NEW b \in live, CallFree(b)
  PROVE  StepIsGood
<1> DEFINE k == FreeObject(heap, b.addr)
           B == AddrsOf(live) \ {b.addr}
<1>1. AllGood(heap, carved, inside, live) /\ Good(heap, carved, inside, AddrsOf(live))
  BY DEF KingsleyInv, AllGood
<1>2. b.addr \in AddrsOf(live)
  BY DEF AddrsOf
<1>3. Good(k, carved, inside, B) /\ Untouched(heap, k, carved, B)
  BY <1>1, <1>2, FreeGood
<1> HIDE DEF k
<1>4. BlocksInv(k, carved, inside, live \ {b}) /\ AddrsOf(live \ {b}) = B
  BY <1>1, <1>3, RestGood, BlocksWithout DEF AllGood
<1>5. AllGood(k, carved, inside, live \ {b})
  BY <1>3, <1>4 DEF AllGood
<1>6. heap' = k /\ carved' = carved /\ inside' = inside /\ live' = live \ {b} /\ dead' = dead
  BY DEF CallFree, k
<1> QED BY <1>5, <1>6 DEF StepIsGood, KingsleyInv, Cut

(* A client writes in its block. *)
LEMMA WriteStep ==
  ASSUME KingsleyInv, NEW b \in live, NEW x \in Data, ClientWrite(b, x)
  PROVE  StepIsGood
<1> DEFINE end == Fill(Outcome(b.addr, heap), b.size, x)
           c == [b EXCEPT !.data = x, !.kept = b.size]
<1>1. AllGood(heap, carved, inside, live) /\ Good(heap, carved, inside, AddrsOf(live))
  BY DEF KingsleyInv, AllGood
<1>2. b.addr \in AddrsOf(live) /\ b.addr \notin AddrsOf(live) \ {b.addr}
      /\ AddrsOf(live) = (AddrsOf(live) \ {b.addr}) \union {b.addr}
  BY DEF AddrsOf
<1>3. BlockInv(heap, carved, inside, b)
  BY <1>1 DEF AllGood, BlocksInv
<1>4. PICK o \in carved : /\ Holds(o, b.addr) /\ b.addr + b.size <= o[1] + o[2]
                          /\ b.addr \notin inside => b.size = o[2]
  BY <1>3 DEF BlockInv
<1>5. b \in Blocks /\ b.size \in Nat /\ x \in Data \union {0}
  BY <1>3 DEF BlockInv, Blocks
<1>6. IsFilled(heap, carved, inside, AddrsOf(live), b.addr, b.size, x, end)
  BY <1>1, <1>2, <1>4, <1>5, FillGood
<1> HIDE DEF end
<1>7. BlockInv(end.heap, carved, inside, c) /\ c.addr = b.addr
  <2>1. /\ c \in Blocks /\ c.addr = b.addr /\ c.size = b.size /\ c.kept = b.size /\ c.data = x
    BY <1>5 DEF Blocks
  <2> HIDE DEF c
  <2>2. \A i \in 0 .. b.size - 1 : end.heap.mem[b.addr + i] = x
    BY <1>6 DEF IsFilled, Starts
  <2> QED BY <1>4, <1>5, <2>1, <2>2 DEF BlockInv
<1> HIDE DEF c
<1>8. AllGood(end.heap, carved, inside, (live \ {b}) \union {c})
  BY <1>1, <1>2, <1>6, <1>7, ReplaceGood DEF IsFilled
<1>9. /\ heap' = end.heap /\ carved' = carved /\ inside' = inside /\ dead' = dead
      /\ live' = (live \ {b}) \union {c}
  BY DEF ClientWrite, end, c
<1> QED BY <1>8, <1>9 DEF StepIsGood, KingsleyInv, Cut

(* realloc.                                                                *)
Copying(h, p, q, n) == [a \in q .. q + n - 1 |-> h.mem[p + a - q]]

(* The block's contents, as much as fits n words, are at the start of an   *)
(* object of that size or more that is its client's now.                   *)
IsMoved(h, C, I, L, b, n, D, p, k, u) ==
  /\ u \in D /\ p = u[1] /\ n <= u[2]
  /\ p \notin AddrsOf(L) \ {b.addr} /\ Good(k, D, I, (AddrsOf(L) \ {b.addr}) \union {p})
  /\ Untouched(h, k, C, AddrsOf(L) \ {b.addr})
  /\ \A i \in Nat : i < b.kept /\ i < n => k.mem[p + i] = b.data

(* Where a block that memalign did not move lies. *)
LEMMA WholeHome ==
  ASSUME NEW h, NEW C, NEW I, NEW L, AllGood(h, C, I, L), NEW b \in L, b.addr \notin I
  PROVE  \E q \in C : /\ b.addr = q[1] /\ b.size = q[2] /\ Holds(q, b.addr)
                      /\ b.addr \in AddrsOf(L)
                      /\ b.kept \in Nat /\ b.kept <= q[2] /\ q[1] \in Int /\ q[2] \in Nat
                      /\ \A i \in 0 .. b.kept - 1 : h.mem[b.addr + i] = b.data
<1>1. Good(h, C, I, AddrsOf(L)) /\ BlockInv(h, C, I, b)
  BY DEF AllGood, BlocksInv
<1>2. PICK q \in C : Holds(q, b.addr) /\ b.addr + b.size <= q[1] + q[2] /\ b.size = q[2]
  BY <1>1 DEF BlockInv
<1>3. b.kept \in Nat /\ b.kept <= b.size /\ b.addr \in Int
  BY <1>1 DEF BlockInv, Blocks, Word
<1>4. q[1] \in Int /\ q[2] \in Nat
  BY <1>1, ObjectFacts
<1>5. b.addr = q[1]
  BY <1>2, <1>3, <1>4 DEF Holds
<1>6. b.addr \in AddrsOf(L)
  BY DEF AddrsOf
<1> QED BY <1>1, <1>2, <1>3, <1>4, <1>5, <1>6 DEF BlockInv

(* The new object is as large as the old one, and goes back. *)
LEMMA StaysGood ==
  ASSUME NEW h, NEW C, NEW I, NEW L, AllGood(h, C, I, L), NEW b \in L, b.addr \notin I,
         NEW n \in Nat, NEW out, NEW D, NEW o, PlacedIn(h, C, I, AddrsOf(L), n, n, out, D, I, o),
         b.size = o[2]
  PROVE  \E u : IsMoved(h, C, I, L, b, n, D, b.addr, FreeObject(out.heap, out.ptr), u)
<1> DEFINE A == AddrsOf(L)
           k == FreeObject(out.heap, out.ptr)
<1>1. PICK q \in C : /\ b.addr = q[1] /\ b.size = q[2] /\ Holds(q, b.addr) /\ b.addr \in A
                     /\ b.kept \in Nat /\ b.kept <= q[2] /\ q[1] \in Int /\ q[2] \in Nat
                     /\ \A i \in 0 .. b.kept - 1 : h.mem[b.addr + i] = b.data
  BY WholeHome
<1>2. Good(k, D, I, A) /\ Grown(h, C, I, A, k, D)
  BY TryGoesBack
<1>3. n <= o[2]
  BY PlacedFacts DEF IsPlaced
<1> HIDE DEF k, A
<1>4. A = (A \ {b.addr}) \union {b.addr}
  BY <1>1
<1>5. Untouched(h, k, C, A \ {b.addr}) /\ q \in D
  BY <1>2 DEF Grown, Untouched
<1>6. ASSUME NEW i \in Nat, i < b.kept PROVE k.mem[b.addr + i] = b.data
  <2>1. Holds(q, b.addr + i)
    BY <1>1, <1>6 DEF Holds
  <2>2. k.mem[b.addr + i] = h.mem[b.addr + i]
    BY <1>1, <1>2, <2>1 DEF Grown, Untouched
  <2> QED BY <1>1, <1>6, <2>2
<1>7. Good(k, D, I, (A \ {b.addr}) \union {b.addr})
  BY <1>2, <1>4
<1>8. IsMoved(h, C, I, L, b, n, D, b.addr, k, q)
  BY <1>1, <1>3, <1>5, <1>6, <1>7 DEF IsMoved, A
<1> QED BY <1>8 DEF k

(* The new object takes the contents, and the old one goes back. *)
LEMMA CopiesGood ==
  ASSUME NEW h, NEW C, NEW I, NEW L, AllGood(h, C, I, L), NEW b \in L, b.addr \notin I,
         NEW n \in Nat, NEW out, NEW D, NEW o, PlacedIn(h, C, I, AddrsOf(L), n, n, out, D, I, o),
         NEW m \in Nat, m <= n, m <= b.size, m = n \/ m = b.size
  PROVE  IsMoved(h, C, I, L, b, n, D, out.ptr,
                 FreeObject(Copy(out.heap, b.addr, out.ptr, m), b.addr), o)
<1> DEFINE A == AddrsOf(L)
           p == out.ptr
           h1 == out.heap
           k1 == Copy(h1, b.addr, p, m)
           k == FreeObject(k1, b.addr)
           w == Copying(h1, b.addr, p, m)
<1>1. PICK q \in C : /\ b.addr = q[1] /\ b.size = q[2] /\ Holds(q, b.addr) /\ b.addr \in A
                     /\ b.kept \in Nat /\ b.kept <= q[2] /\ q[1] \in Int /\ q[2] \in Nat
                     /\ \A i \in 0 .. b.kept - 1 : h.mem[b.addr + i] = b.data
  BY WholeHome
<1>2. /\ Good(h1, D, I, A \union {p}) /\ o \in D /\ Holds(o, p) /\ p = o[1] /\ n <= o[2]
      /\ Grown(h, C, I, A, h1, D) /\ \A x \in I \union A : ~Holds(o, x)
  BY PlacedFacts DEF IsPlaced, PlacedIn
<1>3. o[1] \in Int /\ o[2] \in Nat /\ p \in A \union {p} /\ p \notin A /\ b.addr # p /\ q \in D
  BY <1>1, <1>2, ObjectFacts DEF Grown
<1> HIDE DEF A
<1>4. h1 \in HeapType /\ h1.mem \in [Address -> Values]
  BY <1>2 DEF Good, HeapType
<1>5. Writes(h1, k1, p, m, w)
  BY <1>4, CopyWrites DEF Copying
<1>6. \A i \in 0 .. m - 1 : w[p + i] = h1.mem[b.addr + i]
  <2> SUFFICES ASSUME NEW i \in 0 .. m - 1 PROVE w[p + i] = h1.mem[b.addr + i]
    OBVIOUS
  <2> DEFINE a == p + i
  <2>1. a \in p .. p + m - 1 /\ b.addr + a - p = b.addr + i
    BY <1>1, <1>2, <1>3
  <2> HIDE DEF a
  <2>2. w[a] = h1.mem[b.addr + a - p]
    BY <2>1 DEF Copying
  <2> QED BY <2>1, <2>2 DEF a
<1>7. Plain(w, p, m)
  <2> SUFFICES ASSUME NEW a \in p .. p + m - 1 PROVE w[a] \in Values \ {Magic}
    BY DEF Plain
  <2>1. w[a] = h1.mem[b.addr + a - p]
    BY DEF Copying
  <2> DEFINE x == b.addr + a - p
  <2>2. Holds(q, x)
    BY <1>1, <1>2, <1>3 DEF Holds
  <2> HIDE DEF x
  <2>3. x \in Address /\ x \in Int
    BY <1>2, <1>3, <2>2, HeldWords
  <2>4. h1.mem[x] # Magic
    <3>1. SUFFICES ASSUME h1.mem[x] = Magic PROVE FALSE
      OBVIOUS
    <3>2. PICK u \in D : x = u[1] - 1
      BY <1>2, <2>3, <3>1 DEF Good, HeadersInv
    <3> QED BY <1>2, <1>3, <2>2, <3>2, HeaderApart
  <2> QED BY <1>4, <2>1, <2>3, <2>4 DEF x
<1>8. p + m <= o[1] + o[2]
  BY <1>2, <1>3
<1> HIDE DEF p, h1, k1, w
<1>9. /\ Good(k1, D, I, A \union {p}) /\ Untouched(h1, k1, D, (A \union {p}) \ {p})
      /\ HoldsWords(k1, p, m, w)
  BY <1>2, <1>3, <1>5, <1>7, <1>8, WrittenGood
<1>10. /\ Good(k, D, I, (A \union {p}) \ {b.addr})
       /\ Untouched(k1, k, D, (A \union {p}) \ {b.addr})
  <2>1. b.addr \in A \union {p}
    BY <1>1
  <2> QED BY <1>9, <2>1, FreeGood
<1> HIDE DEF k
<1>11. (A \union {p}) \ {b.addr} = (A \ {b.addr}) \union {p} /\ (A \union {p}) \ {p} = A
  BY <1>3
<1>12. Untouched(h, k, C, A \ {b.addr})
  <2>1. C \subseteq D /\ Untouched(h, h1, C, A)
    BY <1>2 DEF Grown
  <2>2. Untouched(h1, k1, D, A) /\ Untouched(k1, k, D, (A \ {b.addr}) \union {p})
    BY <1>9, <1>10, <1>11
  <2> QED BY <2>1, <2>2 DEF Untouched
<1>13. ASSUME NEW i \in Nat, i < b.kept, i < n PROVE k.mem[p + i] = b.data
  <2>1. i < m /\ i \in 0 .. m - 1 /\ i \in 0 .. b.kept - 1
    BY <1>1, <1>13
  <2>2. k1.mem[p + i] = w[p + i]
    <3>1. p + i \in p .. p + m - 1
      BY <1>2, <1>3, <2>1
    <3> QED BY <1>9, <3>1 DEF HoldsWords
  <2>3. k.mem[p + i] = k1.mem[p + i]
    <3>1. Holds(o, p + i)
      BY <1>2, <1>3, <2>1 DEF Holds
    <3>2. p \in (A \union {p}) \ {b.addr}
      BY <1>3
    <3> QED BY <1>2, <1>10, <3>1, <3>2 DEF Untouched
  <2>4. h1.mem[b.addr + i] = h.mem[b.addr + i]
    <3>1. Holds(q, b.addr + i)
      BY <1>1, <2>1 DEF Holds
    <3> QED BY <1>1, <1>2, <3>1 DEF Grown, Untouched
  <2> QED BY <1>1, <1>6, <2>1, <2>2, <2>3, <2>4
<1>14. p \notin A \ {b.addr} /\ Good(k, D, I, (A \ {b.addr}) \union {p})
  BY <1>3, <1>10, <1>11
<1>15. IsMoved(h, C, I, L, b, n, D, p, k, o)
  BY <1>2, <1>12, <1>13, <1>14 DEF IsMoved, A
<1> QED BY <1>15 DEF p, h1, k1, k

LEMMA MovedGood ==
  ASSUME NEW h, NEW C, NEW I, NEW L, AllGood(h, C, I, L), NEW b \in L, b.addr \notin I,
         NEW n \in Nat, NEW out, NEW D, NEW o, PlacedIn(h, C, I, AddrsOf(L), n, n, out, D, I, o)
  PROVE  \E p, k, u : Moved(b, out, n) = Outcome(p, k) /\ IsMoved(h, C, I, L, b, n, D, p, k, u)
<1>1. PICK q \in C : b.addr = q[1] /\ b.size = q[2] /\ q[2] \in Nat
  BY WholeHome
<1>2. /\ Good(out.heap, D, I, AddrsOf(L) \union {out.ptr}) /\ o \in D /\ out.ptr = o[1]
      /\ C \subseteq D
  BY PlacedFacts DEF IsPlaced, PlacedIn, Grown
<1>3. GetSize(out.heap, b.addr) = b.size /\ GetSize(out.heap, out.ptr) = o[2]
  BY <1>1, <1>2, SizeOfObject
<1>4. CASE b.size = o[2]
  <2>1. Moved(b, out, n) = Outcome(b.addr, FreeObject(out.heap, out.ptr))
    BY <1>3, <1>4 DEF Moved
  <2>2. PICK u : IsMoved(h, C, I, L, b, n, D, b.addr, FreeObject(out.heap, out.ptr), u)
    BY <1>4, StaysGood
  <2> QED BY <2>1, <2>2
<1>5. CASE b.size # o[2]
  <2> DEFINE m == Copied(out.heap, b, n)
  <2>1. m \in Nat /\ m <= n /\ m <= b.size /\ (m = n \/ m = b.size)
    BY <1>1, <1>3 DEF Copied
  <2>2. Moved(b, out, n) = Outcome(out.ptr, FreeObject(Copy(out.heap, b.addr, out.ptr, m), b.addr))
    BY <1>3, <1>5 DEF Moved
  <2> HIDE DEF m
  <2>3. IsMoved(h, C, I, L, b, n, D, out.ptr,
                FreeObject(Copy(out.heap, b.addr, out.ptr, m), b.addr), o)
    BY <2>1, CopiesGood
  <2> QED BY <2>2, <2>3
<1> QED BY <1>4, <1>5

(* What realloc or recalloc returns: a block of n words or more. *)
IsResized(h, C, I, L, b, n, D, end, c) ==
  /\ C \subseteq D /\ end.ptr \notin AddrsOf(L) \ {b.addr}
  /\ Good(end.heap, D, I, (AddrsOf(L) \ {b.addr}) \union {end.ptr})
  /\ Untouched(h, end.heap, C, AddrsOf(L) \ {b.addr})
  /\ IsBlock(end, D, I, c) /\ n <= c.size

LEMMA KeptGood ==
  ASSUME NEW h, NEW C, NEW I, NEW L, AllGood(h, C, I, L), NEW b \in L, NEW n \in Nat,
         NEW D, C \subseteq D, NEW p, NEW k, NEW u, IsMoved(h, C, I, L, b, n, D, p, k, u),
         NEW end, end = Outcome(p, k), NEW asked \in Nat,
         NEW kept, kept = IF b.kept < n THEN b.kept ELSE n
  PROVE  IsResized(h, C, I, L, b, n, D, end, NewBlock(end, 1, asked, b.data, kept))
<1> DEFINE B == (AddrsOf(L) \ {b.addr}) \union {p}
           c == NewBlock(end, 1, asked, b.data, kept)
<1>1. end.ptr = p /\ end.heap = k
  BY DEF Outcome
<1>2. b.kept \in Nat /\ b.data \in Data \union {0}
  BY DEF AllGood, BlocksInv, BlockInv, Blocks
<1>3. kept \in Nat /\ kept <= b.kept /\ kept <= n
  BY <1>2
<1>4. /\ Good(end.heap, D, I, B) /\ u \in D /\ end.ptr \in B /\ end.ptr = u[1] /\ n <= u[2]
  BY <1>1 DEF IsMoved
<1>5. Holds(u, end.ptr) /\ u[2] \in Nat
  BY <1>4, HeldStart, ObjectFacts
<1>6. Fits(end, I, u, asked, kept)
  BY <1>3, <1>4, <1>5 DEF Fits
<1>7. Starts(end, kept, b.data)
  <2>1. ASSUME NEW i \in 0 .. kept - 1 PROVE k.mem[p + i] = b.data
    <3>1. i \in Nat /\ i < b.kept /\ i < n
      BY <1>2, <1>3
    <3> QED BY <3>1 DEF IsMoved
  <2> QED BY <1>1, <2>1 DEF Starts
<1> HIDE DEF B
<1>8. IsBlock(end, D, I, c)
  BY <1>2, <1>3, <1>4, <1>5, <1>6, <1>7, NewBlockGood
<1>9. n <= c.size
  <2>1. GetSize(end.heap, end.ptr) = u[2]
    BY <1>4, SizeOfObject
  <2> QED BY <1>4, <1>5, <2>1 DEF NewBlock
<1> QED BY <1>1, <1>8, <1>9 DEF IsResized, IsMoved

LEMMA ClearedGood ==
  ASSUME NEW h, NEW C, NEW I, NEW L, AllGood(h, C, I, L), NEW b \in L, NEW n \in Nat,
         NEW D, C \subseteq D, NEW p, NEW k, NEW u, IsMoved(h, C, I, L, b, n, D, p, k, u),
         NEW end, end = Fill(Outcome(p, k), n, 0), NEW asked \in Nat
  PROVE  IsResized(h, C, I, L, b, n, D, end, NewBlock(end, 1, asked, 0, n))
<1> DEFINE A == AddrsOf(L) \ {b.addr}
           B == A \union {p}
           c == NewBlock(end, 1, asked, 0, n)
<1>1. /\ Good(k, D, I, B) /\ u \in D /\ p \in B /\ p = u[1] /\ n <= u[2] /\ p \notin A
      /\ Untouched(h, k, C, A)
  BY DEF IsMoved
<1>2. B \ {p} = A
  BY <1>1
<1> HIDE DEF B
<1>3. Holds(u, p) /\ p + n <= u[1] + u[2] /\ u[1] \in Int /\ u[2] \in Nat
  BY <1>1, HeldStart, ObjectFacts
<1>4. 0 \in Data \union {0}
  OBVIOUS
<1>5. IsFilled(k, D, I, B, p, n, 0, end)
  BY <1>1, <1>3, <1>4, FillGood
<1>6. /\ end.ptr = p /\ Good(end.heap, D, I, B) /\ Untouched(k, end.heap, D, A)
      /\ Starts(end, n, 0)
  BY <1>2, <1>5 DEF IsFilled
<1>7. Fits(end, I, u, asked, n)
  BY <1>1, <1>3, <1>6 DEF Fits
<1>8. IsBlock(end, D, I, c)
  BY <1>1, <1>3, <1>4, <1>6, <1>7, NewBlockGood
<1>9. Untouched(h, end.heap, C, A)
  BY <1>1, <1>6 DEF Untouched
<1>10. n <= c.size
  <2>1. GetSize(end.heap, end.ptr) = u[2]
    BY <1>1, <1>6, SizeOfObject
  <2> QED BY <1>1, <1>3, <2>1 DEF NewBlock
<1> QED BY <1>1, <1>6, <1>8, <1>9, <1>10 DEF IsResized, B

(* A step of realloc or recalloc that found memory. *)
Resized(b, n, asked, cleared, D, end, c) ==
  /\ Return(end) /\ live' = (live \ {b}) \union {c}
  /\ IsResized(heap, carved, inside, live, b, n, D, end, c)
  /\ \E k : Grown(heap, carved, inside, AddrsOf(live), k, D)
  /\ c.asked = asked /\ c.addr = end.ptr
  /\ cleared => c.data = 0 /\ c.kept = n
  /\ ~cleared => c.data = b.data /\ c.kept = IF b.kept < n THEN b.kept ELSE n

LEMMA ResizeDid ==
  ASSUME KingsleyInv, ~ReallocAligned, NEW b \in live, NEW n \in Nat, NEW asked \in Nat,
         NEW cleared \in BOOLEAN, Resize(b, n, asked, cleared)
  PROVE  \/ /\ live' = live
            /\ \E out : Return(out) /\ Nothing(heap, carved, inside, AddrsOf(live), out)
         \/ \E D, end, c : Resized(b, n, asked, cleared, D, end, c)
<1> DEFINE A == AddrsOf(live)
           kept == IF b.kept < n THEN b.kept ELSE n
<1>1. AllGood(heap, carved, inside, live) /\ Good(heap, carved, inside, A)
  BY DEF KingsleyInv, AllGood
<1>2. b.addr \notin inside
  BY DEF Resize
<1>3. PICK out \in Malloc(heap, n) :
       IF out.ptr \in {NULL, Crash}
       THEN Return(out) /\ UNCHANGED live
       ELSE LET moved == Moved(b, out, n)
                end == IF cleared THEN Fill(moved, n, 0) ELSE moved
            IN  /\ Return(end)
                /\ live' = (live \ {b}) \union
                     {IF cleared THEN NewBlock(end, 1, asked, 0, n)
                      ELSE NewBlock(end, 1, asked, b.data, kept)}
  BY DEF Resize
<1>4. \/ Nothing(heap, carved, inside, A, out)
      \/ \E D, o : PlacedIn(heap, carved, inside, A, n, n, out, D, inside, o)
  BY <1>1, MallocServed
<1>5. CASE Nothing(heap, carved, inside, A, out)
  BY <1>3, <1>5 DEF Nothing
<1>6. CASE \E D, o : PlacedIn(heap, carved, inside, A, n, n, out, D, inside, o)
  <2>1. PICK D, o : PlacedIn(heap, carved, inside, A, n, n, out, D, inside, o)
    BY <1>6
  <2>2. out.ptr \notin {NULL, Crash} /\ carved \subseteq D
        /\ Grown(heap, carved, inside, A, out.heap, D)
    <3>1. IsPlaced(inside, A, n, n, out, D, inside, o)
      BY <2>1, PlacedFacts
    <3>2. Grown(heap, carved, inside, A, out.heap, D)
      BY <2>1 DEF PlacedIn
    <3> QED BY <3>1, <3>2 DEF IsPlaced, Grown
  <2>3. PICK p, k, u : /\ Moved(b, out, n) = Outcome(p, k)
                       /\ IsMoved(heap, carved, inside, live, b, n, D, p, k, u)
    BY <1>1, <1>2, <2>1, MovedGood
  <2>4. CASE cleared
    <3> DEFINE end == Fill(Outcome(p, k), n, 0)
               c == NewBlock(end, 1, asked, 0, n)
    <3>1. Return(end) /\ live' = (live \ {b}) \union {c}
      BY <1>3, <2>2, <2>3, <2>4
    <3>2. IsResized(heap, carved, inside, live, b, n, D, end, c)
      BY <1>1, <2>2, <2>3, ClearedGood
    <3>3. c.asked = asked /\ c.addr = end.ptr /\ c.data = 0 /\ c.kept = n
      BY DEF NewBlock
    <3> HIDE DEF end, c
    <3>4. Resized(b, n, asked, cleared, D, end, c)
      BY <2>2, <2>4, <3>1, <3>2, <3>3 DEF Resized
    <3> QED BY <3>4
  <2>5. CASE ~cleared
    <3> DEFINE end == Outcome(p, k)
               c == NewBlock(end, 1, asked, b.data, kept)
    <3>1. Return(end) /\ live' = (live \ {b}) \union {c}
      BY <1>3, <2>2, <2>3, <2>5
    <3>2. IsResized(heap, carved, inside, live, b, n, D, end, c)
      BY <1>1, <2>2, <2>3, KeptGood
    <3>3. c.asked = asked /\ c.addr = end.ptr /\ c.data = b.data /\ c.kept = kept
      BY DEF NewBlock
    <3> HIDE DEF end, c
    <3>4. Resized(b, n, asked, cleared, D, end, c)
      BY <2>2, <2>5, <3>1, <3>2, <3>3 DEF Resized
    <3> QED BY <3>4
  <2> QED BY <2>4, <2>5
<1> QED BY <1>4, <1>5, <1>6

LEMMA ResizeStep ==
  ASSUME KingsleyInv, ~ReallocAligned, NEW b \in live, NEW n \in Nat, NEW asked \in Nat,
         NEW cleared \in BOOLEAN, Resize(b, n, asked, cleared)
  PROVE  StepIsGood
<1>1. AllGood(heap, carved, inside, live) /\ Good(heap, carved, inside, AddrsOf(live))
  BY DEF KingsleyInv, AllGood
<1>2. inside' = inside
  BY DEF Resize
<1>3. ASSUME live' = live, NEW out, Return(out),
             Nothing(heap, carved, inside, AddrsOf(live), out)
      PROVE  StepIsGood
  BY <1>2, <1>3, NothingStep
<1>4. ASSUME NEW D, NEW end, NEW c, Resized(b, n, asked, cleared, D, end, c)
      PROVE  StepIsGood
  <2>1. IsResized(heap, carved, inside, live, b, n, D, end, c)
    BY <1>4 DEF Resized
  <2>2. AllGood(end.heap, D, inside, (live \ {b}) \union {c})
    BY <1>1, <2>1, ReplaceGood DEF IsResized, IsBlock
  <2>3. carved \union NewObjects(heap, end.heap) = D
    BY <1>1, <2>1, <2>2, NewObjectsAre DEF AllGood, IsResized
  <2>4. /\ heap' = end.heap /\ carved' = D /\ dead' \in BOOLEAN
        /\ live' = (live \ {b}) \union {c}
    BY <1>4, <2>3 DEF Resized, Return
  <2>5. Cut
    BY <1>4, <2>4 DEF Cut, Grown, Resized
  <2> QED BY <1>2, <2>2, <2>4, <2>5 DEF StepIsGood, KingsleyInv
<1> QED BY <1>3, <1>4, ResizeDid

(* The sizes clients ask for, and what NoWrap says of them. *)
LEMMA SizesAreNat ==
  /\ Requests \subseteq Nat /\ Alignments \subseteq Nat /\ Strings \subseteq Nat
  /\ Arrays \subseteq Nat \X Nat /\ NewAligned \subseteq Nat \X Nat
  /\ ElemSize \in Nat /\ PageSize \in Nat \ {0} /\ 2 * HalfRange \in Nat \ {0}
<1>1. SizeT \subseteq Nat
  BY DEF SizeT
<1>2. /\ Requests \subseteq SizeT /\ Alignments \subseteq SizeT /\ Strings \subseteq SizeT
      /\ Arrays \subseteq SizeT \X SizeT /\ NewAligned \subseteq SizeT \X SizeT
      /\ ElemSize \in SizeT /\ PageSize \in Nat \ {0} /\ HalfRange \in Nat \ {0}
  BY KingsleyAssumption
<1>3. \A S : S \subseteq SizeT \X SizeT => S \subseteq Nat \X Nat
  BY <1>1
<1>4. Requests \subseteq Nat /\ Alignments \subseteq Nat /\ Strings \subseteq Nat
  BY <1>1, <1>2
<1>5. ElemSize \in Nat /\ PageSize \in Nat \ {0}
  BY <1>1, <1>2
<1>6. 2 * HalfRange \in Nat \ {0}
  BY <1>2
<1> QED BY <1>2, <1>3, <1>4, <1>5, <1>6

LEMMA RoomyArguments ==
  ASSUME NoWrap
  PROVE  /\ \A a \in Alignments : Roomy(a)
         /\ Roomy(PageSize)
         /\ \A request \in NewAligned : Roomy(request[1])
BY DEF NoWrap, Roomy

(* Rounded up to whole pages, a size is still one. *)
LEMMA PagesDoNotWrap ==
  ASSUME NoWrap, NEW n \in Requests
  PROVE  /\ AlignUp(PageSize, n) % (2 * HalfRange) \in Nat
         /\ n <= AlignUp(PageSize, n) % (2 * HalfRange)
<1>1. n \in Nat /\ PageSize \in Nat \ {0} /\ 2 * HalfRange \in Nat \ {0}
  BY SizesAreNat
<1>2. PICK m : m = AlignUp(PageSize, n)
  OBVIOUS
<1>3. m \in Nat /\ n <= m /\ m < 2 * HalfRange
  BY <1>1, <1>2, AlignUpIs DEF NoWrap
<1>4. m % (2 * HalfRange) = m
  BY <1>1, <1>3, SmallMod
<1> QED BY <1>2, <1>3, <1>4

(* Every call of a client keeps the invariant. *)
LEMMA NextStep ==
  ASSUME KingsleyInv, ~ReallocAligned, NoWrap, Next
  PROVE  StepIsGood
<1>0. /\ Requests \subseteq Nat /\ Alignments \subseteq Nat /\ Strings \subseteq Nat
      /\ Arrays \subseteq Nat \X Nat /\ NewAligned \subseteq Nat \X Nat
      /\ ElemSize \in Nat /\ PageSize \in Nat \ {0} /\ 2 * HalfRange \in Nat \ {0}
  BY SizesAreNat
<1>1. ASSUME NEW n \in Requests, CallMalloc(n) \/ CallNew(n) PROVE StepIsGood
  BY <1>0, <1>1, MallocStep DEF CallNew
<1>2. ASSUME NEW n \in Requests, CallCalloc(n, ElemSize) PROVE StepIsGood
  BY <1>0, <1>2, CallocStep
<1>3. ASSUME NEW n \in Requests, CallValloc(n) PROVE StepIsGood
  <2>1. n \in Nat /\ n <= n + PageSize /\ PageSize \in Nat /\ Roomy(PageSize)
    BY <1>0, RoomyArguments
  <2> QED BY <1>3, <2>1, AlignedStep DEF CallValloc
<1>4. ASSUME NEW n \in Requests, CallPvalloc(n) PROVE StepIsGood
  <2> DEFINE m == AlignUp(PageSize, n) % (2 * HalfRange)
  <2>1. m \in Nat /\ n <= m /\ n \in Nat /\ PageSize \in Nat /\ Roomy(PageSize)
    BY <1>0, PagesDoNotWrap, RoomyArguments
  <2>2. Aligned(PageSize, m, PageSize, n)
    BY <1>4 DEF CallPvalloc
  <2> HIDE DEF m
  <2>3. n <= m + PageSize
    BY <2>1
  <2> QED BY <2>1, <2>2, <2>3, AlignedStep
<1>5. ASSUME NEW n \in Requests, NEW a \in Alignments, Aligned(a, n, a, n) PROVE StepIsGood
  <2>1. n \in Nat /\ a \in Nat /\ n <= n + a /\ Roomy(a)
    BY <1>0, RoomyArguments
  <2> QED BY <1>5, <2>1, AlignedStep
<1>6. ASSUME NEW n \in Strings, NEW x \in Data, CallStrdup(n, x) PROVE StepIsGood
  BY <1>0, <1>6, StrdupStep
<1>7. ASSUME NEW request \in NewAligned, CallNewAligned(request[1], request[2])
      PROVE  StepIsGood
  <2> DEFINE size == request[1]
             align == request[2]
  <2>1. size \in Nat /\ align \in Nat /\ Roomy(size)
    BY <1>0, RoomyArguments
  <2>2. Aligned(size, align, align, size)
    BY <1>7 DEF CallNewAligned
  <2> HIDE DEF size, align
  <2>3. size <= align + size
    BY <2>1
  <2> QED BY <2>1, <2>2, <2>3, AlignedStep
<1>8. ASSUME NEW b \in live, CallFree(b) PROVE StepIsGood
  BY <1>8, FreeStep
<1>9. ASSUME NEW b \in live, NEW n \in Nat, CallRealloc(b, n) PROVE StepIsGood
  BY <1>8, <1>9, ResizeStep DEF CallRealloc
<1>10. ASSUME NEW b \in live, NEW n \in Nat, CallRecalloc(b, n, ElemSize) PROVE StepIsGood
  <2> DEFINE m == (n * ElemSize) % (2 * HalfRange)
  <2>1. m \in Nat /\ n * ElemSize \in Nat
    BY <1>0
  <2> HIDE DEF m
  <2>2. CallFree(b) \/ Resize(b, m, n * ElemSize, TRUE)
    BY <1>10 DEF CallRecalloc, m
  <2> QED BY <1>8, <2>1, <2>2, ResizeStep
<1>11. ASSUME NEW b \in live, NEW array \in Arrays, CallReallocarray(b, array[1], array[2])
       PROVE  StepIsGood
  <2>1. array[1] * array[2] \in Nat
    BY <1>0
  <2>2. CallRealloc(b, array[1] * array[2])
    BY <1>11 DEF CallReallocarray
  <2> QED BY <1>9, <2>1, <2>2
<1>12. ASSUME NEW b \in live, NEW x \in Data, ClientWrite(b, x) PROVE StepIsGood
  BY <1>12, WriteStep
<1>13. ASSUME NEW n \in Requests, NEW a \in Alignments,
              CallMemalign(a, n) \/ CallPosixMemalign(a, n) \/ CallAlignedAlloc(a, n)
       PROVE  StepIsGood
  BY <1>5, <1>13 DEF CallMemalign, CallPosixMemalign, CallAlignedAlloc
<1> QED BY <1>0, <1>1, <1>2, <1>3, <1>4, <1>6, <1>7, <1>8, <1>9, <1>10, <1>11, <1>12, <1>13
        DEF Next

(* The allocator starts with no memory and empty bins. *)
LEMMA InitIsGood ==
  ASSUME Init
  PROVE  KingsleyInv
<1>1. /\ live = {} /\ carved = {} /\ inside = {} /\ dead = FALSE
      /\ heap.arenas = {} /\ heap.arena = NULL /\ heap.space = NULL /\ heap.left = 0
      /\ heap = [mem |-> heap.mem, arenas |-> heap.arenas, arena |-> heap.arena,
                 space |-> heap.space, left |-> heap.left]
  BY DEF Init
<1>2. heap.mem = [a \in Address |->
                    IF a \in Word THEN 0 ELSE IF a \in Heads THEN a ELSE a - 1]
  BY DEF Init
<1>3. \A h \in Heads : h \in Int
  BY HeadFacts DEF Heads
<1>4. \A a \in Address : heap.mem[a] \in Int
  <2>1. \A a \in Address : a \in Word \/ a \in Heads \/ a - 1 \in Int
    BY <1>3 DEF Address, NextOf
  <2> QED BY <1>2, <1>3, <2>1
<1>5. heap \in HeapType
  <2>1. heap.mem \in [Address -> Values]
    BY <1>2, <1>4 DEF Values
  <2> QED BY <1>1, <2>1 DEF HeapType, NULL
<1>6. ArenasInv(heap) /\ ObjectsInv(heap, carved) /\ UsersInv(carved, inside, {})
  BY <1>1 DEF ArenasInv, ObjectsInv, UsersInv
<1>7. HeadersInv(heap, carved)
  BY <1>1, <1>4, KingsleyAssumption DEF HeadersInv
<1>8. ASSUME NEW c \in Bins PROVE IsRing(heap.mem, Head(c), Free(c, carved, inside, {}))
  <2>1. Free(c, carved, inside, {}) = {}
    BY <1>1 DEF Free
  <2>2. /\ Head(c) \in Address /\ NextOf(Head(c)) \in Address /\ NextOf(Head(c)) < 0
        /\ Head(c) \in Int /\ Head(c) < -1
        /\ \A d \in Bins : Head(d) # NextOf(Head(c))
    BY HeadFacts
  <2>3. Head(c) \in Heads /\ NextOf(Head(c)) \notin Heads
    BY <2>2 DEF Heads
  <2>4. Head(c) \notin Word /\ NextOf(Head(c)) \notin Word
    BY <2>2 DEF Word
  <2>5. heap.mem[Head(c)] = Head(c) /\ heap.mem[NextOf(Head(c))] = Head(c)
    <3>1. NextOf(Head(c)) - 1 = Head(c)
      BY <2>2 DEF NextOf
    <3> QED BY <1>2, <2>2, <2>3, <2>4, <3>1
  <2>6. IsRing(heap.mem, Head(c), {})
    BY <2>5 DEF IsRing
  <2> QED BY <2>1, <2>6
<1>9. AddrsOf(live) = {} /\ BlocksInv(heap, carved, inside, live)
  BY <1>1 DEF AddrsOf, BlocksInv
<1> QED BY <1>1, <1>5, <1>6, <1>7, <1>8, <1>9 DEF KingsleyInv, AllGood, Good, RingsInv

(* The invariant holds, and no step cuts what it need not, for sizes and   *)
(* alignments whose sums do not wrap.                                      *)
THEOREM KingsleyInvariant ==
  ASSUME ~ReallocAligned, NoWrap
  PROVE  Spec => []KingsleyInv /\ [][Cut]_vars
<1>1. Init => KingsleyInv
  BY InitIsGood
<1>2. KingsleyInv /\ [Next]_vars => KingsleyInv' /\ [Cut]_vars
  <2> SUFFICES ASSUME KingsleyInv, [Next]_vars PROVE KingsleyInv' /\ [Cut]_vars
    OBVIOUS
  <2>1. CASE Next
    BY <2>1, NextStep DEF StepIsGood
  <2>2. CASE UNCHANGED vars
    BY <2>2 DEF vars, KingsleyInv
  <2> QED BY <2>1, <2>2
<1> QED BY <1>1, <1>2, PTL DEF Spec

-----------------------------------------------------------------------------
(* What the invariant says: the properties of the module.                  *)

LEMMA InvWords ==
  ASSUME KingsleyInv, NEW b \in live
  PROVE  /\ b \in Blocks /\ b.kept <= b.size /\ b.addr \in AddrsOf(live)
         /\ \E o \in carved : Holds(o, b.addr) /\ b.addr + b.size <= o[1] + o[2]
         /\ \A i \in 0 .. b.kept - 1 : heap.mem[b.addr + i] = b.data
BY DEF KingsleyInv, AllGood, BlocksInv, BlockInv, AddrsOf

(* The state keeps its types: the zone's counters never run below nothing, *)
(* and a block never has more of its client's words than it has words.     *)
THEOREM KingsleyTypes ==
  ASSUME ~ReallocAligned, NoWrap
  PROVE  Spec => []TypeOK
<1>1. KingsleyInv => TypeOK
  <2> SUFFICES ASSUME KingsleyInv PROVE TypeOK
    OBVIOUS
  <2>1. Good(heap, carved, inside, AddrsOf(live)) /\ dead \in BOOLEAN
    BY DEF KingsleyInv, AllGood
  <2>2. /\ DOMAIN heap.mem = Address
        /\ heap.arena \in ArenaAddrs \union {NULL} /\ heap.left \in Nat
    BY <2>1 DEF Good, HeapType
  <2>3. \A b \in live : b.addr \in Word /\ b.size \in Nat /\ b.kept \in 0 .. b.size
    BY InvWords DEF Blocks
  <2>4. carved \subseteq Word \X Nat
    BY <2>1 DEF Good, ObjectsInv
  <2>5. inside \subseteq Word
    BY <2>1, HeldWords DEF Good, UsersInv
  <2> QED BY <2>1, <2>2, <2>3, <2>4, <2>5 DEF TypeOK
<1> QED BY <1>1, KingsleyInvariant, PTL

(* Each bin's links, which lie in memory that clients wrote before and     *)
(* will write again, are one ring through its head and exactly the free    *)
(* objects of its size, however many bins and objects there are.           *)
THEOREM KingsleyLists ==
  ASSUME ~ReallocAligned, NoWrap
  PROVE  Spec => []ListsAreIntact
<1>1. KingsleyInv => ListsAreIntact
  <2> SUFFICES ASSUME KingsleyInv PROVE ListsAreIntact
    OBVIOUS
  <2>1. RingsInv(heap, carved, inside, AddrsOf(live))
    BY DEF KingsleyInv, AllGood, Good
  <2>2. ASSUME NEW c \in Bins PROVE FreeIn(c) = Free(c, carved, inside, AddrsOf(live))
    BY DEF FreeIn, Free, AddrsOf
  <2> QED BY <2>1, <2>2 DEF ListsAreIntact, RingsInv, IsRing
<1> QED BY <1>1, KingsleyInvariant, PTL

(* Objects with their headers lie side by side in arenas, and no call,     *)
(* client or list ever overwrote a header.                                 *)
THEOREM KingsleyArenas ==
  ASSUME ~ReallocAligned, NoWrap
  PROVE  Spec => []ArenasHoldObjects
<1>1. KingsleyInv => ArenasHoldObjects
  <2> SUFFICES ASSUME KingsleyInv PROVE ArenasHoldObjects
    OBVIOUS
  <2> DEFINE Full(o) == o[1] - SizeHeader .. o[1] + o[2] - 1
             free == heap.space .. heap.space + heap.left - 1
             Usable(m) == m[1] + ArenaHeader .. m[1] + m[2] - 1
  <2>1. Good(heap, carved, inside, AddrsOf(live))
    BY DEF KingsleyInv, AllGood
  <2>2. \A m \in heap.arenas : m[1] \in Int /\ m[2] \in Int
    BY <2>1 DEF Good, HeapType, Word
  <2>3. heap.space \in Int /\ heap.left \in Int
    BY <2>1 DEF Good, HeapType
  <2>4. ASSUME NEW o \in carved
        PROVE  /\ heap.mem[o[1] - 2] = o[2] /\ heap.mem[o[1] - 1] = Magic
               /\ \E m \in heap.arenas : Full(o) \subseteq Usable(m)
               /\ heap.arena # NULL => Full(o) \intersect free = {}
               /\ \A p \in carved : p # o => Full(o) \intersect Full(p) = {}
    <3>1. o[1] \in Int /\ o[2] \in Int
      BY <2>1, ObjectFacts
    <3>2. heap.mem[o[1] - 2] = o[2] /\ heap.mem[o[1] - 1] = Magic
      BY <2>1 DEF Good, HeadersInv
    <3>3. \E m \in heap.arenas : Full(o) \subseteq Usable(m)
      <4>1. PICK m \in heap.arenas : Within(o, m)
        BY <2>1 DEF Good, ObjectsInv
      <4>2. Full(o) \subseteq Usable(m)
        BY <2>2, <3>1, <4>1 DEF Within, SizeHeader, ArenaHeader
      <4> QED BY <4>2
    <3>4. heap.arena # NULL => Full(o) \intersect free = {}
      <4>1. heap.arena # NULL =>
              o[1] + o[2] <= heap.space \/ heap.space + heap.left <= o[1] - SizeHeader
        BY <2>1 DEF Good, ObjectsInv
      <4> QED BY <2>3, <3>1, <4>1 DEF SizeHeader
    <3>5. ASSUME NEW p \in carved, p # o PROVE Full(o) \intersect Full(p) = {}
      <4>1. Before(o, p) \/ Before(p, o)
        BY <2>1, <3>5 DEF Good, ObjectsInv
      <4>2. p[1] \in Int /\ p[2] \in Int
        BY <2>1, ObjectFacts
      <4> QED BY <3>1, <4>1, <4>2 DEF Before, SizeHeader
    <3> QED BY <3>2, <3>3, <3>4, <3>5
  <2>5. heap.arena # NULL => \E m \in heap.arenas : m[1] = heap.arena /\ free \subseteq Usable(m)
    <3> SUFFICES ASSUME heap.arena # NULL
                 PROVE  \E m \in heap.arenas : m[1] = heap.arena /\ free \subseteq Usable(m)
      OBVIOUS
    <3>1. PICK m \in heap.arenas :
            /\ m[1] = heap.arena
            /\ m[1] + ArenaHeader <= heap.space /\ heap.space + heap.left <= m[1] + m[2]
      BY <2>1 DEF Good, ArenasInv
    <3>2. free \subseteq Usable(m)
      BY <2>2, <2>3, <3>1 DEF ArenaHeader
    <3> QED BY <3>1, <3>2
  <2> QED BY <2>4, <2>5 DEF ArenasHoldObjects
<1> QED BY <1>1, KingsleyInvariant, PTL

(* What memalign shifts fits the object it asked for, and no two clients   *)
(* share an object, for every sequence of calls and all sizes and          *)
(* alignments but those whose sums wrap.                                   *)
THEOREM KingsleyBlocks ==
  ASSUME ~ReallocAligned, NoWrap
  PROVE  Spec => []BlocksInObjects
<1>1. KingsleyInv => BlocksInObjects
  <2> SUFFICES ASSUME KingsleyInv, NEW b \in live
               PROVE  \E o \in carved :
                        /\ Holds(o, b.addr) /\ b.addr + b.size <= o[1] + o[2]
                        /\ \A c \in live : Holds(o, c.addr) => c = b
    BY DEF BlocksInObjects
  <2>1. PICK o \in carved : Holds(o, b.addr) /\ b.addr + b.size <= o[1] + o[2]
    BY InvWords
  <2>2. ASSUME NEW c \in live, Holds(o, c.addr) PROVE c = b
    <3>1. b.addr \in AddrsOf(live) /\ c.addr \in AddrsOf(live)
      BY InvWords
    <3>2. c.addr = b.addr
      BY <2>1, <2>2, <3>1 DEF KingsleyInv, AllGood, Good, UsersInv
    <3> QED BY <3>2 DEF KingsleyInv, AllGood, BlocksInv
  <2> QED BY <2>1, <2>2
<1> QED BY <1>1, KingsleyInvariant, PTL

(* What a client wrote in its block stays until it frees it, over every    *)
(* call of others and through its own calls of realloc.                    *)
THEOREM KingsleyContents ==
  ASSUME ~ReallocAligned, NoWrap
  PROVE  Spec => []ContentsKept
<1>1. KingsleyInv => ContentsKept
  BY InvWords DEF ContentsKept
<1> QED BY <1>1, KingsleyInvariant, PTL

(* An object is only cut from an arena when the bin for it is empty: free  *)
(* objects of a class are all used again before the heap grows for it.     *)
THEOREM KingsleyReuse ==
  ASSUME ~ReallocAligned, NoWrap
  PROVE  Spec => ReuseFirst
<1> DEFINE Reuse == \A o \in carved' \ carved : \A c \in Bins :
                      Class2Size[c] = o[2] => IsEmpty(heap, c)
<1>1. KingsleyInv /\ [Cut]_vars => [Reuse]_vars
  <2> SUFFICES ASSUME KingsleyInv, Cut, NEW o \in carved' \ carved, NEW c \in Bins,
                      Class2Size[c] = o[2]
               PROVE  IsEmpty(heap, c)
    OBVIOUS
  <2>1. Free(c, carved, inside, AddrsOf(live)) = {}
    BY DEF Cut
  <2>2. IsRing(heap.mem, Head(c), {})
    BY <2>1 DEF KingsleyInv, AllGood, Good, RingsInv
  <2>3. heap.mem[NextOf(Head(c))] = Head(c)
    BY <2>2, RingEmpty
  <2> QED BY <2>3 DEF IsEmpty, First
<1>2. Spec => [][Reuse]_vars
  <2> HIDE DEF Reuse
  <2> QED BY <1>1, KingsleyInvariant, PTL
<1> QED BY <1>2 DEF ReuseFirst

-----------------------------------------------------------------------------
(* The contract.                                                           *)

(* The calls for which the shipped allocator keeps it.  The others are the *)
(* findings on alignments of two words, which memalign takes for granted,  *)
(* the aligned new, whose arguments reach memalign in the other order, and *)
(* recalloc, whose product may wrap to less than was asked.  Sums that     *)
(* wrap are NoWrap's.                                                      *)
Regular ==
  /\ 2 \notin Alignments /\ PageSize # 2
  /\ \A r \in NewAligned : IsPowerOf2(r[1]) => r[1] = r[2] /\ r[1] # 2
  /\ \A n \in Requests \union {0} :
       (n * ElemSize) % (2 * HalfRange) \in {0, n * ElemSize}

(* Blocks of different clients share no word. *)
LEMMA BlocksApart ==
  ASSUME NEW h, NEW C, NEW I, NEW L, AllGood(h, C, I, L), NEW b \in L, NEW c \in L, b # c
  PROVE  Contract!Disjoint(b, c)
<1>1. ASSUME NEW d \in L
      PROVE  /\ d.addr \in Int /\ d.size \in Int /\ d.addr \in AddrsOf(L)
             /\ \E o \in C : Holds(o, d.addr) /\ d.addr + d.size <= o[1] + o[2]
  BY DEF AllGood, BlocksInv, BlockInv, Blocks, Word, AddrsOf
<1>2. PICK o \in C : Holds(o, b.addr) /\ b.addr + b.size <= o[1] + o[2]
  BY <1>1
<1>3. PICK q \in C : Holds(q, c.addr) /\ c.addr + c.size <= q[1] + q[2]
  BY <1>1
<1>4. Good(h, C, I, AddrsOf(L))
  BY DEF AllGood
<1>5. o # q
  <2>1. b.addr # c.addr
    BY DEF AllGood, BlocksInv
  <2>2. b.addr \in AddrsOf(L) /\ c.addr \in AddrsOf(L)
    BY <1>1
  <2> QED BY <1>2, <1>3, <1>4, <2>1, <2>2 DEF Good, UsersInv
<1>6. o[1] \in Int /\ o[2] \in Int /\ q[1] \in Int /\ q[2] \in Int
  BY <1>4, ObjectFacts
<1>7. \A w \in b.addr .. b.addr + b.size - 1 : Holds(o, w)
  BY <1>1, <1>2, <1>6 DEF Holds
<1>8. \A w \in c.addr .. c.addr + c.size - 1 : Holds(q, w)
  BY <1>1, <1>3, <1>6 DEF Holds
<1>9. \A w : ~(Holds(o, w) /\ Holds(q, w))
  BY <1>4, <1>5, OneHolder
<1> QED BY <1>7, <1>8, <1>9 DEF Contract!Disjoint, Contract!Words

(* Blocks that are new are as large and as aligned as asked. *)
Serves(c) == c.addr % c.align = 0 /\ c.size >= c.asked

LEMMA GiveStep ==
  ASSUME KingsleyInv, KingsleyInv', NEW c, live' = live \union {c}, Serves(c)
  PROVE  Contract!Give \/ live' = live
<1>1. CASE c \in live
  BY <1>1
<1>2. CASE c \notin live
  <2>1. c \in live'
    OBVIOUS
  <2>2. \A b \in live' : b \in Blocks /\ b.kept <= b.size
    BY DEF KingsleyInv, AllGood, BlocksInv, BlockInv
  <2>3. c.addr # 0 /\ c.data \in Data \union {0} /\ c.kept <= c.size
    BY <2>1, <2>2 DEF Blocks, Word
  <2>4. ASSUME NEW d \in live PROVE Contract!Disjoint(c, d)
    <3>1. d \in live' /\ c # d
      BY <1>2
    <3>2. AllGood(heap', carved', inside', live')
      BY DEF KingsleyInv
    <3> QED BY <2>1, <3>1, <3>2, BlocksApart
  <2> QED BY <2>1, <2>3, <2>4 DEF Contract!Give, Serves, Contract!Zero
<1> QED BY <1>1, <1>2

SizedAt(out, n) ==
  /\ out.ptr \notin {NULL, Crash} /\ out.ptr \in Nat
  /\ GetSize(out.heap, out.ptr) \in Nat \ {0} /\ n <= GetSize(out.heap, out.ptr)

LEMMA PlacedSized ==
  ASSUME NEW h, NEW C, NEW I, NEW A, NEW n, NEW m, NEW out, NEW D, NEW o,
         PlacedIn(h, C, I, A, n, m, out, D, I, o)
  PROVE  SizedAt(out, n)
<1>1. IsPlaced(I, A, n, m, out, D, I, o)
  BY PlacedFacts
<1>2. /\ Good(out.heap, D, I, A \union {out.ptr}) /\ o \in D /\ out.ptr \notin {NULL, Crash}
      /\ out.ptr = o[1] /\ n <= o[2]
  BY <1>1 DEF IsPlaced
<1>3. GetSize(out.heap, out.ptr) = o[2] /\ o[1] \in Nat /\ o[2] \in Nat \ {0}
  BY <1>2, SizeOfObject, ObjectFacts
<1> QED BY <1>2, <1>3 DEF SizedAt

LEMMA SizedServes ==
  ASSUME NEW out, NEW n \in Nat, SizedAt(out, n), NEW asked \in Nat, asked <= n, NEW x, NEW kept
  PROVE  Serves(NewBlock(out, 1, asked, x, kept))
<1> DEFINE c == NewBlock(out, 1, asked, x, kept)
           p == out.ptr
<1>1. c.addr = p /\ c.align = 1 /\ c.asked = asked /\ c.size = GetSize(out.heap, out.ptr)
  BY DEF NewBlock, SizedAt
<1>2. p \in Nat /\ asked <= GetSize(out.heap, out.ptr)
  BY DEF SizedAt
<1> HIDE DEF c, p
<1>3. p % 1 = 0
  BY <1>2
<1> QED BY <1>1, <1>2, <1>3 DEF Serves, c

(* malloc, new, calloc and strdup give blocks as large as asked. *)
LEMMA MallocGives ==
  ASSUME KingsleyInv, KingsleyInv', NEW n \in Nat, CallMalloc(n)
  PROVE  Contract!Give \/ live' = live
<1>1. PICK out \in Malloc(heap, n) : Deliver(out, 1, n, 0, 0)
  BY DEF CallMalloc
<1>2. \/ Nothing(heap, carved, inside, AddrsOf(live), out)
      \/ \E D, o : PlacedIn(heap, carved, inside, AddrsOf(live), n, n, out, D, inside, o)
  BY MallocServed DEF KingsleyInv, AllGood
<1>3. CASE Nothing(heap, carved, inside, AddrsOf(live), out)
  BY <1>1, <1>3 DEF Nothing, Deliver
<1>4. CASE \E D, o : PlacedIn(heap, carved, inside, AddrsOf(live), n, n, out, D, inside, o)
  <2> DEFINE c == NewBlock(out, 1, n, 0, 0)
  <2>1. SizedAt(out, n)
    BY <1>4, PlacedSized
  <2>2. live' = live \union {c}
    BY <1>1, <2>1 DEF Deliver, SizedAt
  <2>3. Serves(c)
    BY <2>1, SizedServes
  <2> HIDE DEF c
  <2> QED BY <2>2, <2>3, GiveStep
<1> QED BY <1>2, <1>3, <1>4

LEMMA FilledGives ==
  ASSUME KingsleyInv, KingsleyInv', NEW n \in Nat, NEW x \in Data \union {0},
         NEW out \in Malloc(heap, n),
         NEW end, end = IF out.ptr \in {NULL, Crash} THEN out ELSE Fill(out, n, x),
         Deliver(end, 1, n, x, n)
  PROVE  Contract!Give \/ live' = live
<1>1. \/ Nothing(heap, carved, inside, AddrsOf(live), out)
      \/ \E D, o : PlacedIn(heap, carved, inside, AddrsOf(live), n, n, out, D, inside, o)
  BY MallocServed DEF KingsleyInv, AllGood
<1>2. CASE Nothing(heap, carved, inside, AddrsOf(live), out)
  BY <1>2 DEF Nothing, Deliver
<1>3. CASE \E D, o : PlacedIn(heap, carved, inside, AddrsOf(live), n, n, out, D, inside, o)
  <2> DEFINE c == NewBlock(end, 1, n, x, n)
  <2>1. PICK D, o : PlacedIn(heap, carved, inside, AddrsOf(live), n, n, out, D, inside, o)
    BY <1>3
  <2>2. end = Fill(out, n, x)
    BY <2>1, PlacedSized DEF SizedAt
  <2>3. PICK p, k : out = Outcome(p, k)
    BY MallocOutcome
  <2>4. PlacedIn(heap, carved, inside, AddrsOf(live), n, n, end, D, inside, o)
    <3>1. PlacedIn(heap, carved, inside, AddrsOf(live), n, n, Fill(out, n, x), D, inside, o)
      BY <2>1, <2>3, FillPlaced
    <3> QED BY <2>2, <3>1
  <2>5. SizedAt(end, n)
    BY <2>4, PlacedSized
  <2>6. live' = live \union {c}
    BY <2>5 DEF Deliver, SizedAt
  <2>7. Serves(c)
    BY <2>5, SizedServes
  <2> HIDE DEF c
  <2> QED BY <2>6, <2>7, GiveStep
<1> QED BY <1>1, <1>2, <1>3

LEMMA CallocGives ==
  ASSUME KingsleyInv, KingsleyInv', NEW count \in Nat, NEW size \in Nat, CallCalloc(count, size)
  PROVE  Contract!Give \/ live' = live
<1> DEFINE n == (count * size) % (2 * HalfRange)
<1>1. PICK end \in Calloc(heap, count, size) : Deliver(end, 1, count * size, 0, count * size)
  BY DEF CallCalloc
<1>2. CASE size # 0 /\ count # n \div size
  <2>1. end = Outcome(NULL, heap)
    BY <1>1, <1>2 DEF Calloc
  <2> QED BY <1>1, <2>1 DEF Outcome, Deliver
<1>3. CASE ~(size # 0 /\ count # n \div size)
  <2>1. PICK out \in Malloc(heap, n) :
          end = IF out.ptr \in {NULL, Crash} THEN out ELSE Fill(out, n, 0)
    BY <1>1, <1>3 DEF Calloc
  <2>2. 2 * HalfRange \in Nat \ {0}
    BY KingsleyAssumption
  <2>3. n = count * size
    <3> DEFINE M == 2 * HalfRange
               q == (count * size) % M
    <3>1. M \in Nat \ {0} /\ (size = 0 \/ count = q \div size) /\ q = (count * size) % M
      BY <1>3, <2>2
    <3> HIDE DEF M, q
    <3>2. q = count * size
      BY <3>1, ProductIs
    <3> QED BY <3>2 DEF M, q
  <2>4. n \in Nat /\ 0 \in Data \union {0}
    BY <2>3
  <2>5. Deliver(end, 1, n, 0, n)
    BY <1>1, <2>3
  <2> HIDE DEF n
  <2> QED BY <2>1, <2>4, <2>5, FilledGives
<1> QED BY <1>2, <1>3

LEMMA StrdupGives ==
  ASSUME KingsleyInv, KingsleyInv', NEW n \in Nat, NEW x \in Data, CallStrdup(n, x)
  PROVE  Contract!Give \/ live' = live
<1>1. PICK out \in Malloc(heap, n) :
        LET end == IF out.ptr \in {NULL, Crash} THEN out ELSE Fill(out, n, x)
        IN  Return(end) /\ Deliver(end, 1, n, x, n)
  BY DEF CallStrdup
<1> DEFINE end == IF out.ptr \in {NULL, Crash} THEN out ELSE Fill(out, n, x)
<1>2. Deliver(end, 1, n, x, n) /\ x \in Data \union {0}
  BY <1>1
<1> QED BY <1>2, FilledGives

(* What memalign returns is aligned, unless two words were asked for. *)
LEMMA MemalignIsAligned ==
  ASSUME NEW h, NEW C, NEW I, NEW A, Good(h, C, I, A), NEW a \in Nat, NEW n \in Nat,
         Roomy(a), NEW out \in Memalign(h, a, n), IsPowerOf2(a), a # 2, out.ptr \notin {NULL, Crash}
  PROVE  out.ptr % a = 0
<1>1. out.ptr \in Nat
  <2>1. PICK D, J, o : PlacedIn(h, C, I, A, n, n + a, out, D, J, o)
    BY MemalignServed DEF Served, Nothing
  <2>2. Good(out.heap, D, J, A \union {out.ptr}) /\ out.ptr \in A \union {out.ptr}
    BY <2>1 DEF PlacedIn
  <2>3. out.ptr \in Int /\ out.ptr >= 6
    BY <2>2, UserHome
  <2> QED BY <2>3
<1>2. a # 0
  <2>1. \A c \in 0 .. a : Class2Size[c] # 0
    BY ClassType
  <2> QED BY <2>1 DEF IsPowerOf2
<1>3. CASE a <= MemAlign
  <2>1. a = 1
    BY <1>2, <1>3 DEF MemAlign
  <2> DEFINE p == out.ptr
  <2>2. p \in Nat
    BY <1>1
  <2> HIDE DEF p
  <2>3. p % 1 = 0
    BY <2>2
  <2> QED BY <2>1, <2>3 DEF p
<1>4. CASE ~(a <= MemAlign)
  <2>1. a \in Nat \ {0} /\ n + 2 * a \in Nat
    BY <1>2
  <2> DEFINE big == (n + 2 * a) % (2 * HalfRange)
  <2>2. out \in UNION {IF try.ptr \in {NULL, Crash} \/ try.ptr % a = 0 THEN {try}
                ELSE {Shifted(a, o) : o \in Malloc(FreeObject(try.heap, try.ptr), big)} :
                  try \in Malloc(h, n)}
    BY <1>4 DEF Memalign, Shifted
  <2>3. PICK try \in Malloc(h, n) :
          out \in IF try.ptr \in {NULL, Crash} \/ try.ptr % a = 0 THEN {try}
                 ELSE {Shifted(a, o) : o \in Malloc(FreeObject(try.heap, try.ptr), big)}
    BY <2>2
  <2>4. CASE out = try /\ (try.ptr \in {NULL, Crash} \/ try.ptr % a = 0)
    BY <2>4
  <2>5. CASE /\ try.ptr \notin {NULL, Crash}
             /\ out \in {Shifted(a, o) : o \in Malloc(FreeObject(try.heap, try.ptr), big)}
    <3> DEFINE k == FreeObject(try.heap, try.ptr)
    <3>1. big = n + 2 * a
      BY <2>3, <2>5, SumDoesNotWrap
    <3>2. PICK o \in Malloc(k, n + 2 * a) : out = Shifted(a, o)
      BY <2>5, <3>1
    <3>3. PICK D, u : PlacedIn(h, C, I, A, n, n + a, try, D, I, u)
      BY <2>5, MallocServed DEF Nothing
    <3>4. Good(k, D, I, A)
      BY <3>3, TryGoesBack
    <3> HIDE DEF k
    <3>5. PICK p, l : o = Outcome(p, l)
      BY <2>1, <3>2, MallocOutcome
    <3>6. o.ptr = p
      BY <3>5 DEF Outcome
    <3>7. out.ptr = IF p \in {NULL, Crash} THEN p ELSE AlignUp(a, p)
      BY <3>2, <3>5, ShiftedFields
    <3>8. p \notin {NULL, Crash} /\ out.ptr = AlignUp(a, p)
      BY <3>7
    <3>9. o.ptr \in Nat
      <4>1. \/ Nothing(k, D, I, A, o)
            \/ \E E, q : PlacedIn(k, D, I, A, n + 2 * a, n + 2 * a, o, E, I, q)
        BY <2>1, <3>2, <3>4, MallocServed
      <4>2. \E E, q : PlacedIn(k, D, I, A, n + 2 * a, n + 2 * a, o, E, I, q)
        BY <3>6, <3>8, <4>1 DEF Nothing
      <4> QED BY <4>2, PlacedSized DEF SizedAt
    <3>10. AlignUp(a, p) % a = 0
      BY <2>1, <3>6, <3>9, AlignUpIs
    <3> QED BY <3>8, <3>10
  <2> QED BY <2>3, <2>4, <2>5
<1> QED BY <1>3, <1>4

LEMMA AlignedGives ==
  ASSUME KingsleyInv, KingsleyInv', NEW a \in Nat, NEW n \in Nat, NEW align, NEW size \in Nat,
         IsPowerOf2(a) => align = a /\ a # 2 /\ size <= n, Roomy(a), Aligned(a, n, align, size)
  PROVE  Contract!Give \/ live' = live
<1>1. PICK out \in Memalign(heap, a, n) : Deliver(out, align, size, 0, 0)
  BY DEF Aligned
<1>2. Good(heap, carved, inside, AddrsOf(live))
  BY DEF KingsleyInv, AllGood
<1>3. CASE out.ptr \in {NULL, Crash}
  BY <1>1, <1>3 DEF Deliver
<1>4. CASE out.ptr \notin {NULL, Crash}
  <2> DEFINE c == NewBlock(out, align, size, 0, 0)
  <2>1. IsPowerOf2(a)
    <3>1. SUFFICES ASSUME ~IsPowerOf2(a) PROVE FALSE
      OBVIOUS
    <3>2. out = Outcome(NULL, heap)
      BY <1>1, <3>1 DEF Memalign
    <3> QED BY <1>4, <3>2 DEF Outcome
  <2>2. PICK D, J, o : PlacedIn(heap, carved, inside, AddrsOf(live), n, n + a, out, D, J, o)
    BY <1>2, <1>4, MemalignServed DEF Served, Nothing
  <2>3. GetSize(out.heap, out.ptr) = 0 \/
          (GetSize(out.heap, out.ptr) \in Nat /\ n <= GetSize(out.heap, out.ptr))
    <3>1. IsPlaced(inside, AddrsOf(live), n, n + a, out, D, J, o)
      BY <2>2, PlacedFacts
    <3>2. /\ Good(out.heap, D, J, AddrsOf(live) \union {out.ptr}) /\ o \in D
          /\ out.ptr = o[1] => n <= o[2]
          /\ out.ptr # o[1] => out.ptr \in J
      BY <3>1 DEF IsPlaced
    <3>3. o[2] \in Nat
      BY <3>2, ObjectFacts
    <3>4. CASE out.ptr = o[1]
      BY <3>2, <3>3, <3>4, SizeOfObject
    <3>5. CASE out.ptr # o[1]
      BY <3>2, <3>5, SizeOfMoved
    <3> QED BY <3>4, <3>5
  <2>4. c.addr = out.ptr /\ c.align = align /\ c.asked = size /\ size <= c.size
    BY <2>1, <2>3 DEF NewBlock
  <2>5. out.ptr % a = 0
    BY <1>2, <1>4, <2>1, MemalignIsAligned
  <2>6. live' = live \union {c}
    BY <1>1, <1>4 DEF Deliver
  <2> HIDE DEF c
  <2>7. c.size \in Int /\ c.asked \in Int
    <3>1. c \in live'
      BY <2>6
    <3>2. c \in Blocks
      BY <3>1 DEF KingsleyInv, AllGood, BlocksInv, BlockInv
    <3> QED BY <3>2 DEF Blocks
  <2>8. Serves(c)
    BY <2>1, <2>4, <2>5, <2>7 DEF Serves
  <2> QED BY <2>6, <2>8, GiveStep
<1> QED BY <1>3, <1>4

(* A resized block is as large as asked, where no other client is, and has *)
(* what fits of its contents, or is cleared.                               *)
LEMMA ResizeGives ==
  ASSUME KingsleyInv, KingsleyInv', ~ReallocAligned, NEW b \in live, NEW n \in Nat,
         NEW asked \in Nat, asked <= n, NEW cleared \in BOOLEAN, Resize(b, n, asked, cleared)
  PROVE  Contract!Realloc \/ Contract!Recalloc \/ live' = live
<1>1. CASE live' = live
  BY <1>1
<1>2. CASE \E D, end, c : Resized(b, n, asked, cleared, D, end, c)
  <2>1. PICK D, end, c : Resized(b, n, asked, cleared, D, end, c)
    BY <1>2
  <2>2. /\ live' = (live \ {b}) \union {c}
        /\ IsResized(heap, carved, inside, live, b, n, D, end, c)
        /\ c.asked = asked /\ c.addr = end.ptr
        /\ cleared => c.data = 0 /\ c.kept = n
        /\ ~cleared => c.data = b.data /\ c.kept = IF b.kept < n THEN b.kept ELSE n
    BY <2>1 DEF Resized
  <2>3. c.addr \notin AddrsOf(live) \ {b.addr} /\ n <= c.size
    BY <2>2 DEF IsResized
  <2>4. AllGood(heap', carved', inside', live') /\ c \in live'
    BY <2>2 DEF KingsleyInv
  <2>5. c \in Blocks /\ b \in Blocks
    BY <2>4 DEF KingsleyInv, AllGood, BlocksInv, BlockInv
  <2>6. c.addr # 0 /\ c.size \in Nat /\ c.size >= c.asked /\ b.kept \in Nat
    BY <2>2, <2>3, <2>5 DEF Blocks, Word
  <2>7. ASSUME NEW d \in live \ {b} PROVE Contract!Disjoint(c, d)
    <3>1. d.addr # b.addr
      BY DEF KingsleyInv, AllGood, BlocksInv
    <3>2. d.addr \in AddrsOf(live) \ {b.addr}
      BY <3>1 DEF AddrsOf
    <3>3. d \in live' /\ c # d
      BY <2>2, <2>3, <3>2
    <3> QED BY <2>4, <3>3, BlocksApart
  <2>8. CASE cleared
    <3>1. c.data = Contract!Zero /\ c.kept >= c.asked
      BY <2>2, <2>8 DEF Contract!Zero
    <3> QED BY <2>2, <2>4, <2>6, <2>7, <3>1 DEF Contract!Recalloc
  <2>9. CASE ~cleared
    <3>1. c.data = b.data /\ c.kept >= IF b.kept < c.asked THEN b.kept ELSE c.asked
      BY <2>2, <2>6, <2>9
    <3> QED BY <2>2, <2>4, <2>6, <2>7, <3>1 DEF Contract!Realloc
  <2> QED BY <2>8, <2>9
<1> QED BY <1>1, <1>2, ResizeDid

(* Free and ClientWrite are steps of the contract. *)
LEMMA FreeGives ==
  ASSUME NEW b \in live, CallFree(b)
  PROVE  Contract!Free
BY DEF CallFree, Contract!Free

LEMMA WriteGives ==
  ASSUME NEW b \in live, NEW x \in Data, ClientWrite(b, x)
  PROVE  Contract!Write
BY DEF ClientWrite, Contract!Write

(* Where memalign's arguments are as Regular asks, every call is a step of *)
(* the contract.                                                           *)
LEMMA ContractStep ==
  ASSUME Regular, NoWrap, ~ReallocAligned, KingsleyInv, KingsleyInv', Next
  PROVE  Contract!Next \/ live' = live
<1> DEFINE Kept == Contract!Next \/ live' = live
<1>0. /\ Requests \subseteq Nat /\ Alignments \subseteq Nat /\ Strings \subseteq Nat
      /\ Arrays \subseteq Nat \X Nat /\ NewAligned \subseteq Nat \X Nat
      /\ ElemSize \in Nat /\ PageSize \in Nat \ {0} /\ 2 * HalfRange \in Nat \ {0}
  BY SizesAreNat
<1>1. ASSUME Contract!Give \/ live' = live PROVE Kept
  BY <1>1 DEF Contract!Next
<1>2. ASSUME NEW n \in Requests, CallMalloc(n) \/ CallNew(n) PROVE Kept
  <2>1. n \in Nat /\ CallMalloc(n)
    BY <1>0, <1>2 DEF CallNew
  <2> QED BY <1>1, <2>1, MallocGives
<1>3. ASSUME NEW n \in Requests, CallCalloc(n, ElemSize) PROVE Kept
  BY <1>0, <1>1, <1>3, CallocGives
<1>4. ASSUME NEW n \in Requests, CallValloc(n) PROVE Kept
  <2>1. n \in Nat /\ PageSize \in Nat /\ PageSize # 2 /\ n <= n /\ Roomy(PageSize)
    BY <1>0, RoomyArguments DEF Regular
  <2>2. Aligned(PageSize, n, PageSize, n)
    BY <1>4 DEF CallValloc
  <2> QED BY <1>1, <2>1, <2>2, AlignedGives
<1>5. ASSUME NEW n \in Requests, CallPvalloc(n) PROVE Kept
  <2> DEFINE m == AlignUp(PageSize, n) % (2 * HalfRange)
  <2>1. /\ n \in Nat /\ m \in Nat /\ n <= m
        /\ PageSize \in Nat /\ PageSize # 2 /\ Roomy(PageSize)
    BY <1>0, PagesDoNotWrap, RoomyArguments DEF Regular
  <2>2. Aligned(PageSize, m, PageSize, n)
    BY <1>5 DEF CallPvalloc
  <2> HIDE DEF m
  <2> QED BY <1>1, <2>1, <2>2, AlignedGives
<1>6. ASSUME NEW n \in Requests, NEW a \in Alignments,
             CallMemalign(a, n) \/ CallPosixMemalign(a, n) \/ CallAlignedAlloc(a, n)
      PROVE  Kept
  <2>1. n \in Nat /\ a \in Nat /\ a # 2 /\ n <= n /\ Roomy(a)
    BY <1>0, RoomyArguments DEF Regular
  <2>2. Aligned(a, n, a, n)
    BY <1>6 DEF CallMemalign, CallPosixMemalign, CallAlignedAlloc
  <2> QED BY <1>1, <2>1, <2>2, AlignedGives
<1>7. ASSUME NEW n \in Strings, NEW x \in Data, CallStrdup(n, x) PROVE Kept
  BY <1>0, <1>1, <1>7, StrdupGives
<1>8. ASSUME NEW request \in NewAligned, CallNewAligned(request[1], request[2]) PROVE Kept
  <2> DEFINE size == request[1]
             align == request[2]
  <2>1. /\ size \in Nat /\ align \in Nat /\ Roomy(size)
        /\ IsPowerOf2(size) => size = align /\ size # 2
    BY <1>0, RoomyArguments DEF Regular
  <2>2. Aligned(size, align, align, size)
    BY <1>8 DEF CallNewAligned
  <2> HIDE DEF size, align
  <2>3. IsPowerOf2(size) => align = size /\ size # 2 /\ size <= align
    BY <2>1
  <2> QED BY <1>1, <2>1, <2>2, <2>3, AlignedGives
<1>9. ASSUME NEW b \in live, CallFree(b) PROVE Kept
  BY <1>9, FreeGives DEF Contract!Next
<1>10. ASSUME NEW b \in live, NEW n \in Nat, NEW asked \in Nat, asked <= n,
              NEW cleared \in BOOLEAN, Resize(b, n, asked, cleared)
       PROVE  Kept
  BY <1>10, ResizeGives DEF Contract!Next
<1>11. ASSUME NEW b \in live, NEW n \in Nat, CallRealloc(b, n) PROVE Kept
  <2>1. CASE n = 0
    BY <1>9, <1>11, <2>1 DEF CallRealloc
  <2>2. CASE n # 0
    <3>1. Resize(b, n, n, FALSE)
      BY <1>11, <2>2, Zenon DEF CallRealloc
    <3>2. n <= n
      OBVIOUS
    <3> QED BY <1>10, <3>1, <3>2
  <2> QED BY <2>1, <2>2
<1>12. ASSUME NEW b \in live, NEW n \in Requests \union {0}, CallRecalloc(b, n, ElemSize)
       PROVE  Kept
  <2> DEFINE m == (n * ElemSize) % (2 * HalfRange)
             asked == n * ElemSize
  <2>1. asked \in Nat /\ m \in {0, asked}
    BY <1>0 DEF Regular
  <2>2. IF m = 0 THEN CallFree(b) ELSE Resize(b, m, asked, TRUE)
    BY <1>12 DEF CallRecalloc
  <2> HIDE DEF m, asked
  <2>3. CASE m = 0
    BY <1>9, <2>2, <2>3
  <2>4. CASE m # 0
    <3>1. m \in Nat /\ asked <= m
      BY <2>1, <2>4
    <3>2. Resize(b, m, asked, TRUE)
      BY <2>2, <2>4, Zenon
    <3> QED BY <1>10, <2>1, <3>1, <3>2
  <2> QED BY <2>3, <2>4
<1>13. ASSUME NEW b \in live, NEW array \in Arrays, CallReallocarray(b, array[1], array[2])
       PROVE  Kept
  <2>1. array[1] * array[2] \in Nat
    BY <1>0
  <2>2. CallRealloc(b, array[1] * array[2])
    BY <1>13 DEF CallReallocarray
  <2> QED BY <1>11, <2>1, <2>2
<1>14. ASSUME NEW b \in live, NEW x \in Data, ClientWrite(b, x) PROVE Kept
  BY <1>14, WriteGives DEF Contract!Next
<1>15. ASSUME NEW b \in live, NEW n \in Requests \union {0},
              CallRealloc(b, n) \/ CallRecalloc(b, n, ElemSize)
       PROVE  Kept
  BY <1>0, <1>11, <1>12, <1>15
<1> HIDE DEF Kept
<1>16. Kept
  BY <1>2, <1>3, <1>4, <1>5, <1>6, <1>7, <1>8, <1>9, <1>13, <1>14, <1>15 DEF Next
<1> QED BY <1>16 DEF Kept

(* The shipped allocator is the C allocator of MallocContract: the blocks  *)
(* that malloc, calloc, realloc, memalign, strdup and new return are as    *)
(* large and as aligned as asked and share no word with another client's,  *)
(* and realloc keeps what it must: for the arguments that Regular admits,  *)
(* and as long as no sum of a size and an alignment or a page wraps.       *)
THEOREM KingsleyContract ==
  ASSUME ~ReallocAligned, Regular, NoWrap
  PROVE  Spec => ImplementsContract
<1>1. Init => Contract!Init
  BY DEF Init, Contract!Init
<1>2. KingsleyInv /\ KingsleyInv' /\ [Next]_vars => [Contract!Next]_live
  <2> SUFFICES ASSUME KingsleyInv, KingsleyInv', [Next]_vars PROVE [Contract!Next]_live
    OBVIOUS
  <2>1. CASE Next
    BY <2>1, ContractStep
  <2>2. CASE UNCHANGED vars
    BY <2>2 DEF vars
  <2> QED BY <2>1, <2>2
<1>3. Spec => []KingsleyInv
  BY KingsleyInvariant, PTL
<1> QED BY <1>1, <1>2, <1>3, PTL DEF Spec, ImplementsContract, Contract!Spec
=============================================================================
