-------------------------- MODULE MmapHeap_proofs --------------------------
(***************************************************************************)
(* MmapHeap: its map is right about every live block, the pages mapped are *)
(* the pages in use, and it implements the contract of a heap, for every   *)
(* number of threads, pages and sizes.                                     *)
(***************************************************************************)
EXTENDS MmapHeap, TLAPS

USE MmapHeapAssumption DEF MmapHeapAssumption, NULL

-----------------------------------------------------------------------------
(* Pages and bytes.                                                        *)

LEMMA DivFacts ==
  ASSUME NEW x \in Nat
  PROVE  /\ x \div PageSize \in Nat
         /\ (x \div PageSize) * PageSize <= x
         /\ x < (x \div PageSize) * PageSize + PageSize
  OBVIOUS

LEMMA DivOfMultiple ==
  ASSUME NEW k \in Nat
  PROVE  (k * PageSize + PageSize - 1) \div PageSize = k
  OBVIOUS

LEMMA DivOfSmall ==
  ASSUME NEW x \in Nat, x < PageSize
  PROVE  x \div PageSize = 0
  OBVIOUS

LEMMA PageOrder ==
  ASSUME NEW a \in Nat, NEW b \in Nat, a <= b
  PROVE  a * PageSize <= b * PageSize
  OBVIOUS

LEMMA PageInjective ==
  ASSUME NEW a \in Nat, NEW b \in Nat, a * PageSize = b * PageSize
  PROVE  a = b
  OBVIOUS

(* A block has at least one page, and its pages hold all of it. *)
LEMMA PageCountFacts ==
  ASSUME NEW n \in Nat
  PROVE  /\ PageCount(n) \in Nat
         /\ n # 0 => PageCount(n) >= 1
         /\ n <= PageCount(n) * PageSize
<1> DEFINE x == n + PageSize - 1
<1>1. x \in Nat
  OBVIOUS
<1>2. /\ PageCount(n) \in Nat
      /\ PageCount(n) * PageSize <= x
      /\ x < PageCount(n) * PageSize + PageSize
  BY <1>1, DivFacts DEF PageCount
<1>3. n <= PageCount(n) * PageSize
  <2> DEFINE y == PageCount(n) * PageSize
  <2>1. y \in Nat
    BY <1>2
  <2>2. x < y + PageSize
    BY <1>2
  <2> HIDE DEF y
  <2> QED
    BY <2>1, <2>2 DEF y
<1>4. n # 0 => PageCount(n) >= 1
  <2> SUFFICES ASSUME n # 0, ~(PageCount(n) >= 1) PROVE FALSE
    OBVIOUS
  <2>1. PageCount(n) = 0
    BY <1>2
  <2> QED
    BY <1>3, <2>1
<1> QED
  BY <1>2, <1>3, <1>4

(* The rounded length covers the same pages as the requested size, unless  *)
(* the sum wrapped and the length is 0.                                    *)
LEMMA RoundUpPages ==
  ASSUME NEW n \in Sizes, RoundUp(n) > 0
  PROVE  RoundUp(n) \in Nat /\ PageCount(RoundUp(n)) = PageCount(n)
<1> DEFINE x == n + PageSize - 1
           v == x % SizeRange
<1>1. x \in Nat /\ SizeRange \in Nat \ {0} /\ n \in 1 .. SizeRange - 1
  OBVIOUS
<1>2. v \in Nat /\ v < SizeRange
  BY <1>1
<1>3. CASE x < SizeRange
  <2>1. v = x
    BY <1>1, <1>3
  <2>2. RoundUp(n) = PageCount(n) * PageSize
    BY <2>1 DEF RoundUp, PageCount
  <2>3. PageCount(n) \in Nat
    BY <1>1, PageCountFacts
  <2>4. PageCount(PageCount(n) * PageSize) = PageCount(n)
    BY <2>3, DivOfMultiple DEF PageCount
  <2> QED
    BY <2>2, <2>3, <2>4
<1>4. CASE ~(x < SizeRange)
  <2>1. v < PageSize
    <3>1. CASE SizeRange <= PageSize
      BY <1>2, <3>1
    <3>2. CASE ~(SizeRange <= PageSize)
      <4>1. x - SizeRange \in Nat /\ x - SizeRange < SizeRange /\ x - SizeRange < PageSize
        BY <1>1, <1>4, <3>2
      <4>2. v = x - SizeRange
        BY <1>1, <4>1
      <4> QED
        BY <4>1, <4>2
    <3> QED
      BY <3>1, <3>2
  <2>2. v \div PageSize = 0
    BY <1>2, <2>1, DivOfSmall
  <2>3. RoundUp(n) = 0
    BY <2>2 DEF RoundUp
  <2> QED
    BY <2>3
<1> QED
  BY <1>3, <1>4

LEMMA BlockFacts ==
  ASSUME NEW b \in Blocks
  PROVE  /\ b[1] \in Nat /\ b[2] \in Nat
         /\ b = <<b[1], b[2]>>
<1>1. b[1] \in Pages \union {NULL} /\ b[2] \in Sizes \union {0} /\ b = <<b[1], b[2]>>
  BY DEF Blocks
<1> QED
  BY <1>1

(* Blocks that share no page have different addresses. *)
LEMMA SeparateStarts ==
  ASSUME NEW b \in Blocks, NEW c \in Blocks, b[2] # 0, c[2] # 0, Separate(b, c)
  PROVE  b[1] # c[1]
<1>1. b[1] \in Nat /\ c[1] \in Nat /\ b[2] \in Nat /\ c[2] \in Nat
  BY BlockFacts
<1>2. b[1] \in PagesOf(b[1], b[2]) /\ c[1] \in PagesOf(c[1], c[2])
  BY <1>1, PageCountFacts DEF PagesOf
<1> QED
  BY <1>2 DEF Separate

-----------------------------------------------------------------------------
(* What a step leaves alone.                                               *)

LEMMA InitInv == Init => MmapInv
<1> SUFFICES ASSUME Init PROVE MmapInv
  OBVIOUS
<1> USE DEF Init
<1>1. TypeOK
  BY DEF TypeOK, Places, MyMapLock!Init, Blocks, None
<1>2. \A t \in Threads : place[t] = "client" /\ block[t][1] = NULL /\ InFlight(t) = {}
  BY DEF None, InFlight
<1>3. LockInv /\ CallInv /\ EraseInv
  BY <1>2 DEF LockInv, CallInv, EraseInv
<1>4. BlockInv /\ PagesAccounted
  BY <1>2 DEF BlockInv, PagesAccounted, Mine
<1> QED
  BY <1>1, <1>3, <1>4 DEF MmapInv

(* A step that moves no block between clients, threads and the kernel, and *)
(* writes no entry of a live block, keeps what is said of blocks.          *)
LEMMA BlocksKept ==
  ASSUME BlockInv, PagesAccounted,
         live' = live, mapped' = mapped,
         \A u \in Threads : InFlight(u)' = InFlight(u),
         \A b \in live : table'[b[1]] = table[b[1]]
  PROVE  BlockInv' /\ PagesAccounted'
<1>1. Mine' = Mine
  BY DEF Mine
<1>2. PagesAccounted'
  BY <1>1 DEF PagesAccounted, PagesOf, PageCount
<1>3. BlockInv'
  BY DEF BlockInv, Separate, PagesOf, PageCount
<1> QED
  BY <1>2, <1>3

(* A step of t is not one of the other threads'. *)
LEMMA OthersKept ==
  ASSUME TypeOK, NEW t \in Threads, NEW from, NEW to, Goto(t, from, to),
         \A u \in Threads \ {t} : block'[u] = block[u]
  PROVE  /\ place[t] = from /\ place'[t] = to
         /\ \A u \in Threads \ {t} : place'[u] = place[u] /\ InFlight(u)' = InFlight(u)
  BY DEF TypeOK, Goto, InFlight

LEMMA MineOf ==
  ASSUME NEW t \in Threads
  PROVE  Mine = live \union InFlight(t) \union UNION {InFlight(u) : u \in Threads \ {t}}
  BY DEF Mine

(* Each block clients or threads have is a real one. *)
LEMMA MineBlocks ==
  ASSUME MmapInv
  PROVE  \A b \in Mine : b \in Blocks /\ b[1] \in Pages /\ b[2] # 0 /\ b[2] \in Nat
<1>1. \A b \in live : b \in Blocks /\ b[1] # NULL /\ b[2] # 0
  BY DEF MmapInv, TypeOK, BlockInv
<1>2. \A t \in Threads : \A b \in InFlight(t) : b \in Blocks /\ b[1] # NULL /\ b[2] # 0
  BY DEF MmapInv, TypeOK, CallInv, InFlight
<1>3. \A b \in Blocks : b[1] # NULL => b[1] \in Pages /\ b[2] \in Nat
  BY BlockFacts DEF Blocks
<1> QED
  BY <1>1, <1>2, <1>3 DEF Mine

-----------------------------------------------------------------------------
(* One lemma per action.  First the actions that move no block.            *)

LEMMA CallMallocKeeps ==
  ASSUME MmapInv, NEW t \in Threads, CallMalloc(t)
  PROVE  MmapInv'
<1> USE DEF MmapInv, CallMalloc, clientVars
<1>1. /\ place[t] = "client" /\ place'[t] = "mmap"
      /\ \A u \in Threads \ {t} : place'[u] = place[u] /\ InFlight(u)' = InFlight(u)
  BY OthersKept
<1>2. InFlight(t) = {} /\ InFlight(t)' = {}
  BY <1>1 DEF InFlight
<1>3. TypeOK'
  BY DEF TypeOK, Goto, Places, MallocPlaces
<1>4. LockInv'
  BY <1>1 DEF LockInv
<1>5. PICK n \in Sizes : sz' = [sz EXCEPT ![t] = n]
  OBVIOUS
<1>6. sz'[t] # 0 /\ \A u \in Threads \ {t} : sz'[u] = sz[u]
  BY <1>5 DEF TypeOK
<1>7. CallInv'
  BY <1>1, <1>6 DEF CallInv
<1>8. EraseInv'
  BY <1>1 DEF EraseInv
<1>9. BlockInv' /\ PagesAccounted'
  BY <1>1, <1>2, BlocksKept
<1> QED
  BY <1>3, <1>4, <1>7, <1>8, <1>9

LEMMA TakeLockKeeps ==
  ASSUME MmapInv, NEW t \in Threads, TakeLock(t)
  PROVE  MmapInv'
<1> USE DEF MmapInv, TakeLock, clientVars, MyMapLock!Acquire
<1>1. /\ \/ place[t] = "lock" /\ place'[t] = "record"
         \/ place[t] = "flock" /\ place'[t] = "find"
         \/ place[t] = "glock" /\ place'[t] = "look"
      /\ \A u \in Threads \ {t} : place'[u] = place[u] /\ InFlight(u)' = InFlight(u)
  BY OthersKept
<1>2. InFlight(t)' = InFlight(t)
  BY <1>1 DEF InFlight
<1>3. TypeOK'
  BY <1>1 DEF TypeOK, Goto, Places, MallocPlaces, FreePlaces
<1>4. LockInv'
  BY <1>1 DEF LockInv
<1>5. CallInv'
  BY <1>1 DEF CallInv
<1>6. EraseInv'
  BY <1>1 DEF EraseInv
<1>7. BlockInv' /\ PagesAccounted'
  BY <1>1, <1>2, BlocksKept
<1> QED
  BY <1>3, <1>4, <1>5, <1>6, <1>7

(* The address recorded is no client's. *)
LEMMA RecordKeeps ==
  ASSUME MmapInv, NEW t \in Threads, Record(t)
  PROVE  MmapInv'
<1> USE DEF MmapInv, Record, clientVars
<1>1. /\ place[t] = "record" /\ place'[t] = "give"
      /\ \A u \in Threads \ {t} : place'[u] = place[u] /\ InFlight(u)' = InFlight(u)
  BY OthersKept
<1>2. InFlight(t)' = InFlight(t)
  BY <1>1 DEF InFlight
<1>3. block[t][1] \in Pages \union {NULL} /\ sz[t] \in Sizes \union {0}
  BY DEF TypeOK, Blocks
<1>4. TypeOK'
  BY <1>1, <1>3 DEF TypeOK, Goto, Places, MallocPlaces
<1>5. table'[block[t][1]] = sz[t] /\ \A q \in Pages \union {NULL} : q # block[t][1] => table'[q] = table[q]
  BY <1>3 DEF TypeOK
<1>6. \A b \in Mine : b \in Blocks /\ b[1] \in Pages /\ b[2] # 0
  BY MineBlocks
<1>7. \A b \in live \union UNION {InFlight(u) : u \in Threads \ {t}} : b[1] # block[t][1]
  <2>1. CASE block[t][1] = NULL
    BY <1>6, <2>1 DEF Mine
  <2>2. CASE block[t][1] # NULL
    <3>1. block[t] \in InFlight(t)
      BY <1>1, <2>2 DEF InFlight
    <3>2. \A b \in live \union UNION {InFlight(u) : u \in Threads \ {t}} : Separate(block[t], b)
      BY <3>1 DEF BlockInv
    <3>3. \A b \in live \union UNION {InFlight(u) : u \in Threads \ {t}} : b \in Mine
      BY DEF Mine
    <3>4. block[t] \in Mine
      BY <3>1 DEF Mine
    <3> QED
      BY <1>6, <3>2, <3>3, <3>4, SeparateStarts
  <2> QED
    BY <2>1, <2>2
<1>8. \A b \in live : table'[b[1]] = table[b[1]]
  BY <1>5, <1>6, <1>7 DEF Mine
<1>9. LockInv'
  BY <1>1 DEF LockInv
<1>10. \A u \in Threads \ {t} : place[u] \in {"give", "find"} => FALSE
  BY <1>1 DEF LockInv
<1>11. \A u \in Threads \ {t} : place[u] = "flock" =>
         block[u] \in InFlight(u) /\ block[u][1] \in Pages /\ block[u][1] # block[t][1]
  BY <1>6, <1>7 DEF InFlight, CallInv, Mine
<1>12. CallInv'
  BY <1>1, <1>5, <1>10, <1>11 DEF CallInv
<1>13. EraseInv'
  BY <1>1 DEF EraseInv
<1>14. BlockInv' /\ PagesAccounted'
  BY <1>1, <1>2, <1>8, BlocksKept
<1> QED
  BY <1>4, <1>9, <1>12, <1>13, <1>14

(* The map has the entry a lookup asks for, so nothing is inserted. *)
LEMMA LookupFinds ==
  ASSUME TypeOK, NEW t \in Threads, Lookup(t),
         block[t][2] # 0, table[block[t][1]] = block[t][2]
  PROVE  /\ table' = table
         /\ sz' = [sz EXCEPT ![t] = block[t][2]]
<1>1. block[t][1] \in Pages \union {NULL} /\ block[t][2] \in Nat
  BY BlockFacts DEF TypeOK, Blocks
<1>2. table[block[t][1]] # NoEntry
  BY <1>1 DEF NoEntry
<1>3. sz' = [sz EXCEPT ![t] = block[t][2]] /\ table' = [table EXCEPT ![block[t][1]] = table[block[t][1]]]
  BY <1>2 DEF Lookup
<1> QED
  BY <1>1, <1>3 DEF TypeOK

LEMMA FindKeeps ==
  ASSUME MmapInv, NEW t \in Threads, Find(t)
  PROVE  MmapInv'
<1> USE DEF MmapInv, Find, clientVars
<1>1. /\ place[t] = "find" /\ place'[t] = "unmap"
      /\ \A u \in Threads \ {t} : place'[u] = place[u] /\ InFlight(u)' = InFlight(u)
  BY OthersKept
<1>2. InFlight(t)' = InFlight(t)
  BY <1>1 DEF InFlight
<1>3. block[t][2] # 0 /\ table[block[t][1]] = block[t][2]
  BY <1>1 DEF CallInv
<1>4. table' = table /\ sz' = [sz EXCEPT ![t] = block[t][2]]
  BY <1>3, LookupFinds
<1>5. block[t][2] \in Sizes \union {0}
  BY DEF TypeOK, Blocks
<1>6. TypeOK'
  BY <1>1, <1>4, <1>5 DEF TypeOK, Goto, Places, FreePlaces
<1>7. LockInv'
  BY <1>1 DEF LockInv
<1>8. CallInv'
  BY <1>1, <1>4 DEF CallInv, TypeOK
<1>9. EraseInv'
  BY <1>1 DEF EraseInv
<1>10. BlockInv' /\ PagesAccounted'
  BY <1>1, <1>2, <1>4, BlocksKept
<1> QED
  BY <1>6, <1>7, <1>8, <1>9, <1>10

LEMMA LookKeeps ==
  ASSUME MmapInv, NEW t \in Threads, Look(t)
  PROVE  MmapInv'
<1> USE DEF MmapInv, Look, clientVars
<1>1. /\ place[t] = "look" /\ place'[t] = "gunlock"
      /\ \A u \in Threads \ {t} : place'[u] = place[u] /\ InFlight(u)' = InFlight(u)
  BY OthersKept
<1>2. InFlight(t)' = InFlight(t)
  BY <1>1 DEF InFlight
<1>3. block[t] \in live /\ block[t][2] # 0 /\ table[block[t][1]] = block[t][2]
  BY <1>1 DEF CallInv, BlockInv
<1>4. table' = table /\ sz' = [sz EXCEPT ![t] = block[t][2]]
  BY <1>3, LookupFinds
<1>5. block[t][2] \in Sizes \union {0}
  BY DEF TypeOK, Blocks
<1>6. TypeOK'
  BY <1>1, <1>4, <1>5 DEF TypeOK, Goto, Places
<1>7. LockInv'
  BY <1>1 DEF LockInv
<1>8. CallInv'
  BY <1>1, <1>3, <1>4 DEF CallInv, TypeOK
<1>9. EraseInv'
  BY <1>1 DEF EraseInv
<1>10. BlockInv' /\ PagesAccounted'
  BY <1>1, <1>2, <1>4, BlocksKept
<1> QED
  BY <1>6, <1>7, <1>8, <1>9, <1>10

(* Nobody has come to own the address while t was erasing it. *)
LEMMA EraseKeeps ==
  ASSUME MmapInv, NEW t \in Threads, Erase(t)
  PROVE  MmapInv'
<1> USE DEF MmapInv, Erase, clientVars
<1>1. /\ place[t] = "erase" /\ place'[t] = "funlock"
      /\ \A u \in Threads \ {t} : place'[u] = place[u] /\ InFlight(u)' = InFlight(u)
  BY OthersKept
<1>2. InFlight(t)' = InFlight(t)
  BY <1>1 DEF InFlight
<1>3. block[t][1] \in Pages \union {NULL}
  BY DEF TypeOK, Blocks
<1>4. \A q \in Pages \union {NULL} : q # block[t][1] => table'[q] = table[q]
  BY <1>3 DEF TypeOK
<1>5. TypeOK'
  BY <1>1, <1>3 DEF TypeOK, Goto, Places, FreePlaces
<1>6. \A b \in live : b[1] # block[t][1] /\ b[1] \in Pages
  BY <1>1, MineBlocks DEF EraseInv, Mine
<1>7. LockInv'
  BY <1>1 DEF LockInv
<1>8. \A u \in Threads \ {t} : place[u] \notin {"give", "find", "erase"}
  BY <1>1 DEF LockInv
<1>9. \A u \in Threads : place[u] = "flock" =>
        block[u][1] # block[t][1] /\ block[u][1] \in Pages \union {NULL}
  BY <1>1 DEF EraseInv, TypeOK, Blocks
<1>10. CallInv'
  BY <1>1, <1>4, <1>8, <1>9 DEF CallInv
<1>11. EraseInv'
  BY <1>1, <1>8 DEF EraseInv
<1>12. BlockInv' /\ PagesAccounted'
  BY <1>1, <1>2, <1>4, <1>6, BlocksKept
<1> QED
  BY <1>5, <1>7, <1>10, <1>11, <1>12

LEMMA ReturnKeeps ==
  ASSUME MmapInv, NEW t \in Threads, Return(t)
  PROVE  MmapInv'
<1> USE DEF MmapInv, Return, clientVars, MyMapLock!Release
<1>1. /\ place[t] \in {"funlock", "gunlock"} /\ place'[t] = "client"
      /\ \A u \in Threads \ {t} : place'[u] = place[u] /\ InFlight(u)' = InFlight(u)
                                  /\ block'[u] = block[u] /\ sz'[u] = sz[u]
  <2>1. \A u \in Threads \ {t} : block'[u] = block[u] /\ sz'[u] = sz[u]
    BY DEF TypeOK
  <2> QED
    BY <2>1, OthersKept
<1>2. InFlight(t)' = InFlight(t)
  BY <1>1 DEF InFlight
<1>3. block'[t][1] = NULL
  BY DEF TypeOK, None
<1>4. TypeOK'
  BY <1>1 DEF TypeOK, Goto, Places, None, Blocks
<1>5. LockInv'
  BY <1>1 DEF LockInv
<1>6. CallInv'
  BY <1>1, <1>3 DEF CallInv
<1>7. EraseInv'
  BY <1>1 DEF EraseInv, LockInv
<1>8. BlockInv' /\ PagesAccounted'
  BY <1>1, <1>2, BlocksKept
<1> QED
  BY <1>4, <1>5, <1>6, <1>7, <1>8

LEMMA CallGetSizeKeeps ==
  ASSUME MmapInv, NEW t \in Threads, CallGetSize(t)
  PROVE  MmapInv'
<1> USE DEF MmapInv, CallGetSize, clientVars
<1>1. PICK b \in live : block' = [block EXCEPT ![t] = b]
  OBVIOUS
<1>2. /\ place[t] = "client" /\ place'[t] = "glock"
      /\ \A u \in Threads \ {t} : place'[u] = place[u] /\ InFlight(u)' = InFlight(u)
                                  /\ block'[u] = block[u]
  <2>1. \A u \in Threads \ {t} : block'[u] = block[u]
    BY <1>1 DEF TypeOK
  <2> QED
    BY <2>1, OthersKept
<1>3. InFlight(t)' = InFlight(t)
  BY <1>2 DEF InFlight
<1>4. block'[t] = b
  BY <1>1 DEF TypeOK
<1>5. TypeOK'
  BY <1>1, <1>2 DEF TypeOK, Goto, Places
<1>6. LockInv'
  BY <1>2 DEF LockInv
<1>7. CallInv'
  BY <1>2, <1>4 DEF CallInv
<1>8. EraseInv'
  BY <1>2 DEF EraseInv
<1>9. BlockInv' /\ PagesAccounted'
  BY <1>2, <1>3, BlocksKept
<1> QED
  BY <1>5, <1>6, <1>7, <1>8, <1>9

-----------------------------------------------------------------------------
(* Then those that move one.                                               *)

(* A block goes from its client to the thread that frees it. *)
LEMMA GiveUpKeeps ==
  ASSUME MmapInv, NEW t \in Threads, NEW b \in live, GiveUp(t, b),
         place[t] = "client", InFlight(t)' = {b},
         \A u \in Threads \ {t} : InFlight(u)' = InFlight(u),
         UNCHANGED <<mapped, table>>
  PROVE  BlockInv' /\ PagesAccounted'
<1> USE DEF MmapInv, GiveUp
<1>1. InFlight(t) = {}
  BY DEF InFlight
<1>2. Mine' = Mine
  <2>1. Mine = live \union UNION {InFlight(u) : u \in Threads \ {t}}
    BY <1>1, MineOf
  <2>2. Mine' = live' \union {b} \union UNION {InFlight(u)' : u \in Threads \ {t}}
    BY DEF Mine
  <2>3. UNION {InFlight(u)' : u \in Threads \ {t}} = UNION {InFlight(u) : u \in Threads \ {t}}
    OBVIOUS
  <2> QED
    BY <2>1, <2>2, <2>3
<1>3. PagesAccounted'
  BY <1>2 DEF PagesAccounted, PagesOf, PageCount
<1>4. live' \subseteq live /\ b \notin live'
  OBVIOUS
<1>5. BlockInv'
  <2>1. \A c \in live' : c[1] # NULL /\ c[2] # 0 /\ table'[c[1]] = c[2]
    BY <1>4 DEF BlockInv
  <2>2. \A c, d \in live' : c # d => Separate(c, d)
    BY <1>4 DEF BlockInv
  <2>3. ASSUME NEW u \in Threads, NEW c \in InFlight(u)'
        PROVE  /\ \A d \in live' : Separate(c, d)
               /\ \A w \in Threads \ {u} : \A d \in InFlight(w)' : Separate(c, d)
    <3>1. CASE u = t
      <4>1. c = b /\ c \in live
        BY <2>3, <3>1
      <4>2. \A d \in live' : Separate(c, d)
        BY <1>4, <4>1 DEF BlockInv
      <4>3. \A w \in Threads \ {t} : \A d \in InFlight(w) : Separate(d, c)
        BY <4>1 DEF BlockInv
      <4> QED
        BY <3>1, <4>2, <4>3 DEF Separate
    <3>2. CASE u # t
      <4>1. c \in InFlight(u)
        BY <2>3, <3>2
      <4>2. \A d \in live : Separate(c, d)
        BY <4>1 DEF BlockInv
      <4>3. \A w \in Threads \ {u, t} : \A d \in InFlight(w)' : Separate(c, d)
        BY <4>1 DEF BlockInv
      <4> QED
        BY <1>4, <4>2, <4>3
    <3> QED
      BY <3>1, <3>2
  <2> QED
    BY <2>1, <2>2, <2>3 DEF BlockInv, Separate, PagesOf, PageCount
<1> QED
  BY <1>3, <1>5

LEMMA CallFreeKeeps ==
  ASSUME MmapInv, NEW t \in Threads, CallFree(t)
  PROVE  MmapInv'
<1> USE DEF MmapInv, CallFree
<1>1. PICK b \in live : GiveUp(t, b)
  OBVIOUS
<1>2. block'[t] = b /\ \A u \in Threads \ {t} : block'[u] = block[u]
  BY <1>1 DEF GiveUp, TypeOK
<1>3. /\ place[t] = "client" /\ place'[t] = "flock"
      /\ \A u \in Threads \ {t} : place'[u] = place[u] /\ InFlight(u)' = InFlight(u)
  BY <1>2, OthersKept
<1>4. b \in Blocks /\ b[1] # NULL /\ b[2] # 0 /\ table[b[1]] = b[2]
  BY DEF BlockInv, TypeOK
<1>5. InFlight(t)' = {b}
  BY <1>2, <1>3, <1>4 DEF InFlight
<1>6. TypeOK'
  BY <1>1, <1>3, <1>4 DEF TypeOK, GiveUp, Goto, Places, FreePlaces
<1>7. LockInv'
  BY <1>3 DEF LockInv
<1>8. \A u \in Threads \ {t} : block[u] \in live => block[u] \in live'
  BY <1>1 DEF GiveUp
<1>9. CallInv'
  BY <1>2, <1>3, <1>4, <1>8 DEF CallInv
<1>10. live' \subseteq live
  BY <1>1 DEF GiveUp
<1>11. EraseInv'
  BY <1>2, <1>3, <1>10 DEF EraseInv
<1>12. BlockInv' /\ PagesAccounted'
  BY <1>1, <1>3, <1>5, GiveUpKeeps
<1> QED
  BY <1>6, <1>7, <1>9, <1>11, <1>12

LEMMA CallSizedFreeKeeps ==
  ASSUME MmapInv, NEW t \in Threads, CallSizedFree(t)
  PROVE  MmapInv'
<1> USE DEF MmapInv, CallSizedFree
<1>1. PICK b \in live : GiveUp(t, b) /\ sz' = [sz EXCEPT ![t] = b[2]]
  OBVIOUS
<1>2. /\ block'[t] = b /\ sz'[t] = b[2]
      /\ \A u \in Threads \ {t} : block'[u] = block[u] /\ sz'[u] = sz[u]
  BY <1>1 DEF GiveUp, TypeOK
<1>3. /\ place[t] = "client" /\ place'[t] = "sunmap"
      /\ \A u \in Threads \ {t} : place'[u] = place[u] /\ InFlight(u)' = InFlight(u)
  BY <1>2, OthersKept
<1>4. b \in Blocks /\ b[1] # NULL /\ b[2] # 0 /\ b[2] \in Sizes \union {0}
  BY DEF BlockInv, TypeOK, Blocks
<1>5. InFlight(t)' = {b}
  BY <1>2, <1>3, <1>4 DEF InFlight
<1>6. TypeOK'
  BY <1>1, <1>3, <1>4 DEF TypeOK, GiveUp, Goto, Places
<1>7. LockInv'
  BY <1>3 DEF LockInv
<1>8. \A u \in Threads \ {t} : block[u] \in live => block[u] \in live'
  BY <1>1 DEF GiveUp
<1>9. CallInv'
  BY <1>2, <1>3, <1>4, <1>8 DEF CallInv
<1>10. live' \subseteq live
  BY <1>1 DEF GiveUp
<1>11. EraseInv'
  BY <1>2, <1>3, <1>10 DEF EraseInv
<1>12. BlockInv' /\ PagesAccounted'
  BY <1>1, <1>3, <1>5, GiveUpKeeps
<1> QED
  BY <1>6, <1>7, <1>9, <1>11, <1>12

(* A block is given out: it has its entry, and shares no page. *)
LEMMA GiveKeeps ==
  ASSUME MmapInv, NEW t \in Threads, Give(t)
  PROVE  MmapInv'
<1> USE DEF MmapInv, Give, clientVars, MyMapLock!Release
<1> DEFINE b == block[t]
<1>1. \A u \in Threads \ {t} : block'[u] = block[u] /\ sz'[u] = sz[u]
  BY DEF TypeOK
<1>2. /\ place[t] = "give" /\ place'[t] = "client"
      /\ \A u \in Threads \ {t} : place'[u] = place[u] /\ InFlight(u)' = InFlight(u)
  BY <1>1, OthersKept
<1>3. InFlight(t)' = {} /\ block'[t][1] = NULL
  BY <1>2 DEF InFlight, TypeOK, None
<1>4. b \in Blocks /\ b[2] # 0 /\ table[b[1]] = b[2] /\ (b[1] # NULL => InFlight(t) = {b})
  BY <1>2 DEF CallInv, TypeOK, InFlight
<1>5. TypeOK'
  BY <1>2, <1>4 DEF TypeOK, Goto, Places, None, Blocks
<1>6. LockInv'
  BY <1>2 DEF LockInv
<1>7. live \subseteq live' /\ live' \subseteq live \union {b}
  OBVIOUS
<1>8. CallInv'
  BY <1>1, <1>2, <1>3, <1>7 DEF CallInv
<1>9. \A u \in Threads \ {t} : place[u] # "erase"
  BY <1>2 DEF LockInv
<1>10. EraseInv'
  BY <1>2, <1>9 DEF EraseInv
<1>11. CASE b[1] = NULL
  <2>1. InFlight(t) = {} /\ live' = live
    BY <1>2, <1>11 DEF InFlight
  <2>2. BlockInv' /\ PagesAccounted'
    BY <1>2, <1>3, <2>1, BlocksKept
  <2> QED
    BY <1>5, <1>6, <1>8, <1>10, <2>2
<1>12. CASE b[1] # NULL
  <2>1. live' = live \union {b} /\ InFlight(t) = {b}
    BY <1>4, <1>12
  <2>2. UNION {InFlight(u)' : u \in Threads \ {t}} = UNION {InFlight(u) : u \in Threads \ {t}}
    BY <1>2
  <2>3. Mine' = live' \union UNION {InFlight(u)' : u \in Threads \ {t}}
    BY <1>3 DEF Mine
  <2>4. Mine' = Mine
    BY <2>1, <2>2, <2>3, MineOf
  <2>5. PagesAccounted'
    BY <2>4 DEF PagesAccounted, PagesOf, PageCount
  <2>6. \A c \in live' : c[1] # NULL /\ c[2] # 0 /\ table[c[1]] = c[2]
    BY <1>4, <1>12, <2>1 DEF BlockInv
  <2>7. \A c \in live : Separate(b, c) /\ Separate(c, b)
    BY <2>1 DEF BlockInv, Separate
  <2>8. \A c, d \in live' : c # d => Separate(c, d)
    BY <2>1, <2>7 DEF BlockInv
  <2>9. \A u \in Threads : \A c \in InFlight(u)' : u # t /\ c \in InFlight(u) /\ Separate(c, b)
    BY <1>2, <1>3, <2>1 DEF BlockInv
  <2>10. \A u \in Threads : \A c \in InFlight(u)' :
           /\ \A d \in live' : Separate(c, d)
           /\ \A w \in Threads \ {u} : \A d \in InFlight(w)' : Separate(c, d)
    BY <2>1, <2>9 DEF BlockInv
  <2>11. BlockInv'
    BY <2>6, <2>8, <2>10 DEF BlockInv, Separate, PagesOf, PageCount
  <2> QED
    BY <1>5, <1>6, <1>8, <1>10, <2>5, <2>11
<1> QED
  BY <1>11, <1>12

(* The pages of one block go back to the kernel, and no others. *)
LEMMA UnmapPages ==
  ASSUME MmapInv, NEW t \in Threads, place[t] \in {"unmap", "sunmap"},
         Munmap(block[t][1], sz[t]), InFlight(t)' = {},
         \A u \in Threads \ {t} : InFlight(u)' = InFlight(u),
         live' = live, table' = table
  PROVE  BlockInv' /\ PagesAccounted'
<1> USE DEF MmapInv
<1> DEFINE b == block[t]
           rest == live \union UNION {InFlight(u) : u \in Threads \ {t}}
<1>1. InFlight(t) = {b} /\ sz[t] = b[2]
  BY DEF InFlight, CallInv
<1>2. Mine = rest \union {b}
  BY <1>1, MineOf
<1>3. UNION {InFlight(u)' : u \in Threads \ {t}} = UNION {InFlight(u) : u \in Threads \ {t}}
  OBVIOUS
<1>4. Mine' = rest
  BY <1>3 DEF Mine
<1>5. \A c \in rest : Separate(b, c)
  BY <1>1 DEF BlockInv
<1> HIDE DEF rest
<1>6. mapped' = mapped \ PagesOf(b[1], b[2])
  BY <1>1 DEF Munmap
<1>7. mapped = UNION {PagesOf(c[1], c[2]) : c \in rest \union {b}}
  BY <1>2 DEF PagesAccounted
<1>8. mapped' = UNION {PagesOf(c[1], c[2]) : c \in rest}
  BY <1>5, <1>6, <1>7 DEF Separate
<1>9. PagesAccounted'
  BY <1>4, <1>8 DEF PagesAccounted, PagesOf, PageCount
<1>10. \A u \in Threads : \A c \in InFlight(u)' : u # t /\ c \in InFlight(u)
  OBVIOUS
<1>11. \A u \in Threads : \A c \in InFlight(u)' :
          /\ \A d \in live : Separate(c, d)
          /\ \A w \in Threads \ {u} : \A d \in InFlight(w)' : Separate(c, d)
  BY <1>10 DEF BlockInv
<1>12. BlockInv'
  BY <1>11 DEF BlockInv, Separate, PagesOf, PageCount
<1> QED
  BY <1>9, <1>12

LEMMA UnmapKeeps ==
  ASSUME MmapInv, NEW t \in Threads, Unmap(t)
  PROVE  MmapInv'
<1> USE DEF MmapInv, Unmap, clientVars
<1>1. /\ place[t] = "unmap" /\ place'[t] = "erase"
      /\ \A u \in Threads \ {t} : place'[u] = place[u] /\ InFlight(u)' = InFlight(u)
  BY OthersKept
<1>2. InFlight(t)' = {} /\ InFlight(t) = {block[t]}
  BY <1>1 DEF InFlight, CallInv
<1>3. TypeOK'
  BY <1>1 DEF TypeOK, Goto, Places, FreePlaces, Munmap
<1>4. LockInv'
  BY <1>1 DEF LockInv
<1>5. CallInv'
  BY <1>1 DEF CallInv
<1>6. ASSUME NEW c \in live \union UNION {InFlight(u) : u \in Threads \ {t}}
      PROVE  c[1] # block[t][1]
  <2>1. Separate(block[t], c)
    BY <1>2 DEF BlockInv
  <2>2. c \in Mine /\ block[t] \in Mine
    BY <1>2 DEF Mine
  <2> QED
    BY <2>1, <2>2, MineBlocks, SeparateStarts
<1>7. \A u \in Threads \ {t} : place[u] = "flock" => block[u] \in InFlight(u)
  BY DEF InFlight, CallInv
<1>8. \A u \in Threads \ {t} : place[u] # "erase"
  BY <1>1 DEF LockInv
<1>9. EraseInv'
  BY <1>1, <1>6, <1>7, <1>8 DEF EraseInv
<1>10. BlockInv' /\ PagesAccounted'
  BY <1>1, <1>2, UnmapPages
<1> QED
  BY <1>3, <1>4, <1>5, <1>9, <1>10

LEMMA SizedUnmapKeeps ==
  ASSUME MmapInv, NEW t \in Threads, SizedUnmap(t)
  PROVE  MmapInv'
<1> USE DEF MmapInv, SizedUnmap, clientVars
<1>1. \A u \in Threads \ {t} : block'[u] = block[u] /\ sz'[u] = sz[u]
  BY DEF TypeOK
<1>2. /\ place[t] = "sunmap" /\ place'[t] = "client"
      /\ \A u \in Threads \ {t} : place'[u] = place[u] /\ InFlight(u)' = InFlight(u)
  BY <1>1, OthersKept
<1>3. InFlight(t)' = {} /\ block'[t][1] = NULL
  BY <1>2 DEF InFlight, TypeOK, None
<1>4. TypeOK'
  BY <1>2 DEF TypeOK, Goto, Places, Munmap, None, Blocks
<1>5. LockInv'
  BY <1>2 DEF LockInv
<1>6. CallInv'
  BY <1>1, <1>2, <1>3 DEF CallInv
<1>7. EraseInv'
  BY <1>1, <1>2 DEF EraseInv
<1>8. BlockInv' /\ PagesAccounted'
  BY <1>2, <1>3, UnmapPages
<1> QED
  BY <1>4, <1>5, <1>6, <1>7, <1>8

(* The kernel's pages were nobody's. *)
LEMMA MmapKeeps ==
  ASSUME MmapInv, NEW t \in Threads, Mmap(t)
  PROVE  MmapInv'
<1> USE DEF MmapInv, Mmap, clientVars
<1>1. PICK p \in MmapResults(RoundUp(sz[t])) :
        /\ block' = [block EXCEPT ![t] = <<p, sz[t]>>]
        /\ mapped' = mapped \union (IF p = NULL THEN {} ELSE PagesOf(p, RoundUp(sz[t])))
  OBVIOUS
<1> DEFINE b == <<p, sz[t]>>
<1>2. block'[t] = b /\ \A u \in Threads \ {t} : block'[u] = block[u]
  BY <1>1 DEF TypeOK
<1>3. /\ place[t] = "mmap" /\ place'[t] = "lock"
      /\ \A u \in Threads \ {t} : place'[u] = place[u] /\ InFlight(u)' = InFlight(u)
  BY <1>2, OthersKept
<1>4. InFlight(t) = {} /\ sz[t] \in Sizes /\ sz[t] # 0
  BY <1>3 DEF InFlight, CallInv, TypeOK
<1>5. p \in Pages \union {NULL} /\ b \in Blocks
  BY <1>4 DEF MmapResults, Blocks
<1>6. LockInv'
  BY <1>3 DEF LockInv
<1>7. CallInv'
  BY <1>2, <1>3, <1>4 DEF CallInv
<1>8. EraseInv'
  BY <1>2, <1>3 DEF EraseInv
<1>9. CASE p = NULL
  <2>1. InFlight(t)' = {} /\ mapped' = mapped
    BY <1>1, <1>2, <1>9 DEF InFlight
  <2>2. TypeOK'
    BY <1>1, <1>3, <1>5, <2>1 DEF TypeOK, Goto, Places, MallocPlaces
  <2>3. BlockInv' /\ PagesAccounted'
    BY <1>3, <1>4, <2>1, BlocksKept
  <2> QED
    BY <1>6, <1>7, <1>8, <2>2, <2>3
<1>10. CASE p # NULL
  <2>1. RoundUp(sz[t]) > 0 /\ PagesOf(p, RoundUp(sz[t])) \subseteq Pages \ mapped
    BY <1>1, <1>10 DEF MmapResults
  <2>2. PagesOf(p, RoundUp(sz[t])) = PagesOf(b[1], b[2])
    BY <1>4, <2>1, RoundUpPages DEF PagesOf
  <2>3. InFlight(t)' = {b}
    BY <1>2, <1>3, <1>10 DEF InFlight
  <2>4. mapped' = mapped \union PagesOf(b[1], b[2])
    BY <1>1, <1>10, <2>2
  <2>5. TypeOK'
    BY <1>1, <1>3, <1>5, <2>1, <2>2, <2>4 DEF TypeOK, Goto, Places, MallocPlaces
  <2>6. Mine' = Mine \union {b}
    <3>1. UNION {InFlight(u)' : u \in Threads \ {t}} = UNION {InFlight(u) : u \in Threads \ {t}}
      BY <1>3
    <3>2. Mine' = live \union {b} \union UNION {InFlight(u)' : u \in Threads \ {t}}
      BY <2>3 DEF Mine
    <3>3. Mine = live \union UNION {InFlight(u) : u \in Threads \ {t}}
      BY <1>4, MineOf
    <3> QED
      BY <3>1, <3>2, <3>3
  <2>7. PagesAccounted'
    <3>1. mapped = UNION {PagesOf(c[1], c[2]) : c \in Mine}
      BY DEF PagesAccounted
    <3>2. UNION {PagesOf(c[1], c[2]) : c \in Mine \union {b}}
            = (UNION {PagesOf(c[1], c[2]) : c \in Mine}) \union PagesOf(b[1], b[2])
      <4> HIDE DEF b
      <4> QED
        OBVIOUS
    <3>3. mapped' = UNION {PagesOf(c[1], c[2]) : c \in Mine'}
      BY <2>4, <2>6, <3>1, <3>2
    <3> QED
      BY <3>3 DEF PagesAccounted, PagesOf, PageCount
  <2>8. \A c \in Mine : Separate(b, c) /\ Separate(c, b)
    <3>1. \A c \in Mine : PagesOf(c[1], c[2]) \subseteq mapped
      BY DEF PagesAccounted
    <3>2. PagesOf(b[1], b[2]) \intersect mapped = {}
      BY <2>1, <2>2
    <3> QED
      BY <3>1, <3>2 DEF Separate
  <2>9. \A u \in Threads \ {t} : \A c \in InFlight(u)' : c \in InFlight(u) /\ c \in Mine
    BY <1>3 DEF Mine
  <2>10. \A u \in Threads \ {t} : \A c \in InFlight(u)' :
           /\ \A d \in live : Separate(c, d)
           /\ \A w \in Threads \ {u} : \A d \in InFlight(w)' : Separate(c, d)
    BY <2>3, <2>8, <2>9 DEF BlockInv
  <2>11. \A c \in InFlight(t)' :
           /\ \A d \in live : Separate(c, d)
           /\ \A w \in Threads \ {t} : \A d \in InFlight(w)' : Separate(c, d)
    BY <2>3, <2>8, <2>9 DEF Mine
  <2>12. BlockInv'
    BY <2>10, <2>11 DEF BlockInv, Separate, PagesOf, PageCount
  <2> QED
    BY <1>6, <1>7, <1>8, <2>5, <2>7, <2>12
<1> QED
  BY <1>9, <1>10

LEMMA StepInv == MmapInv /\ [Next]_vars => MmapInv'
<1> SUFFICES ASSUME MmapInv, [Next]_vars PROVE MmapInv'
  OBVIOUS
<1>1. ASSUME NEW t \in Threads, Call(t) PROVE MmapInv'
  BY <1>1, CallMallocKeeps, CallFreeKeeps, CallSizedFreeKeeps, CallGetSizeKeeps DEF Call
<1>2. ASSUME NEW t \in Threads, Inside(t) PROVE MmapInv'
  BY <1>2, MmapKeeps, TakeLockKeeps, RecordKeeps, GiveKeeps, FindKeeps, UnmapKeeps,
     EraseKeeps, ReturnKeeps, SizedUnmapKeeps, LookKeeps DEF Inside
<1>3. CASE UNCHANGED vars
  <2> USE <1>3 DEF vars, clientVars, MmapInv
  <2>1. \A u \in Threads : InFlight(u)' = InFlight(u)
    BY DEF InFlight
  <2>2. BlockInv' /\ PagesAccounted'
    BY <2>1, BlocksKept
  <2>3. TypeOK'
    BY DEF TypeOK
  <2>4. LockInv' /\ CallInv' /\ EraseInv'
    BY DEF LockInv, CallInv, EraseInv
  <2> QED
    BY <2>2, <2>3, <2>4
<1> QED
  BY <1>1, <1>2, <1>3 DEF Next

-----------------------------------------------------------------------------
(* The results.                                                            *)

(* The inductive invariant holds in every reachable state. *)
THEOREM MmapInvariant == Spec => []MmapInv
<1>1. Init => MmapInv
  BY InitInv
<1>2. MmapInv /\ [Next]_vars => MmapInv'
  BY StepInv
<1> QED
  BY <1>1, <1>2, PTL DEF Spec

(* The state of MmapHeap keeps its types; the map holds requested sizes.   *)
THEOREM MmapTypeCorrect == Spec => []TypeOK
<1>1. MmapInv => TypeOK
  BY DEF MmapInv
<1> QED
  BY <1>1, MmapInvariant, PTL

(* MyMap is right about every block a client owns, and free and getSize    *)
(* read the size that was asked for.                                       *)
THEOREM MmapEntryIsTrue == Spec => []EntryIsTrue
<1>1. MmapInv => EntryIsTrue
  BY DEF MmapInv, BlockInv, CallInv, EntryIsTrue
<1> QED
  BY <1>1, MmapInvariant, PTL

(* No page leaks and none is unmapped under its owner. *)
THEOREM MmapPagesAccounted == Spec => []PagesAccounted
<1>1. MmapInv => PagesAccounted
  BY DEF MmapInv
<1> QED
  BY <1>1, MmapInvariant, PTL

-----------------------------------------------------------------------------
(* The refinement of HeapContract.                                         *)

InBytes(b) == <<b[1] * PageSize, b[2]>>
ByteBlocks == {<<b[1] * PageSize, b[2]>> : b \in live}
Requests == [t \in Threads |-> IF place[t] \in MallocPlaces THEN sz[t] ELSE 0]

(* Blocks that share no page share no byte. *)
LEMMA SeparateDisjoint ==
  ASSUME NEW b \in Blocks, NEW c \in Blocks, b[2] # 0, c[2] # 0, Separate(b, c)
  PROVE  Contract!Disjoint(InBytes(b), InBytes(c))
<1> DEFINE p == b[1]
           q == c[1]
           m == PageCount(b[2])
           n == PageCount(c[2])
<1>1. p \in Nat /\ q \in Nat /\ b[2] \in Nat /\ c[2] \in Nat
  BY BlockFacts
<1>2. m \in Nat /\ n \in Nat /\ m >= 1 /\ n >= 1 /\ b[2] <= m * PageSize /\ c[2] <= n * PageSize
  BY <1>1, PageCountFacts
<1>3. p + m <= q \/ q + n <= p
  <2> HIDE DEF m, n
  <2>1. (p .. p + m - 1) \intersect (q .. q + n - 1) = {}
    BY DEF Separate, PagesOf, m, n
  <2> SUFFICES ASSUME ~(p + m <= q), ~(q + n <= p) PROVE FALSE
    OBVIOUS
  <2>2. CASE p <= q
    BY <1>1, <1>2, <2>1, <2>2
  <2>3. CASE q <= p
    BY <1>1, <1>2, <2>1, <2>3
  <2> QED
    BY <1>1, <2>2, <2>3
<1>4. ASSUME NEW i \in Nat, NEW j \in Nat, NEW k \in Nat, NEW l \in Nat,
             i + k <= j, l <= k * PageSize
      PROVE  i * PageSize + l <= j * PageSize
  <2>1. (i + k) * PageSize <= j * PageSize
    BY <1>4, PageOrder
  <2>2. (i + k) * PageSize = i * PageSize + k * PageSize
    OBVIOUS
  <2>3. i * PageSize \in Nat /\ k * PageSize \in Nat /\ j * PageSize \in Nat
    OBVIOUS
  <2> QED
    BY <1>4, <2>1, <2>2, <2>3
<1>5. p * PageSize + b[2] <= q * PageSize \/ q * PageSize + c[2] <= p * PageSize
  <2> HIDE DEF m, n, p, q
  <2> QED
    BY <1>1, <1>2, <1>3, <1>4 DEF p, q
<1>6. p * PageSize \in Nat /\ q * PageSize \in Nat
  BY <1>1
<1> QED
  BY <1>1, <1>5, <1>6 DEF Contract!Disjoint, Contract!Bytes, InBytes

(* Live blocks that map to the same bytes are the same. *)
LEMMA InBytesInjective ==
  ASSUME MmapInv, NEW b \in live, NEW c \in live, InBytes(b) = InBytes(c)
  PROVE  b = c
<1>1. b \in Blocks /\ c \in Blocks
  BY DEF MmapInv, TypeOK
<1>2. b[1] * PageSize = c[1] * PageSize /\ b[2] = c[2]
  BY DEF InBytes
<1>3. b[1] = c[1]
  BY <1>1, <1>2, BlockFacts, PageInjective
<1> QED
  BY <1>1, <1>2, <1>3, BlockFacts

LEMMA CallMallocRefines ==
  ASSUME MmapInv, NEW t \in Threads, CallMalloc(t)
  PROVE  Contract!Malloc(t)
<1>1. PICK n \in Sizes : sz' = [sz EXCEPT ![t] = n]
  BY DEF CallMalloc
<1>2. /\ place[t] = "client" /\ place' = [place EXCEPT ![t] = "mmap"]
      /\ live' = live /\ owned' = owned /\ n \in Nat \ {0}
  BY DEF CallMalloc, Goto, clientVars
<1>3. Requests[t] = 0 /\ Requests' = [Requests EXCEPT ![t] = n] /\ Requests'[t] = n
  BY <1>1, <1>2 DEF Requests, MallocPlaces, MmapInv, TypeOK
<1> QED
  BY <1>2, <1>3 DEF Contract!Malloc, Requests

LEMMA GiveRefines ==
  ASSUME MmapInv, NEW t \in Threads, Give(t)
  PROVE  Contract!Deliver(t)
<1> DEFINE b == block[t]
<1>1. /\ place[t] = "give" /\ place' = [place EXCEPT ![t] = "client"]
      /\ sz' = [sz EXCEPT ![t] = 0]
      /\ IF b[1] = NULL THEN live' = live /\ owned' = owned
                        ELSE live' = live \union {b} /\ owned' = owned + 1
  BY DEF Give, Goto, clientVars
<1>2. b \in Blocks /\ b[2] = sz[t] /\ b[2] # 0 /\ b[2] \in Nat
  BY <1>1, BlockFacts DEF MmapInv, CallInv, TypeOK
<1>3. Requests[t] = sz[t] /\ Requests[t] # 0 /\ Requests' = [Requests EXCEPT ![t] = 0]
  BY <1>1, <1>2 DEF Requests, MallocPlaces, MmapInv, TypeOK
<1>4. CASE b[1] = NULL
  <2>1. ByteBlocks' = ByteBlocks /\ owned' = owned
    BY <1>1, <1>4 DEF ByteBlocks
  <2> QED
    BY <1>3, <2>1 DEF Contract!Deliver, Requests, ByteBlocks
<1>5. CASE b[1] # NULL
  <2>1. b \in InFlight(t)
    BY <1>1, <1>5 DEF InFlight
  <2>2. \A c \in live : Contract!Disjoint(InBytes(b), InBytes(c))
    <3> TAKE c \in live
    <3>1. Separate(b, c)
      BY <2>1 DEF MmapInv, BlockInv
    <3>2. c \in Blocks /\ c[2] # 0
      BY DEF MmapInv, BlockInv, TypeOK
    <3> QED
      BY <1>2, <3>1, <3>2, SeparateDisjoint
  <2>3. ByteBlocks' = ByteBlocks \union {InBytes(b)} /\ owned' = owned + 1
    <3> HIDE DEF b
    <3> QED
      BY <1>1, <1>5 DEF ByteBlocks, InBytes
  <2>4. \A c \in ByteBlocks : Contract!Disjoint(InBytes(b), c)
    BY <2>2 DEF ByteBlocks, InBytes
  <2>5. InBytes(b)[2] >= Requests[t]
    BY <1>2, <1>3 DEF InBytes
  <2> HIDE DEF b
  <2> QED
    BY <1>3, <2>3, <2>4, <2>5 DEF Contract!Deliver, Requests, ByteBlocks
<1> QED
  BY <1>4, <1>5

LEMMA GiveUpRefines ==
  ASSUME MmapInv, NEW t \in Threads, CallFree(t) \/ CallSizedFree(t)
  PROVE  Contract!Free
<1>1. PICK b \in live : live' = live \ {b} /\ owned' = owned - 1
  BY DEF CallFree, CallSizedFree, GiveUp
<1>2. Requests' = Requests
  <2>1. \A u \in Threads : /\ place'[u] \in MallocPlaces <=> place[u] \in MallocPlaces
                           /\ place[u] \in MallocPlaces => sz'[u] = sz[u]
    BY DEF CallFree, CallSizedFree, Goto, MallocPlaces, MmapInv, TypeOK
  <2> QED
    BY <2>1 DEF Requests
<1>3. InBytes(b) \in ByteBlocks /\ ByteBlocks' = ByteBlocks \ {InBytes(b)}
  <2>1. \A c \in live : InBytes(c) = InBytes(b) => c = b
    BY InBytesInjective
  <2> QED
    BY <1>1, <2>1 DEF ByteBlocks, InBytes
<1> QED
  BY <1>1, <1>2, <1>3 DEF Contract!Free, ByteBlocks, Requests

(* All other steps are invisible to clients. *)
LEMMA InsideStutters ==
  ASSUME MmapInv, NEW t \in Threads,
         \/ CallGetSize(t) \/ Mmap(t) \/ TakeLock(t) \/ Record(t) \/ Find(t) \/ Unmap(t)
         \/ Erase(t) \/ Return(t) \/ SizedUnmap(t) \/ Look(t)
  PROVE  UNCHANGED <<ByteBlocks, owned, Requests>>
<1> USE DEF CallGetSize, Mmap, TakeLock, Record, Find, Unmap, Erase, Return, SizedUnmap, Look
<1>1. live' = live /\ owned' = owned
  BY DEF clientVars
<1>2. \A u \in Threads : place'[u] \in MallocPlaces <=> place[u] \in MallocPlaces
  BY DEF Goto, MallocPlaces, MmapInv, TypeOK
<1>3. \A u \in Threads : place[u] \in MallocPlaces => sz'[u] = sz[u]
  BY DEF Goto, MallocPlaces, MmapInv, TypeOK, Lookup
<1>4. Requests' = Requests
  BY <1>2, <1>3 DEF Requests
<1> QED
  BY <1>1, <1>4 DEF ByteBlocks

LEMMA MmapStepRefines ==
  ASSUME MmapInv, [Next]_vars
  PROVE  [Contract!Next]_<<ByteBlocks, owned, Requests>>
<1>1. ASSUME NEW t \in Threads, Call(t) \/ Inside(t)
      PROVE  [Contract!Next]_<<ByteBlocks, owned, Requests>>
  BY <1>1, CallMallocRefines, GiveRefines, GiveUpRefines, InsideStutters
     DEF Call, Inside, Contract!Next
<1>2. ASSUME UNCHANGED vars
      PROVE  UNCHANGED <<ByteBlocks, owned, Requests>>
  BY <1>2 DEF vars, clientVars, ByteBlocks, Requests
<1> QED
  BY <1>1, <1>2 DEF Next

(* MmapHeap implements the contract of a heap: blocks as large as was      *)
(* asked for, that share no byte while clients own them.                   *)
THEOREM MmapImplementsContract == Spec => ImplementsContract
<1>1. Init => Contract!Init
  BY DEF Init, Contract!Init, MallocPlaces
<1>2. MmapInv /\ [Next]_vars => [Contract!Next]_<<ByteBlocks, owned, Requests>>
  BY MmapStepRefines
<1>3. Spec => []MmapInv
  BY MmapInvariant
<1> QED
  BY <1>1, <1>2, <1>3, PTL DEF Spec, ImplementsContract, Contract!Spec, ByteBlocks, Requests
=============================================================================
