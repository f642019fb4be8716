------------------------------- MODULE Facts -------------------------------
(* Facts the proofs of several heaps need: on multiples, on finite sets,   *)
(* and on linked lists and walks along them.  The library's induction      *)
(* theorems take a predicate, which the provers cannot instantiate; here   *)
(* induction is over a set of numbers, or of sets, that has the property.  *)
EXTENDS FreeLists, Integers, Functions, FiniteSetTheorems, WellFoundedInduction, TLAPS

(* Division with remainder. *)
LEMMA Division ==
  ASSUME NEW n \in Nat \ {0}, NEW x \in Nat
  PROVE  x \div n \in Nat /\ (x % n) \in 0 .. n - 1 /\ x = (x \div n) * n + (x % n)
OBVIOUS

(* Multiples of n are n apart. *)
LEMMA MultiplesApart ==
  ASSUME NEW n \in Nat \ {0}, NEW p \in Int, NEW q \in Int, p * n < q * n
  PROVE  p * n + n <= q * n
<1>1. p < q
  OBVIOUS
<1>2. (p + 1) * n <= q * n
  BY <1>1
<1> QED BY <1>2

(* A multiple leaves no remainder. *)
LEMMA MultipleMod ==
  ASSUME NEW n \in Nat \ {0}, NEW q \in Nat
  PROVE  (q * n) % n = 0
<1>1. q * n \in Nat
  OBVIOUS
<1> DEFINE x == q * n
           d == x \div n
           r == x % n
<1>2. d \in Nat /\ r \in 0 .. n - 1 /\ x = d * n + r
  <2> HIDE DEF x
  <2> QED BY <1>1, Division DEF x
<1>3. d * n <= q * n /\ q * n < d * n + n
  <2> HIDE DEF d, r
  <2> QED BY <1>2
<1>4. d * n = q * n
  <2> HIDE DEF d, r, x
  <2> QED BY <1>2, <1>3, MultiplesApart
<1> QED
  <2> HIDE DEF d, r
  <2>1. r = 0
    BY <1>2, <1>4
  <2> QED BY <2>1 DEF r

(* What leaves no remainder is a multiple. *)
LEMMA ModMultiple ==
  ASSUME NEW n \in Nat \ {0}, NEW x \in Nat, x % n = 0
  PROVE  \E q \in Nat : x = q * n
<1>1. x = (x \div n) * n /\ x \div n \in Nat
  BY Division
<1> QED BY <1>1

(* The next multiple. *)
LEMMA NextMultiple ==
  ASSUME NEW n \in Nat \ {0}, NEW x \in Nat, x % n = 0
  PROVE  (x + n) % n = 0
<1>1. PICK q \in Nat : x = q * n
  BY ModMultiple
<1>2. x + n = (q + 1) * n
  BY <1>1
<1>3. ((q + 1) * n) % n = 0
  <2>1. q + 1 \in Nat
    OBVIOUS
  <2> HIDE <1>2
  <2> QED BY <2>1, MultipleMod
<1> QED BY <1>2, <1>3

(* Different multiples are at least n apart. *)
LEMMA ModApart ==
  ASSUME NEW n \in Nat \ {0}, NEW x \in Nat, NEW y \in Nat,
         x % n = 0, y % n = 0, x < y
  PROVE  x + n <= y
<1>1. PICK p \in Nat, q \in Nat : x = p * n /\ y = q * n
  BY ModMultiple
<1> QED BY <1>1, MultiplesApart

(* A set with 0 and the successors of its numbers has all of them: the     *)
(* finite sets 0 .. y are well-founded by inclusion.                       *)
LEMMA SetInduction ==
  ASSUME NEW T, 0 \in T, \A n \in Nat : n \in T => n + 1 \in T
  PROVE  Nat \subseteq T
<1> SUFFICES ASSUME NEW x \in Nat, x \notin T PROVE FALSE
  OBVIOUS
<1> DEFINE S == 0 .. x
           U == {0 .. y : y \in S \ T}
           R == StrictSubsetOrdering(S)
<1>1. IsWellFoundedOn(R, SUBSET S)
  <2>1. IsFiniteSet(S)
    BY FS_Interval
  <2>2. FiniteSubsetsOf(S) = SUBSET S
    BY <2>1, FS_FiniteSubsetsOfFinite
  <2> HIDE DEF S
  <2> QED BY <2>2, FS_StrictSubsetOrderingWellFounded
<1>2. U \subseteq SUBSET S /\ U # {}
  OBVIOUS
<1>3. PICK u \in U : \A v \in U : ~(<<v, u>> \in R)
  <2> HIDE DEF R, U, S
  <2> QED BY <1>1, <1>2, WFMin
<1>4. PICK y \in S \ T : u = 0 .. y
  OBVIOUS
<1>5. y # 0 /\ y - 1 \in Nat /\ (y - 1) + 1 = y
  BY <1>4
<1>6. y - 1 \notin T /\ y - 1 \in S
  BY <1>4, <1>5
<1>7. <<0 .. y - 1, u>> \in R
  BY <1>4, <1>5, <1>6 DEF StrictSubsetOrdering
<1> QED BY <1>3, <1>6, <1>7

(* The same for finite sets, built up one element at a time. *)
LEMMA FiniteSetInduction ==
  ASSUME NEW S, IsFiniteSet(S), NEW T, {} \in T,
         \A A \in SUBSET S : \A x \in S \ A : A \in T => A \union {x} \in T
  PROVE  S \in T
<1> SUFFICES ASSUME S \notin T PROVE FALSE
  OBVIOUS
<1> DEFINE R == StrictSubsetOrdering(S)
           U == (SUBSET S) \ T
<1>1. IsWellFoundedOn(R, SUBSET S)
  <2>1. FiniteSubsetsOf(S) = SUBSET S
    BY FS_FiniteSubsetsOfFinite
  <2> QED BY <2>1, FS_StrictSubsetOrderingWellFounded
<1>2. PICK u \in U : \A v \in U : ~(<<v, u>> \in R)
  <2>1. U \subseteq SUBSET S /\ U # {}
    OBVIOUS
  <2> HIDE DEF R, U
  <2> QED BY <1>1, <2>1, WFMin
<1>3. PICK x \in u : TRUE
  OBVIOUS
<1>4. u \ {x} \in SUBSET S /\ x \in S \ (u \ {x}) /\ (u \ {x}) \union {x} = u
  BY <1>3
<1>5. <<u \ {x}, u>> \in R
  BY <1>3, <1>4 DEF StrictSubsetOrdering
<1>6. u \ {x} \notin T
  BY <1>4
<1> QED BY <1>2, <1>4, <1>5, <1>6

(* w[i] is where i links from h lead: null once a link leaves D. *)
Follows(w, k, h, next, D, null) ==
  w = [i \in 0 .. k |-> IF i = 0 THEN h ELSE IF w[i - 1] \in D THEN next[w[i - 1]] ELSE null]

(* The function that follows k links from h exists, so what CHOOSE picks   *)
(* for its recursive definition is it.                                     *)
LEMMA WalkExists ==
  ASSUME NEW k \in Nat, NEW h, NEW next, NEW D, NEW null
  PROVE  \E w : Follows(w, k, h, next, D, null)
<1> DEFINE Step(w, i) == IF i = 0 THEN h ELSE IF w[i - 1] \in D THEN next[w[i - 1]] ELSE null
           T == {n \in Nat : \E w : w = [i \in 0 .. n |-> Step(w, i)]}
<1>1. 0 \in T
  <2> DEFINE w == [i \in 0 .. 0 |-> h]
  <2>1. w = [i \in 0 .. 0 |-> Step(w, i)]
    OBVIOUS
  <2> QED BY <2>1
<1>2. ASSUME NEW n \in Nat, n \in T PROVE n + 1 \in T
  <2>1. PICK v : v = [i \in 0 .. n |-> Step(v, i)]
    BY <1>2
  <2> DEFINE w == [i \in 0 .. n + 1 |-> IF i <= n THEN v[i] ELSE Step(v, i)]
  <2>2. ASSUME NEW i \in 0 .. n + 1 PROVE w[i] = Step(w, i)
    <3>1. CASE i <= n /\ i # 0
      <4>1. i \in 0 .. n /\ i - 1 \in 0 .. n /\ i - 1 \in 0 .. n + 1 /\ i - 1 <= n
        BY <3>1
      <4>2. w[i - 1] = v[i - 1] /\ w[i] = v[i]
        BY <3>1, <4>1
      <4>3. v[i] = Step(v, i)
        BY <2>1, <4>1
      <4> QED BY <4>2, <4>3, <3>1
    <3>2. CASE i = 0
      BY <2>1, <3>2
    <3>3. CASE i = n + 1
      <4>1. n \in 0 .. n /\ i - 1 = n /\ ~(n + 1 <= n) /\ n \in 0 .. n + 1
        BY <3>3
      <4>2. w[n] = v[n] /\ w[i] = Step(v, i)
        BY <4>1, <3>3
      <4> QED BY <4>1, <4>2
    <3> QED BY <3>1, <3>2, <3>3
  <2>3. w = [i \in 0 .. n + 1 |-> Step(w, i)]
    <3> DEFINE u == [i \in 0 .. n + 1 |-> Step(w, i)]
    <3>1. \A i \in 0 .. n + 1 : w[i] = u[i]
      <4> HIDE DEF w
      <4> QED BY <2>2
    <3>2. w = [i \in 0 .. n + 1 |-> w[i]] /\ u = [i \in 0 .. n + 1 |-> u[i]]
      OBVIOUS
    <3> HIDE DEF w, u
    <3> QED BY <3>1, <3>2 DEF u
  <2> HIDE DEF w
  <2> QED BY <2>3
<1>3. k \in T
  <2> HIDE DEF T
  <2> QED BY <1>1, <1>2, SetInduction
<1> QED BY <1>3 DEF Follows

-----------------------------------------------------------------------------
(* get(): a list without its head is a list. *)
LEMMA ListTail ==
  ASSUME NEW h, NEW next, NEW S, NEW null, IsList(h, next, S, null), h # null
  PROVE  h \in S /\ IsList(next[h], next, S \ {h}, null)
<1>1. h \in S /\ null \notin S \ {h} /\ next[h] \in (S \ {h}) \union {null}
  BY DEF IsList
<1>2. ASSUME NEW o \in S \ {h}
      PROVE  /\ next[o] \in (S \ {h}) \union {null}
             /\ next[o] = next[h] => next[h] = null
             /\ \A p \in S \ {h} : next[o] = next[p] /\ o # p => next[o] = null
  BY <1>1 DEF IsList
<1>3. ASSUME NEW part \in SUBSET (S \ {h}), next[h] \in part \union {null},
             \A o \in part : next[o] \in part \union {null}
      PROVE  part = S \ {h}
  <2>1. part \union {h} \in SUBSET S /\ h \in (part \union {h}) \union {null}
    BY <1>1
  <2>2. \A o \in part \union {h} : next[o] \in (part \union {h}) \union {null}
    BY <1>3
  <2>3. part \union {h} = S
    BY <2>1, <2>2 DEF IsList
  <2> QED BY <2>3
<1> QED BY <1>1, <1>2, <1>3 DEF IsList

(* A list whose head is null has no object. *)
LEMMA EmptyList ==
  ASSUME NEW next, NEW S, NEW null, IsList(null, next, S, null)
  PROVE  S = {}
<1>1. {} \in SUBSET S /\ null \in {} \union {null}
  OBVIOUS
<1> QED BY <1>1 DEF IsList

(* insert(): an object that leads to the head can be the new head. *)
LEMMA ListPush ==
  ASSUME NEW h, NEW next, NEW S, NEW null, IsList(h, next, S, null),
         NEW o, o \notin S, o # null, next[o] = h
  PROVE  IsList(o, next, S \union {o}, null)
<1>1. null \notin S \union {o} /\ h # o
  BY DEF IsList
<1>2. ASSUME NEW p \in S \union {o}
      PROVE  /\ next[p] \in (S \union {o}) \union {null}
             /\ next[p] = o => o = null
             /\ \A q \in S \union {o} : next[p] = next[q] /\ p # q => next[p] = null
  BY <1>1 DEF IsList
<1>3. ASSUME NEW part \in SUBSET (S \union {o}), o \in part,
             \A p \in part : next[p] \in part \union {null}
      PROVE  part = S \union {o}
  <2>1. part \ {o} \in SUBSET S /\ h \in (part \ {o}) \union {null}
    BY <1>1, <1>3
  <2>2. \A p \in part \ {o} : next[p] \in (part \ {o}) \union {null}
    BY <1>3, <1>1 DEF IsList
  <2>3. part \ {o} = S
    BY <2>1, <2>2 DEF IsList
  <2> QED BY <2>3, <1>3
<1> QED BY <1>1, <1>2, <1>3 DEF IsList

(* Only the links of the list's own objects matter. *)
LEMMA SameList ==
  ASSUME NEW h, NEW next, NEW link, NEW S, NEW null, IsList(h, next, S, null),
         \A o \in S : link[o] = next[o]
  PROVE  IsList(h, link, S, null)
BY DEF IsList

(* The values of the first n steps. *)
Visited(w, n) == {w[i] : i \in 0 .. n - 1}

LEMMA VisitsAll ==
  ASSUME NEW k \in Nat, NEW u, NEW A, \A i \in 0 .. k : u[i] \in A,
         \A a \in A : \E i \in 0 .. k : a = u[i]
  PROVE  Visited(u, k + 1) = A
<1>1. 0 .. (k + 1) - 1 = 0 .. k
  OBVIOUS
<1> QED BY <1>1 DEF Visited

(* Following the links of a list as often as it has objects visits each    *)
(* and ends at null.                                                       *)
LEMMA WalkVisits ==
  ASSUME NEW D, NEW S \in SUBSET D, IsFiniteSet(S), NEW h, NEW next, NEW null,
         IsList(h, next, S, null), NEW w, Follows(w, Cardinality(S), h, next, D, null)
  PROVE  Visited(w, Cardinality(S)) = S /\ w[Cardinality(S)] = null
<1> DEFINE Step(u, g, i) == IF i = 0 THEN g ELSE IF u[i - 1] \in D THEN next[u[i - 1]] ELSE null
           Good(k, A, g, u) ==
              /\ IsFiniteSet(A) /\ Cardinality(A) = k /\ IsList(g, next, A, null)
              /\ Follows(u, k, g, next, D, null)
              => Visited(u, k) = A /\ u[k] = null
           T == {k \in Nat : \A A \in SUBSET D : \A g, u : Good(k, A, g, u)}
<1>1. 0 \in T
  <2> SUFFICES ASSUME NEW A \in SUBSET D, NEW g, NEW u, IsFiniteSet(A), Cardinality(A) = 0,
                      IsList(g, next, A, null), Follows(u, 0, g, next, D, null)
               PROVE  Visited(u, 0) = A /\ u[0] = null
    OBVIOUS
  <2>1. A = {} /\ g = null
    BY FS_EmptySet DEF IsList
  <2>2. 0 .. 0 - 1 = {} /\ 0 \in 0 .. 0
    OBVIOUS
  <2>3. u[0] = g
    BY <2>2 DEF Follows
  <2> QED BY <2>1, <2>2, <2>3 DEF Visited
<1>2. ASSUME NEW k \in Nat, k \in T PROVE k + 1 \in T
  <2> SUFFICES ASSUME NEW A \in SUBSET D, NEW g, NEW u, IsFiniteSet(A), Cardinality(A) = k + 1,
                      IsList(g, next, A, null), Follows(u, k + 1, g, next, D, null)
               PROVE  Visited(u, k + 1) = A /\ u[k + 1] = null
    OBVIOUS
  <2>1. A # {}
    BY FS_EmptySet
  <2>2. g # null
    BY <2>1, EmptyList
  <2> DEFINE B == A \ {g}
             v == [i \in 0 .. k |-> u[i + 1]]
  <2>3. g \in A /\ IsList(next[g], next, B, null)
    BY <2>2, ListTail
  <2>4. IsFiniteSet(B) /\ Cardinality(B) = k
    <3>1. IsFiniteSet(A \ {g}) /\ Cardinality(A \ {g}) = Cardinality(A) - 1
      <4> HIDE DEF Good, Step, v, B, T
      <4> QED BY <2>3, FS_RemoveElement
    <3>2. (k + 1) - 1 = k
      OBVIOUS
    <3> QED BY <3>1, <3>2
  <2>5. u[0] = g /\ g \in D
    <3>1. 0 \in 0 .. k + 1
      OBVIOUS
    <3> QED BY <2>3, <3>1 DEF Follows
  <2>6. ASSUME NEW i \in 0 .. k PROVE v[i] = Step(v, next[g], i)
    <3>1. i + 1 \in 0 .. k + 1 /\ i + 1 # 0 /\ (i + 1) - 1 = i
      OBVIOUS
    <3>2. u[i + 1] = Step(u, g, i + 1)
      BY <3>1 DEF Follows
    <3>3. u[i + 1] = IF u[i] \in D THEN next[u[i]] ELSE null
      BY <3>1, <3>2
    <3>4. CASE i = 0
      BY <2>5, <3>3, <3>4
    <3>5. CASE i # 0
      <4>1. i - 1 \in 0 .. k /\ (i - 1) + 1 = i
        BY <3>5
      <4>2. v[i - 1] = u[i]
        BY <4>1
      <4> QED BY <3>3, <3>5, <4>2
    <3> QED BY <3>4, <3>5
  <2>7. Follows(v, k, next[g], next, D, null)
    <3> DEFINE x == [i \in 0 .. k |-> Step(v, next[g], i)]
    <3>1. \A i \in 0 .. k : v[i] = x[i]
      <4> HIDE DEF v
      <4> QED BY <2>6
    <3>2. v = [i \in 0 .. k |-> v[i]] /\ x = [i \in 0 .. k |-> x[i]]
      OBVIOUS
    <3> HIDE DEF v, x
    <3> QED BY <3>1, <3>2 DEF x, Follows
  <2>8. Good(k, B, next[g], v)
    <3> HIDE DEF Good, v
    <3> QED BY <1>2
  <2>9. Visited(v, k) = B /\ v[k] = null
    <3> HIDE DEF v, B
    <3> QED BY <2>3, <2>4, <2>7, <2>8
  <2>10. \A i \in 0 .. k : v[i] = u[i + 1]
    OBVIOUS
  <2>11. u[k + 1] = null
    BY <2>9, <2>10
  <2>12. ASSUME NEW i \in 0 .. k PROVE u[i] \in A
    <3>1. CASE i = 0
      BY <2>3, <2>5, <3>1
    <3>2. CASE i # 0
      <4>1. i - 1 \in 0 .. k - 1 /\ i - 1 \in 0 .. k /\ (i - 1) + 1 = i
        BY <3>2
      <4>2. v[i - 1] \in B /\ v[i - 1] = u[i]
        <5> HIDE DEF v, B
        <5> QED BY <2>9, <2>10, <4>1 DEF Visited
      <4> QED BY <4>2
    <3> QED BY <3>1, <3>2
  <2>13. ASSUME NEW a \in A PROVE \E i \in 0 .. k : a = u[i]
    <3>1. CASE a = g
      BY <2>5, <3>1
    <3>2. CASE a # g
      <4>1. PICK i \in 0 .. k - 1 : a = v[i]
        <5>1. a \in B
          BY <3>2
        <5> HIDE DEF v, B
        <5> QED BY <2>9, <5>1 DEF Visited
      <4>2. i \in 0 .. k /\ i + 1 \in 0 .. k
        OBVIOUS
      <4> QED BY <2>10, <4>1, <4>2
    <3> QED BY <3>1, <3>2
  <2>14. Visited(u, k + 1) = A
    <3> HIDE DEF Good, Step, v, B, T
    <3> QED BY <2>12, <2>13, VisitsAll
  <2> QED BY <2>11, <2>14
<1>3. Cardinality(S) \in Nat
  BY FS_CardinalityType
<1>4. Cardinality(S) \in T
  <2> HIDE DEF T
  <2> QED BY <1>1, <1>2, <1>3, SetInduction
<1>5. Good(Cardinality(S), S, h, w)
  <2> HIDE DEF Good
  <2> QED BY <1>4
<1> QED BY <1>5

-----------------------------------------------------------------------------
(* Sums, as SumFunction takes them: it is the sum over every part of S,    *)
(* the elements taken in the order CHOOSE finds them.                      *)
Some(s) == CHOOSE x \in s : TRUE
Summing(it, S, f) ==
  it = [s \in SUBSET S |-> IF s = {} THEN 0 ELSE f[Some(s)] + it[s \ {Some(s)}]]

LEMMA SumIs ==
  ASSUME NEW f
  PROVE  SumFunction(f) = (CHOOSE it : Summing(it, DOMAIN f, f))[DOMAIN f]
BY DEF SumFunction, SumFunctionOnSet, FoldFunctionOnSet, MapThenFoldSet, Summing, Some

(* A part without one of its elements is a smaller part. *)
LEMMA OneLess ==
  ASSUME NEW S, IsFiniteSet(S), NEW s \in SUBSET S, NEW x \in s
  PROVE  /\ s \ {x} \in SUBSET S /\ IsFiniteSet(s)
         /\ Cardinality(s) \in Nat /\ Cardinality(s \ {x}) \in Nat
         /\ Cardinality(s \ {x}) = Cardinality(s) - 1
<1>1. IsFiniteSet(s)
  BY FS_Subset
<1>2. IsFiniteSet(s \ {x}) /\ Cardinality(s \ {x}) = Cardinality(s) - 1
  BY <1>1, FS_RemoveElement
<1> QED BY <1>1, <1>2, FS_CardinalityType

LEMMA SomeIn == ASSUME NEW s, s # {} PROVE Some(s) \in s
BY DEF Some

(* The sums exist: they are built up for larger and larger parts. *)
LEMMA SummingExists ==
  ASSUME NEW S, IsFiniteSet(S), NEW f
  PROVE  \E it : Summing(it, S, f)
<1> DEFINE Step(it, s) == IF s = {} THEN 0 ELSE f[Some(s)] + it[s \ {Some(s)}]
           Small(n) == {s \in SUBSET S : Cardinality(s) <= n}
           Sums(it, n) == it = [s \in Small(n) |-> Step(it, s)]
           T == {n \in Nat : \E it : Sums(it, n)}
<1>0. \A s \in SUBSET S : IsFiniteSet(s) /\ Cardinality(s) \in Nat
  BY FS_Subset, FS_CardinalityType
<1>1. 0 \in T
  <2> DEFINE it == [s \in Small(0) |-> 0]
  <2>1. \A s \in Small(0) : s = {}
    BY <1>0, FS_EmptySet
  <2>2. Sums(it, 0)
    BY <2>1
  <2> HIDE DEF Sums, it
  <2> QED BY <2>2
<1>2. ASSUME NEW n \in Nat, n \in T PROVE n + 1 \in T
  <2>1. PICK v : Sums(v, n)
    BY <1>2
  <2>2. \A s \in Small(n) : v[s] = Step(v, s)
    BY <2>1
  <2> DEFINE it == [s \in Small(n + 1) |-> IF Cardinality(s) <= n THEN v[s] ELSE Step(v, s)]
  <2>3. ASSUME NEW s \in Small(n + 1) PROVE it[s] = Step(it, s)
    <3>0. s \in SUBSET S /\ Cardinality(s) <= n + 1 /\ Cardinality(s) \in Nat
      BY <1>0
    <3>1. CASE s = {}
      <4>1. s \in Small(n) /\ Cardinality(s) <= n
        BY <3>1, FS_EmptySet
      <4>2. it[s] = v[s] /\ v[s] = Step(v, s)
        <5> HIDE DEF Step
        <5> QED BY <2>2, <4>1
      <4> QED BY <3>1, <4>2
    <3>2. CASE s # {}
      <4> DEFINE r == s \ {Some(s)}
      <4>1. r \in SUBSET S /\ Cardinality(r) = Cardinality(s) - 1 /\ Cardinality(r) \in Nat
        BY <3>0, <3>2, SomeIn, OneLess
      <4>2. r \in Small(n) /\ r \in Small(n + 1) /\ Cardinality(r) <= n
        <5> HIDE DEF r
        <5> QED BY <3>0, <4>1
      <4>3. it[r] = v[r]
        <5> HIDE DEF r, Step, Small
        <5> QED BY <4>2
      <4>4. it[s] = Step(v, s)
        <5>1. s \in Small(n) \/ ~(Cardinality(s) <= n)
          BY <3>0
        <5>2. s \in Small(n) => Cardinality(s) <= n
          OBVIOUS
        <5> HIDE DEF Step, Small
        <5> QED BY <2>2, <5>1, <5>2
      <4>5. Step(v, s) = Step(it, s)
        <5> HIDE DEF it
        <5> QED BY <3>2, <4>3
      <4> QED BY <4>4, <4>5
    <3> QED BY <3>1, <3>2
  <2>4. Sums(it, n + 1)
    <3> DEFINE u == [s \in Small(n + 1) |-> Step(it, s)]
    <3>1. \A s \in Small(n + 1) : it[s] = u[s]
      <4> HIDE DEF it, Small, Step
      <4> QED BY <2>3
    <3>2. it = [s \in Small(n + 1) |-> it[s]] /\ u = [s \in Small(n + 1) |-> u[s]]
      <4> HIDE DEF Small, Step
      <4> QED OBVIOUS
    <3> HIDE DEF it, u, Small, Step
    <3> QED BY <3>1, <3>2 DEF u
  <2> HIDE DEF it, Sums
  <2> QED BY <2>4
<1>3. Cardinality(S) \in T
  <2> HIDE DEF T
  <2>1. Cardinality(S) \in Nat
    BY FS_CardinalityType
  <2> QED BY <1>1, <1>2, <2>1, SetInduction
<1>4. Small(Cardinality(S)) = SUBSET S
  BY FS_Subset
<1>5. PICK it : Sums(it, Cardinality(S))
  <2> HIDE DEF Sums
  <2> QED BY <1>3
<1>6. Summing(it, S, f)
  <2> HIDE DEF Small
  <2> QED BY <1>4, <1>5 DEF Summing
<1> QED BY <1>6

(* What the sum over one part is. *)
LEMMA SumStep ==
  ASSUME NEW S, NEW f, NEW it, Summing(it, S, f), NEW s \in SUBSET S
  PROVE  it[s] = IF s = {} THEN 0 ELSE f[Some(s)] + it[s \ {Some(s)}]
BY DEF Summing

LEMMA SumType ==
  ASSUME NEW S, IsFiniteSet(S), NEW f \in [S -> Int], NEW it, Summing(it, S, f)
  PROVE  \A s \in SUBSET S : it[s] \in Int
<1> DEFINE T == {n \in Nat : \A s \in SUBSET S : Cardinality(s) = n => it[s] \in Int}
<1>0. \A s \in SUBSET S : IsFiniteSet(s) /\ Cardinality(s) \in Nat
  BY FS_Subset, FS_CardinalityType
<1>1. 0 \in T
  <2>1. ASSUME NEW s \in SUBSET S, Cardinality(s) = 0 PROVE it[s] \in Int
    <3>1. s = {}
      BY <1>0, <2>1, FS_EmptySet
    <3> QED BY <3>1, SumStep
  <2> QED BY <2>1
<1>2. ASSUME NEW n \in Nat, n \in T PROVE n + 1 \in T
  <2>1. ASSUME NEW s \in SUBSET S, Cardinality(s) = n + 1 PROVE it[s] \in Int
    <3> DEFINE c == Some(s)
    <3>1. s # {} /\ c \in s
      BY <2>1, FS_EmptySet, SomeIn
    <3>2. it[s] = f[c] + it[s \ {c}]
      <4>1. s # {}
        BY <3>1
      <4> HIDE DEF T
      <4> QED BY <4>1, SumStep
    <3> HIDE DEF c
    <3>3. s \ {c} \in SUBSET S /\ Cardinality(s \ {c}) = n
      <4>1. Cardinality(s \ {c}) = (n + 1) - 1 /\ s \ {c} \in SUBSET S
        BY <2>1, <3>1, OneLess
      <4> QED BY <4>1
    <3>4. it[s \ {c}] \in Int /\ f[c] \in Int
      BY <1>2, <3>1, <3>3
    <3> QED BY <3>2, <3>4
  <2> QED BY <2>1
<1>3. Nat \subseteq T
  <2> HIDE DEF T
  <2> QED BY <1>1, <1>2, SetInduction
<1> QED BY <1>0, <1>3

(* The order does not matter: any element can be taken first. *)
LEMMA SumTake ==
  ASSUME NEW S, IsFiniteSet(S), NEW f \in [S -> Int], NEW it, Summing(it, S, f)
  PROVE  \A s \in SUBSET S : \A x \in s : it[s] = f[x] + it[s \ {x}]
<1> DEFINE Good(s) == \A x \in s : it[s] = f[x] + it[s \ {x}]
           T == {n \in Nat : \A s \in SUBSET S : Cardinality(s) = n => Good(s)}
<1>0. \A s \in SUBSET S : IsFiniteSet(s) /\ Cardinality(s) \in Nat
  BY FS_Subset, FS_CardinalityType
<1>1. 0 \in T
  <2>1. ASSUME NEW s \in SUBSET S, Cardinality(s) = 0 PROVE Good(s)
    <3>1. s = {}
      BY <1>0, <2>1, FS_EmptySet
    <3> QED BY <3>1
  <2> HIDE DEF Good
  <2> QED BY <2>1
<1>2. ASSUME NEW n \in Nat, n \in T PROVE n + 1 \in T
  <2>1. ASSUME NEW s \in SUBSET S, Cardinality(s) = n + 1, NEW x \in s
        PROVE  it[s] = f[x] + it[s \ {x}]
    <3> DEFINE c == Some(s)
    <3>1. c \in s
      BY SomeIn
    <3>2. it[s] = f[c] + it[s \ {c}]
      BY SumStep
    <3> HIDE DEF c
    <3>3. CASE x = c
      BY <3>2, <3>3
    <3>4. CASE x # c
      <4>1. x \in s \ {c} /\ c \in s \ {x} /\ (s \ {c}) \ {x} = (s \ {x}) \ {c}
        BY <3>1, <3>4
      <4>2. ASSUME NEW y \in s PROVE s \ {y} \in SUBSET S /\ Good(s \ {y})
        <5>1. Cardinality(s \ {y}) = (n + 1) - 1 /\ s \ {y} \in SUBSET S
          BY <2>1, OneLess
        <5>2. Cardinality(s \ {y}) = n
          BY <5>1
        <5>3. \A r \in SUBSET S : Cardinality(r) = n => Good(r)
          BY <1>2
        <5> HIDE DEF Good
        <5> QED BY <5>1, <5>2, <5>3
      <4>3. it[s \ {c}] = f[x] + it[(s \ {c}) \ {x}]
        BY <3>1, <4>1, <4>2
      <4>4. it[s \ {x}] = f[c] + it[(s \ {x}) \ {c}]
        BY <4>1, <4>2
      <4>5. f[x] \in Int /\ f[c] \in Int /\ it[(s \ {x}) \ {c}] \in Int
        BY <3>1, SumType
      <4>6. it[s \ {c}] = f[x] + it[(s \ {x}) \ {c}]
        BY <4>1, <4>3
      <4> HIDE DEF Good, T
      <4> QED BY <3>2, <4>4, <4>5, <4>6
    <3> QED BY <3>3, <3>4
  <2> QED BY <2>1
<1>3. Nat \subseteq T
  <2> HIDE DEF T, Good
  <2> QED BY <1>1, <1>2, SetInduction
<1>4. \A s \in SUBSET S : Good(s)
  <2> HIDE DEF Good
  <2> QED BY <1>0, <1>3
<1> QED BY <1>4

(* Sums of functions that agree are the same. *)
LEMMA SumAgrees ==
  ASSUME NEW S, IsFiniteSet(S), NEW f \in [S -> Int], NEW g \in [S -> Int],
         NEW it, Summing(it, S, f), NEW jt, Summing(jt, S, g),
         NEW s \in SUBSET S, \A y \in s : f[y] = g[y]
  PROVE  it[s] = jt[s]
<1> DEFINE T == {r \in SUBSET s : it[r] = jt[r]}
<1>1. {} \in T
  <2>1. {} \in SUBSET S
    OBVIOUS
  <2>2. it[{}] = 0 /\ jt[{}] = 0
    BY <2>1, SumStep
  <2> QED BY <2>2
<1>2. ASSUME NEW A \in SUBSET s, NEW x \in s \ A, A \in T PROVE A \union {x} \in T
  <2>1. A \union {x} \in SUBSET S /\ x \in A \union {x} /\ (A \union {x}) \ {x} = A
    OBVIOUS
  <2>2. it[A \union {x}] = f[x] + it[A]
    BY <2>1, SumTake
  <2>3. jt[A \union {x}] = g[x] + jt[A]
    BY <2>1, SumTake
  <2> QED BY <1>2, <2>2, <2>3
<1>3. s \in T
  <2>1. IsFiniteSet(s)
    BY FS_Subset
  <2> HIDE DEF T
  <2> QED BY <1>1, <1>2, <2>1, FiniteSetInduction
<1> QED BY <1>3

LEMMA SumFunctionType ==
  ASSUME NEW S, IsFiniteSet(S), NEW f \in [S -> Int]
  PROVE  SumFunction(f) \in Int
<1> DEFINE it == CHOOSE w : Summing(w, S, f)
<1>1. Summing(it, S, f)
  BY SummingExists
<1>2. SumFunction(f) = it[S]
  <2>1. DOMAIN f = S
    OBVIOUS
  <2> QED BY <2>1, SumIs
<1> HIDE DEF it
<1> QED BY <1>1, <1>2, SumType

(* Nothing adds up to nothing. *)
LEMMA SumZero ==
  ASSUME NEW S, IsFiniteSet(S), NEW f \in [S -> Int], \A x \in S : f[x] = 0
  PROVE  SumFunction(f) = 0
<1> DEFINE it == CHOOSE w : Summing(w, S, f)
           T == {r \in SUBSET S : it[r] = 0}
<1>1. Summing(it, S, f)
  BY SummingExists
<1>2. SumFunction(f) = it[S]
  <2>1. DOMAIN f = S
    OBVIOUS
  <2> QED BY <2>1, SumIs
<1> HIDE DEF it
<1>3. {} \in T
  BY <1>1, SumStep
<1>4. ASSUME NEW A \in SUBSET S, NEW x \in S \ A, A \in T PROVE A \union {x} \in T
  <2>1. A \union {x} \in SUBSET S /\ x \in A \union {x} /\ (A \union {x}) \ {x} = A
    OBVIOUS
  <2>2. it[A \union {x}] = f[x] + it[A]
    BY <1>1, <2>1, SumTake
  <2> QED BY <1>4, <2>2
<1>5. S \in T
  <2> HIDE DEF T
  <2> QED BY <1>3, <1>4, FiniteSetInduction
<1> QED BY <1>2, <1>5

(* What is added to one value is added to the sum. *)
LEMMA SumAdd ==
  ASSUME NEW S, IsFiniteSet(S), NEW f \in [S -> Int], NEW g \in [S -> Int],
         NEW x \in S, NEW d \in Int, g[x] = f[x] + d, \A y \in S \ {x} : g[y] = f[y]
  PROVE  SumFunction(g) = SumFunction(f) + d
<1> DEFINE it == CHOOSE w : Summing(w, S, f)
           jt == CHOOSE w : Summing(w, S, g)
<1>1. Summing(it, S, f) /\ Summing(jt, S, g)
  BY SummingExists
<1>2. SumFunction(f) = it[S] /\ SumFunction(g) = jt[S]
  <2>1. DOMAIN f = S /\ DOMAIN g = S
    OBVIOUS
  <2> QED BY <2>1, SumIs
<1> HIDE DEF it, jt
<1>3. it[S] = f[x] + it[S \ {x}] /\ jt[S] = g[x] + jt[S \ {x}]
  BY <1>1, SumTake
<1>4. it[S \ {x}] = jt[S \ {x}] /\ it[S \ {x}] \in Int
  BY <1>1, SumAgrees, SumType
<1> QED BY <1>2, <1>3, <1>4
=============================================================================
