----------------------------- MODULE StoreProofs -----------------------------
(***************************************************************************)
(* The store's promises, for every number of ids, checkouts and sessions,  *)
(* every snapshot, every file and every cap: the two marks around the      *)
(* request (InOrder), and what a sample and a reload leave of the entries  *)
(* (Holding).  A fold over a sequence is unfolded with FoldExists: TLAPS   *)
(* has no induction over data, so the induction is over the subsets of a   *)
(* finite set, ordered by inclusion (Descent).                             *)
(***************************************************************************)
EXTENDS Store, TLAPS, FiniteSetTheorems

-----------------------------------------------------------------------------
(* Finite sets, smaller subsets first.                                     *)

\* What a set has when each set of one element less has it, every subset of a
\* finite set has.
LEMMA Descent ==
    ASSUME NEW S, IsFiniteSet(S), NEW C,
           \A T \in SUBSET S : (\A x \in T : T \ {x} \in C) => T \in C
    PROVE  \A T \in SUBSET S : T \in C
<1> DEFINE bad == {T \in SUBSET S : T \notin C}
<1>1. SUFFICES ASSUME bad # {} PROVE FALSE
  OBVIOUS
<1>2. bad \subseteq FiniteSubsetsOf(S)
  BY FS_Subset DEF FiniteSubsetsOf
<1>3. IsWellFoundedOn(StrictSubsetOrdering(S), FiniteSubsetsOf(S))
  BY FS_StrictSubsetOrderingWellFounded
<1> HIDE DEF bad
<1>4. PICK T \in bad : \A U \in bad : <<U, T>> \notin StrictSubsetOrdering(S)
  BY <1>1, <1>2, <1>3, WFMin
<1>5. ASSUME NEW x \in T PROVE T \ {x} \in C
  <2>1. T \in SUBSET S /\ T \ {x} \in SUBSET S /\ T \ {x} # T
    BY DEF bad
  <2>2. <<T \ {x}, T>> \in StrictSubsetOrdering(S)
    BY <2>1 DEF StrictSubsetOrdering
  <2> QED  BY <1>4, <2>1, <2>2 DEF bad
<1> QED  BY <1>5 DEF bad

First(T) == CHOOSE x \in T : TRUE

LEMMA FirstIn == ASSUME NEW T, T # {} PROVE First(T) \in T
  BY DEF First

LEMMA MaxIn ==
    ASSUME NEW T, IsFiniteSet(T), T \subseteq Int, T # {}
    PROVE  Max(T) \in T /\ \A x \in T : x <= Max(T)
<1> DEFINE C == {U \in SUBSET T : U = {} \/ \E x \in U : \A y \in U : x >= y}
<1>1. ASSUME NEW U \in SUBSET T, \A x \in U : U \ {x} \in C
      PROVE  U \in C
  <2>1. CASE U = {}
    BY <2>1
  <2>2. CASE U # {}
    <3>1. PICK z \in U : TRUE
      BY <2>2
    <3>2. CASE U \ {z} = {}
      BY <3>1, <3>2
    <3>3. CASE U \ {z} # {}
      <4>1. PICK x \in U \ {z} : \A y \in U \ {z} : x >= y
        BY <1>1, <3>1, <3>3
      <4>2. CASE x >= z
        BY <4>1, <4>2
      <4>3. CASE z >= x
        BY <3>1, <4>1, <4>3
      <4> QED  BY <3>1, <4>1, <4>2, <4>3
    <3> QED  BY <3>2, <3>3
  <2> QED  BY <2>1, <2>2
<1> HIDE DEF C
<1>2. T \in C
  BY <1>1, Descent
<1>3. \E x \in T : \A y \in T : x >= y
  BY <1>2 DEF C
<1>4. Max(T) \in T /\ \A y \in T : Max(T) >= y
  BY <1>3 DEF Max
<1> QED  BY <1>4

\* g is the fold of the subsets of S: base, and then step after step.
FoldsBy(g, S, base, step) ==
    \A T \in SUBSET S : g[T] = IF T = {} THEN base
                               ELSE step[<<Max(T), g[T \ {Max(T)}]>>]

LEMMA FoldUnique ==
    ASSUME NEW S \in SUBSET Int, IsFiniteSet(S), NEW base, NEW step,
           NEW g, NEW h,
           FoldsBy(g, S, base, step), FoldsBy(h, S, base, step)
    PROVE  \A T \in SUBSET S : g[T] = h[T]
<1> DEFINE C == {T \in SUBSET S : g[T] = h[T]}
<1>1. ASSUME NEW T \in SUBSET S, \A x \in T : T \ {x} \in C
      PROVE  g[T] = h[T]
  <2>1. CASE T = {}
    BY <2>1 DEF FoldsBy
  <2>2. CASE T # {}
    <3>1. g[T \ {Max(T)}] = h[T \ {Max(T)}]
      BY <1>1, <2>2, MaxIn, FS_Subset
    <3> QED  BY <2>2, <3>1 DEF FoldsBy
  <2> QED  BY <2>1, <2>2
<1>2. \A T \in SUBSET S : (\A x \in T : T \ {x} \in C) => T \in C
  BY <1>1
<1> HIDE DEF C
<1>3. \A T \in SUBSET S : T \in C
  BY <1>2, Descent
<1> QED  BY <1>3 DEF C

LEMMA FoldExists ==
    ASSUME NEW S, IsFiniteSet(S), S \subseteq Int, NEW V, NEW base \in V,
           NEW step \in [S \X V -> V]
    PROVE  \E g \in [SUBSET S -> V] : FoldsBy(g, S, base, step)
<1> DEFINE Has(T) == \E g \in [SUBSET T -> V] : FoldsBy(g, T, base, step)
           C == {T \in SUBSET S : Has(T)}
<1>1. ASSUME NEW T \in SUBSET S, \A x \in T : T \ {x} \in C
      PROVE  Has(T)
  <2> DEFINE part == [x \in T |-> CHOOSE g \in [SUBSET (T \ {x}) -> V] :
                                    FoldsBy(g, T \ {x}, base, step)]
  <2>1. \A x \in T : /\ part[x] \in [SUBSET (T \ {x}) -> V]
                     /\ FoldsBy(part[x], T \ {x}, base, step)
    BY <1>1
  <2> HIDE DEF part
  <2>2. ASSUME NEW x \in T, NEW y \in T, NEW U \in SUBSET T,
               x \notin U, y \notin U
        PROVE  part[x][U] = part[y][U]
    <3>1. U \in SUBSET (T \ {x}) /\ U \in SUBSET (T \ {y})
      BY <2>2
    <3>2. FoldsBy(part[x], U, base, step) /\ FoldsBy(part[y], U, base, step)
      BY <2>1, <3>1 DEF FoldsBy
    <3>3. IsFiniteSet(U) /\ U \in SUBSET Int
      BY FS_Subset
    <3> QED  BY <3>2, <3>3, FoldUnique
  <2> DEFINE inner(U) == part[First(T \ U)][U]
             g == [U \in SUBSET T |->
                     IF U # T THEN inner(U)
                     ELSE IF T = {} THEN base
                     ELSE step[<<Max(T), inner(T \ {Max(T)})>>]]
  <2>3. ASSUME NEW U \in SUBSET T, U # T
        PROVE  /\ inner(U) \in V
               /\ inner(U) = IF U = {} THEN base
                             ELSE step[<<Max(U), inner(U \ {Max(U)})>>]
    <3> DEFINE x == First(T \ U)
    <3>1. x \in T /\ x \notin U
      BY <2>3, FirstIn
    <3> HIDE DEF x
    <3>2. U \in SUBSET (T \ {x})
      BY <3>1
    <3>3. inner(U) = part[x][U]
      BY DEF x
    <3>4. part[x][U] \in V
      BY <2>1, <3>1, <3>2
    <3>5. CASE U = {}
      BY <2>1, <3>1, <3>2, <3>3, <3>4, <3>5 DEF FoldsBy
    <3>6. CASE U # {}
      <4> DEFINE W == U \ {Max(U)}
                 y == First(T \ W)
      <4>1. W \in SUBSET T /\ x \notin W /\ W # T
        BY <3>1
      <4>2. y \in T /\ y \notin W
        BY <4>1, FirstIn
      <4>3. part[x][U] = step[<<Max(U), part[x][W]>>]
        BY <2>1, <3>1, <3>2, <3>6 DEF FoldsBy
      <4>4. inner(W) = part[y][W]
        OBVIOUS
      <4> HIDE DEF y
      <4>5. part[x][W] = part[y][W]
        BY <2>2, <3>1, <4>1, <4>2
      <4> HIDE DEF inner, W
      <4>6. inner(U) = step[<<Max(U), inner(W)>>]
        BY <3>3, <4>3, <4>4, <4>5
      <4> QED  BY <3>3, <3>4, <3>6, <4>6 DEF W
    <3> QED  BY <3>5, <3>6
  <2> HIDE DEF inner
  <2>4. T = {} \/ (Max(T) \in T /\ T \ {Max(T)} # T)
    BY MaxIn, FS_Subset
  <2>5. g \in [SUBSET T -> V]
    <3> SUFFICES ASSUME NEW U \in SUBSET T PROVE g[U] \in V
      OBVIOUS
    <3>1. CASE U # T
      BY <2>3, <3>1
    <3>2. CASE U = T /\ T = {}
      BY <3>2
    <3>3. CASE U = T /\ T # {}
      <4>1. inner(T \ {Max(T)}) \in V
        BY <2>3, <2>4, <3>3
      <4>2. <<Max(T), inner(T \ {Max(T)})>> \in S \X V
        BY <2>4, <3>3, <4>1
      <4>3. step[<<Max(T), inner(T \ {Max(T)})>>] \in V
        BY <4>2
      <4> QED  BY <3>3, <4>3
    <3> QED  BY <3>1, <3>2, <3>3
  <2>6. \A U \in SUBSET T : U # T => g[U] = inner(U)
    OBVIOUS
  <2>7. g[T] = IF T = {} THEN base ELSE step[<<Max(T), inner(T \ {Max(T)})>>]
    OBVIOUS
  <2> HIDE DEF g
  <2>8. FoldsBy(g, T, base, step)
    <3> SUFFICES ASSUME NEW U \in SUBSET T
                 PROVE  g[U] = IF U = {} THEN base
                               ELSE step[<<Max(U), g[U \ {Max(U)}]>>]
      BY DEF FoldsBy
    <3>1. U \ {Max(U)} \in SUBSET T /\ (U # T => U \ {Max(U)} # T)
      OBVIOUS
    <3>2. CASE U # T
      BY <2>3, <2>6, <3>1, <3>2
    <3>3. CASE U = T
      BY <2>4, <2>6, <2>7, <3>3
    <3> QED  BY <3>2, <3>3
  <2> QED  BY <2>5, <2>8
<1>2. \A T \in SUBSET S : (\A x \in T : T \ {x} \in C) => T \in C
  BY <1>1
<1> HIDE DEF C, Has
<1>3. \A T \in SUBSET S : T \in C
  BY <1>2, Descent
<1>4. S \in C
  BY <1>3
<1> QED  BY <1>4 DEF C, Has

\* What a prefix of a sequence has when each shorter one has it.
LEMMA UpTo ==
    ASSUME NEW n \in Nat, NEW C, 0 \in C, \A k \in 1..n : k-1 \in C => k \in C
    PROVE  \A k \in 0..n : k \in C
<1> DEFINE S == 1..n
           D == {T \in SUBSET S : \A k \in 0..n : T = 1..k => k \in C}
<1>1. ASSUME NEW T \in SUBSET S, \A x \in T : T \ {x} \in D
      PROVE  T \in D
  <2>1. SUFFICES ASSUME NEW k \in 0..n, T = 1..k PROVE k \in C
    OBVIOUS
  <2>2. CASE k = 0
    BY <2>2
  <2>3. CASE k # 0
    <3>1. k \in T /\ k-1 \in 0..n /\ T \ {k} = 1..(k-1)
      BY <2>1, <2>3
    <3>2. k-1 \in C
      BY <1>1, <3>1
    <3> QED  BY <2>3, <3>2
  <2> QED  BY <2>2, <2>3
<1>2. IsFiniteSet(S)
  BY FS_Interval
<1> HIDE DEF D, S
<1>4. \A T \in SUBSET S : T \in D
  BY <1>1, <1>2, Descent
<1>3. ASSUME NEW k \in 0..n PROVE k \in C
  <2>1. 1..k \in SUBSET S
    BY DEF S
  <2> QED  BY <1>4, <2>1 DEF D
<1> QED  BY <1>3

LEMMA PrefixMax ==
    ASSUME NEW k \in Nat \ {0}
    PROVE  Max(1..k) = k /\ (1..k) \ {Max(1..k)} = 1..(k-1) /\ 1..k # {}
<1>1. k \in 1..k /\ IsFiniteSet(1..k) /\ 1..k \subseteq Int
  BY FS_Interval
<1>2. Max(1..k) \in 1..k /\ k <= Max(1..k)
  BY <1>1, MaxIn
<1>3. Max(1..k) = k
  BY <1>2
<1> QED  BY <1>1, <1>3

-----------------------------------------------------------------------------
(* What is retained and what is evicted.                                   *)

\* r has elements of es, none twice, all of those at the places in kept.
Sifted(r, es, kept) ==
    \E m \in [DOMAIN r -> kept] :
        /\ \A k \in DOMAIN r : r[k] = es[m[k]]
        /\ \A k, l \in DOMAIN r : m[k] = m[l] => k = l
        /\ \A i \in kept : \E k \in DOMAIN r : m[k] = i

\* Retained is what was kept, each place once and in any case a sequence.
LEMMA RetainedIs ==
    ASSUME NEW V, NEW es \in Seq(V), NEW kept \in SUBSET DOMAIN es
    PROVE  /\ Retained(es, kept) \in Seq(V)
           /\ Len(Retained(es, kept)) = Cardinality(kept)
           /\ Sifted(Retained(es, kept), es, kept)
<1> DEFINE upto(i) == {j \in kept : j <= i}
           place == [i \in kept |-> Cardinality(upto(i))]
           c == Cardinality(kept)
           m == [k \in 1..c |-> CHOOSE i \in kept : Cardinality(upto(i)) = k]
           r == [k \in 1..c |-> es[m[k]]]
<1>1. IsFiniteSet(kept) /\ kept \subseteq Nat /\ c \in Nat
  <2>1. DOMAIN es = 1..Len(es) /\ Len(es) \in Nat
    OBVIOUS
  <2>2. IsFiniteSet(DOMAIN es) /\ kept \subseteq Nat
    BY <2>1, FS_Interval
  <2> QED  BY <2>2, FS_Subset, FS_CardinalityType
<1>2. \A i \in kept : IsFiniteSet(upto(i)) /\ Cardinality(upto(i)) \in 1..c
  <2> TAKE i \in kept
  <2>1. IsFiniteSet(upto(i)) /\ Cardinality(upto(i)) <= c
    BY <1>1, FS_Subset
  <2>2. i \in upto(i)
    BY <1>1
  <2> HIDE DEF upto, c
  <2>3. Cardinality(upto(i)) \in Nat /\ Cardinality(upto(i)) # 0
    BY <2>1, <2>2, FS_CardinalityType, FS_EmptySet
  <2> QED  BY <1>1, <2>1, <2>3
<1>3. ASSUME NEW i \in kept, NEW j \in kept, i < j
      PROVE  place[i] # place[j]
  <2>1. upto(i) \in SUBSET upto(j) /\ j \in upto(j) /\ j \notin upto(i)
    BY <1>1, <1>3
  <2>2. IsFiniteSet(upto(j))
    BY <1>2
  <2>3. place[i] = Cardinality(upto(i)) /\ place[j] = Cardinality(upto(j))
    OBVIOUS
  <2> HIDE DEF upto, place
  <2>4. Cardinality(upto(j)) = Cardinality(upto(i)) => upto(j) = upto(i)
    BY <2>1, <2>2, FS_Subset
  <2> QED  BY <2>1, <2>3, <2>4
<1>4. place \in Injection(kept, 1..c)
  <2>1. place \in [kept -> 1..c]
    BY <1>2
  <2>2. \A i, j \in kept : place[i] = place[j] => i = j
    <3> HIDE DEF place
    <3> QED  BY <1>1, <1>3
  <2> HIDE DEF place, c
  <2> QED  BY <2>1, <2>2 DEF Injection, IsInjective
<1>8. Retained(es, kept) = r
  BY DEF Retained
<1>12. \A i \in kept : place[i] = Cardinality(upto(i))
  OBVIOUS
<1> HIDE DEF upto, place
<1>5. place \in Surjection(kept, 1..c)
  <2>1. IsFiniteSet(1..c) /\ Cardinality(1..c) = c
    BY <1>1, FS_Interval
  <2>2. Cardinality(kept) = Cardinality(1..c)
    BY <2>1
  <2> HIDE DEF c
  <2> QED  BY <1>4, <2>1, <2>2, FS_Injection
<1>6. \A k \in 1..c : m[k] \in kept /\ place[m[k]] = k
  <2> TAKE k \in 1..c
  <2>1. \E i \in kept : place[i] = k
    BY <1>5 DEF Surjection
  <2> QED  BY <1>12, <2>1
<1>7. \A i \in kept : place[i] \in 1..c /\ m[place[i]] = i
  <2> TAKE i \in kept
  <2>1. place[i] \in 1..c
    BY <1>4 DEF Injection
  <2>2. place[m[place[i]]] = place[i] /\ m[place[i]] \in kept
    BY <1>6, <2>1
  <2> HIDE DEF m
  <2> QED  BY <1>4, <2>1, <2>2 DEF Injection, IsInjective
<1>9. r \in Seq(V) /\ Len(r) = c /\ DOMAIN r = 1..c
  <2>1. \A k \in 1..c : es[m[k]] \in V
    <3> HIDE DEF m
    <3> QED  BY <1>6
  <2> HIDE DEF m, c
  <2>2. r \in [1..c -> V] /\ c \in Nat
    BY <1>1, <2>1 DEF c
  <2> QED  BY <2>2
<1> HIDE DEF m
<1>10. m \in [1..c -> kept]
  BY <1>6 DEF m
<1>11. /\ \A k \in 1..c : r[k] = es[m[k]]
       /\ \A k, l \in 1..c : m[k] = m[l] => k = l
       /\ \A i \in kept : \E k \in 1..c : m[k] = i
  BY <1>6, <1>7
<1> HIDE DEF r, c
<1>13. Sifted(r, es, kept)
  <2>1. DOMAIN r = 1..c
    BY <1>9
  <2>2. m \in [DOMAIN r -> kept]
    BY <1>10, <2>1
  <2>3. /\ \A k \in DOMAIN r : r[k] = es[m[k]]
        /\ \A k, l \in DOMAIN r : m[k] = m[l] => k = l
        /\ \A i \in kept : \E k \in DOMAIN r : m[k] = i
    BY <1>11, <2>1
  <2> QED  BY <2>2, <2>3, Zenon DEF Sifted
<1>14. r \in Seq(V) /\ Len(r) = Cardinality(kept)
  BY <1>9 DEF c
<1> QED  BY <1>8, <1>13, <1>14

LEMMA EntryIs ==
    ASSUME NEW e \in Entry
    PROVE  /\ e.id \in Nat /\ e.session \in Nat /\ e.seen \in Nat
           /\ e.seen \in 0..Horizon /\ e.took \in Nat /\ e.old \in BOOLEAN
           /\ e.label \in Labels /\ e.path \in Paths \cup {NoPath}
           /\ e.from \in SUBSET Sessions /\ e.was \in SUBSET Paths
<1>1. /\ e.id \in Ids /\ e.session \in Sessions \cup {None}
      /\ e.seen \in 0..Horizon /\ e.took \in Nat /\ e.old \in BOOLEAN
      /\ e.label \in Labels /\ e.path \in Paths \cup {NoPath}
      /\ e.from \in SUBSET Sessions /\ e.was \in SUBSET Paths
  BY DEF Entry
<1>2. Ids \subseteq Nat /\ Horizon \in Nat /\ MaxSessions \in Nat
  BY StoreAssumption
<1>3. e.session \in Nat
  BY <1>1, <1>2 DEF Sessions, None
<1>4. e.id \in Nat
  BY <1>1, <1>2, Zenon
<1>5. e.seen \in Nat
  BY <1>1, <1>2
<1> QED  BY <1>1, <1>3, <1>4, <1>5

LEMMA GoesTransitive ==
    ASSUME NEW d \in Entry, NEW e \in Entry, NEW f \in Entry, NEW at \in Nat,
           GoesFirst(d, e, at), GoesFirst(e, f, at)
    PROVE  GoesFirst(d, f, at)
  BY EntryIs DEF GoesFirst

LEMMA GoesTotal ==
    ASSUME NEW d \in Entry, NEW e \in Entry, NEW at \in Nat,
           d.id # e.id \/ d.session # e.session
    PROVE  GoesFirst(d, e, at) \/ GoesFirst(e, d, at)
  BY EntryIs DEF GoesFirst

LEMMA GoesIrreflexive ==
    ASSUME NEW d \in Entry, NEW at \in Nat
    PROVE  ~GoesFirst(d, d, at)
  BY EntryIs DEF GoesFirst

\* No two entries of a session share an id or a checkout.
Apart(es) ==
    \A i, j \in DOMAIN es :
        i # j /\ es[i].session = es[j].session
        => /\ es[i].id # es[j].id
           /\ es[i].path = NoPath \/ es[i].path # es[j].path

\* A total order has a first element in every finite set.
LEMMA EvictedCap ==
    ASSUME NEW es \in Seq(Entry), Apart(es), NEW c \in Nat \ {0}, NEW at \in Nat
    PROVE  Cardinality({i \in DOMAIN es : Stays(es, es[i], c, at)}) <= c
<1> DEFINE D == DOMAIN es
           Before(x, y) == GoesFirst(es[x], es[y], at)
           above(x) == {y \in D : Before(x, y)}
           K == {i \in D : Stays(es, es[i], c, at)}
           C == {T \in SUBSET D :
                   T = {} \/ \E x \in T : \A y \in T \ {x} : Before(x, y)}
<1>0. IsFiniteSet(D)
  BY FS_Interval
<1>1. \A x, y \in D : x # y => Before(x, y) \/ Before(y, x)
  BY GoesTotal DEF Apart
<1>2. \A x, y, z \in D : Before(x, y) /\ Before(y, z) => Before(x, z)
  <2> TAKE x, y, z \in D
  <2>1. es[x] \in Entry /\ es[y] \in Entry /\ es[z] \in Entry
    OBVIOUS
  <2> QED  BY <2>1, GoesTransitive
<1>3. K \subseteq D /\ \A x \in K : Cardinality(above(x)) < c
  BY DEF Stays
<1> HIDE DEF Before, K
<1>4. ASSUME NEW T \in SUBSET D, \A z \in T : T \ {z} \in C
      PROVE  T \in C
  <2>1. CASE T = {}
    BY <2>1
  <2>2. CASE T # {}
    <3>1. PICK z \in T : TRUE
      BY <2>2
    <3>2. CASE T \ {z} = {}
      BY <3>1, <3>2
    <3>3. CASE T \ {z} # {}
      <4>1. PICK x \in T \ {z} : \A y \in (T \ {z}) \ {x} : Before(x, y)
        BY <1>4, <3>1, <3>3
      <4>2. CASE Before(x, z)
        BY <4>1, <4>2
      <4>3. CASE Before(z, x)
        BY <1>2, <3>1, <4>1, <4>3
      <4> QED  BY <1>1, <3>1, <4>1, <4>2, <4>3
    <3> QED  BY <3>2, <3>3
  <2> QED  BY <2>1, <2>2
<1>5. \A T \in SUBSET D : T \in C
  <2> HIDE DEF C, D
  <2> QED  BY <1>0, <1>4, Descent
<1>6. IsFiniteSet(K)
  BY <1>0, <1>3, FS_Subset
<1>7. CASE K = {}
  BY <1>6, <1>7, FS_EmptySet DEF K
<1>8. CASE K # {}
  <2>1. PICK x \in K : \A y \in K \ {x} : Before(x, y)
    BY <1>3, <1>5, <1>8
  <2>2. K \ {x} \subseteq above(x) /\ above(x) \subseteq D
    BY <1>3, <2>1
  <2>3. Cardinality(above(x)) < c
    BY <1>3
  <2> HIDE DEF above, D
  <2>4. IsFiniteSet(above(x)) /\ Cardinality(K \ {x}) <= Cardinality(above(x))
    BY <1>0, <2>2, FS_Subset
  <2>5. Cardinality(K \ {x}) = Cardinality(K) - 1
    BY <1>6, FS_RemoveElement
  <2>6. Cardinality(K) \in Nat /\ Cardinality(above(x)) \in Nat
    BY <1>6, <2>4, FS_CardinalityType
  <2>7. Cardinality(K) <= c
    BY <2>3, <2>4, <2>5, <2>6
  <2> QED  BY <2>7 DEF K, D
<1> QED  BY <1>7, <1>8

LEMMA SiftedApart ==
    ASSUME NEW r, NEW es, NEW kept \in SUBSET DOMAIN es, Sifted(r, es, kept),
           Apart(es)
    PROVE  Apart(r)
<1>1. PICK m \in [DOMAIN r -> kept] :
        /\ \A k \in DOMAIN r : r[k] = es[m[k]]
        /\ \A k, l \in DOMAIN r : m[k] = m[l] => k = l
  BY DEF Sifted
<1>2. ASSUME NEW k \in DOMAIN r, NEW l \in DOMAIN r, k # l,
             r[k].session = r[l].session
      PROVE  r[k].id # r[l].id /\ (r[k].path = NoPath \/ r[k].path # r[l].path)
  <2>1. m[k] # m[l] /\ m[k] \in DOMAIN es /\ m[l] \in DOMAIN es
    BY <1>1, <1>2
  <2>2. es[m[k]].session = es[m[l]].session
    BY <1>1, <1>2
  <2>3. /\ es[m[k]].id # es[m[l]].id
        /\ es[m[k]].path = NoPath \/ es[m[k]].path # es[m[l]].path
    BY <2>1, <2>2 DEF Apart
  <2> QED  BY <1>1, <2>3
<1> QED  BY <1>2 DEF Apart

LEMMA EvictedIs ==
    ASSUME NEW es \in Seq(Entry), Apart(es), NEW c \in Nat \ {0}, NEW at \in Nat
    PROVE  /\ Evicted(es, c, at) \in Seq(Entry)
           /\ Len(Evicted(es, c, at)) <= c
           /\ Apart(Evicted(es, c, at))
           /\ Sifted(Evicted(es, c, at), es,
                     {i \in DOMAIN es : Stays(es, es[i], c, at)})
<1> DEFINE K == {i \in DOMAIN es : Stays(es, es[i], c, at)}
<1>1. K \in SUBSET DOMAIN es /\ Cardinality(K) <= c
  BY EvictedCap
<1>2. Evicted(es, c, at) = Retained(es, K)
  BY DEF Evicted
<1> HIDE DEF K
<1>3. /\ Retained(es, K) \in Seq(Entry)
      /\ Len(Retained(es, K)) = Cardinality(K)
      /\ Sifted(Retained(es, K), es, K)
  BY <1>1, RetainedIs
<1>4. Apart(Retained(es, K))
  BY <1>1, <1>3, SiftedApart
<1> QED  BY <1>1, <1>2, <1>3, <1>4 DEF K

LEMMA DropReusedIs ==
    ASSUME NEW es \in Seq(Entry), NEW session
    PROVE  /\ DropReused(es, session) \in Seq(Entry)
           /\ Sifted(DropReused(es, session), es,
                {i \in DOMAIN es :
                   \/ Live(es[i]) \/ es[i].session # session
                   \/ \A j \in DOMAIN es : Live(es[j]) => es[j].id # es[i].id})
<1> DEFINE K == {i \in DOMAIN es :
                   \/ Live(es[i]) \/ es[i].session # session
                   \/ \A j \in DOMAIN es : Live(es[j]) => es[j].id # es[i].id}
           claimed == {es[i].id : i \in {j \in DOMAIN es : Live(es[j])}}
           L == {i \in DOMAIN es : \/ Live(es[i])
                                   \/ es[i].session # session
                                   \/ es[i].id \notin claimed}
<1>1. DropReused(es, session) = Retained(es, L)
  BY DEF DropReused
<1>2. \A i \in DOMAIN es : es[i].id \notin claimed
         <=> \A j \in DOMAIN es : Live(es[j]) => es[j].id # es[i].id
  OBVIOUS
<1>3. L = K
  <2> HIDE DEF claimed
  <2> QED  BY <1>2
<1>4. K \in SUBSET DOMAIN es
  OBVIOUS
<1> HIDE DEF K, L
<1>5. Retained(es, K) \in Seq(Entry) /\ Sifted(Retained(es, K), es, K)
  BY <1>4, RetainedIs
<1> QED  BY <1>1, <1>3, <1>5 DEF K

-----------------------------------------------------------------------------
(* One observation.                                                        *)

LEMMA FirstOfIn ==
    ASSUME NEW n \in Nat, NEW S \in SUBSET (1..n)
    PROVE  /\ FirstOf(S) \in 0..n
           /\ FirstOf(S) = 0 => S = {}
           /\ FirstOf(S) # 0 => FirstOf(S) \in S
<1> DEFINE C == {U \in SUBSET S : U = {} \/ \E x \in U : \A y \in U : x <= y}
<1>1. ASSUME NEW U \in SUBSET S, \A x \in U : U \ {x} \in C
      PROVE  U \in C
  <2>1. CASE U = {}
    BY <2>1
  <2>2. CASE U # {}
    <3>1. PICK z \in U : TRUE
      BY <2>2
    <3>2. CASE U \ {z} = {}
      BY <3>1, <3>2
    <3>3. CASE U \ {z} # {}
      <4>1. PICK x \in U \ {z} : \A y \in U \ {z} : x <= y
        BY <1>1, <3>1, <3>3
      <4>2. CASE x <= z
        BY <4>1, <4>2
      <4>3. CASE z <= x
        BY <3>1, <4>1, <4>3
      <4> QED  BY <3>1, <4>1, <4>2, <4>3
    <3> QED  BY <3>2, <3>3
  <2> QED  BY <2>1, <2>2
<1>2. IsFiniteSet(S)
  <2>1. IsFiniteSet(1..n)
    BY FS_Interval
  <2> QED  BY <2>1, FS_Subset
<1> HIDE DEF C
<1>3. S \in C
  <2>1. \A T \in SUBSET S : T \in C
    BY <1>1, <1>2, Descent
  <2> QED  BY <2>1
<1>4. S # {} => \E x \in S : \A y \in S : x <= y
  BY <1>3 DEF C
<1>5. CASE S = {}
  BY <1>5 DEF FirstOf
<1>6. CASE S # {}
  <2>1. FirstOf(S) = CHOOSE i \in S : \A j \in S : i <= j
    BY <1>6 DEF FirstOf
  <2>2. FirstOf(S) \in S
    BY <1>4, <1>6, <2>1
  <2>3. FirstOf(S) \in 1..n
    BY <2>2
  <2>4. FirstOf(S) # 0 /\ FirstOf(S) \in 0..n
    BY <2>3
  <2> QED  BY <2>2, <2>4
<1> QED  BY <1>5, <1>6

LEMMA DivMod ==
    ASSUME NEW a \in Nat, NEW b \in Nat \ {0}
    PROVE  /\ a \div b \in Nat /\ a % b \in 0..b-1
           /\ a = b * (a \div b) + (a % b)
<1> DEFINE q == a \div b
<1>1. q \in Nat /\ a % b \in 0..b-1 /\ a % b = a - q * b
  BY Z3
<1> HIDE DEF q
<1>2. q * b = b * q /\ q * b \in Nat
  BY <1>1
<1>3. a = b * q + (a % b)
  BY <1>1, <1>2
<1> QED  BY <1>1, <1>3 DEF q

\* A later bucket is a later time.
LEMMA LaterBucket ==
    ASSUME NEW a \in Nat, NEW d \in Nat, NEW b \in Nat \ {0},
           a \div b < d \div b
    PROVE  a < d
<1> DEFINE p == a \div b
           q == d \div b
<1>1. /\ p \in Nat /\ a % b \in 0..b-1 /\ a = b * p + (a % b)
      /\ q \in Nat /\ d % b \in 0..b-1 /\ d = b * q + (d % b) /\ p < q
  BY DivMod
<1> HIDE DEF p, q
<1>2. PICK k \in Nat : q = p + 1 + k
  <2>1. q - p - 1 \in Nat /\ q = p + 1 + (q - p - 1)
    BY <1>1
  <2> QED  BY <2>1
<1>3. b * q = b * p + b + b * k /\ b * k \in Nat /\ b * p \in Nat
  BY <1>1, <1>2
<1> QED  BY <1>1, <1>3

Keeps(x, e) ==
    /\ x.id = e.id /\ x.label = e.label /\ x.path = e.path
    /\ x.session = e.session /\ x.old = e.old

Saw(x, e, durable, at, answered) ==
    /\ x \in Entry /\ Keeps(x, e) /\ x.took = e.took + 1 /\ at <= x.seen
    /\ \/ x.from = e.from
       \/ x.from = IF e.session = None THEN {} ELSE e.from \cup {answered}
    /\ \/ x.was = e.was
       \/ durable # NoPath /\ x.was = e.was \cup {durable}

\* An entry never comes out of an observation with a stamp behind it.
LEMMA ObservedIs ==
    ASSUME NEW e \in Entry, NEW durable \in Paths \cup {NoPath},
           NEW at \in 0..Horizon, NEW answered \in Sessions
    PROVE  Saw(Observed(e, durable, at, answered), e, durable, at, answered)
<1> DEFINE now == at \div Width
           newest == e.seen \div Width
           late == [e EXCEPT !.took = @ + 1]
           stamp == IF now < newest \/ e.seen < at THEN at ELSE e.seen
           said == IF e.session = None THEN {} ELSE e.from \cup {answered}
           held == IF durable = NoPath THEN e.was ELSE e.was \cup {durable}
           full == [e EXCEPT !.seen = stamp, !.took = @ + 1,
                             !.from = said, !.was = held]
<1>1. Observed(e, durable, at, answered)
        = IF now < newest /\ newest <= now + Slack THEN late ELSE full
  BY DEF Observed
<1>2. /\ Width \in Nat \ {0} /\ Horizon \in Nat /\ at \in Nat
      /\ e.seen \in 0..Horizon /\ e.seen \in Nat /\ e.took \in Nat
      /\ e.from \in SUBSET Sessions /\ e.was \in SUBSET Paths
  BY StoreAssumption, EntryIs
<1>3. now < newest => at < e.seen
  BY <1>2, LaterBucket
<1>4. now \in Nat /\ newest \in Nat
  BY <1>2, DivMod
<1> HIDE DEF now, newest
<1>5. stamp \in 0..Horizon /\ (~(now < newest) => at <= stamp)
      /\ (now < newest => stamp = at)
  BY <1>2, <1>4
<1>6. at <= stamp
  BY <1>2, <1>4, <1>5
<1>7. said \in SUBSET Sessions /\ held \in SUBSET Paths
  BY <1>2
<1> HIDE DEF stamp, said, held
<1>8. late \in Entry /\ Keeps(late, e) /\ late.took = e.took + 1
      /\ late.seen = e.seen /\ late.from = e.from /\ late.was = e.was
  BY <1>2 DEF Entry, Keeps
<1>9. full \in Entry /\ Keeps(full, e) /\ full.took = e.took + 1
      /\ full.seen = stamp /\ full.from = said /\ full.was = held
  <2>1. e.took + 1 \in Nat
    BY <1>2
  <2> DEFINE took == e.took + 1
             x == [e EXCEPT !.seen = stamp, !.took = took, !.from = said,
                            !.was = held]
  <2>2. x = full
    OBVIOUS
  <2> HIDE DEF took, full
  <2>3. /\ x \in Entry /\ Keeps(x, e) /\ x.took = took
        /\ x.seen = stamp /\ x.from = said /\ x.was = held
    BY <1>5, <1>7, <2>1 DEF Entry, Keeps, took
  <2> QED  BY <2>2, <2>3 DEF took
<1> HIDE DEF late, full
<1>10. CASE now < newest /\ newest <= now + Slack
  BY <1>1, <1>2, <1>3, <1>8, <1>10 DEF Saw
<1>11. CASE ~(now < newest /\ newest <= now + Slack)
  BY <1>1, <1>6, <1>9, <1>11 DEF said, held, Saw
<1> QED  BY <1>10, <1>11

LEMMA RestampedIs ==
    ASSUME NEW e \in Entry, NEW o \in Observation,
           NEW durable \in Paths \cup {NoPath}
    PROVE  /\ Restamped(e, o, durable) \in Entry
           /\ Restamped(e, o, durable).id = o.id
           /\ Restamped(e, o, durable).label = o.label
           /\ Restamped(e, o, durable).session = e.session
           /\ Restamped(e, o, durable).old = e.old
           /\ Restamped(e, o, durable).took = e.took
           /\ Restamped(e, o, durable).from = e.from
           /\ durable # NoPath
              => /\ Restamped(e, o, durable).path = durable
                 /\ Restamped(e, o, durable).was = e.was
           /\ durable = NoPath /\ o.path = NoPath
              => /\ Restamped(e, o, durable).path = e.path
                 /\ Restamped(e, o, durable).was = e.was
           /\ durable = NoPath /\ o.path # NoPath
              => /\ Restamped(e, o, durable).path = NoPath
                 /\ Restamped(e, o, durable).was = {}
<1> DEFINE path == IF durable # NoPath THEN durable
                   ELSE IF o.path # NoPath THEN NoPath ELSE e.path
           was == IF durable = NoPath /\ o.path # NoPath THEN {} ELSE e.was
<1>1. path \in Paths \cup {NoPath} /\ was \in SUBSET Paths
      /\ o.id \in Ids /\ o.label \in Labels
  BY EntryIs DEF Observation
<1>2. Restamped(e, o, durable)
        = [e EXCEPT !.id = o.id, !.label = o.label, !.path = path, !.was = was]
  BY DEF Restamped
<1> DEFINE x == Restamped(e, o, durable)
<1>3. /\ x \in Entry /\ x.id = o.id /\ x.label = o.label /\ x.path = path
      /\ x.was = was /\ x.session = e.session /\ x.old = e.old
      /\ x.took = e.took /\ x.from = e.from
  <2> HIDE DEF path, was
  <2> QED  BY <1>1, <1>2 DEF Entry
<1> HIDE DEF x
<1>4. /\ durable # NoPath => path = durable /\ was = e.was
      /\ durable = NoPath /\ o.path = NoPath => path = e.path /\ was = e.was
      /\ durable = NoPath /\ o.path # NoPath => path = NoPath /\ was = {}
  OBVIOUS
<1> HIDE DEF path, was
<1>5. /\ x \in Entry /\ x.id = o.id /\ x.label = o.label /\ x.session = e.session
      /\ x.old = e.old /\ x.took = e.took /\ x.from = e.from
      /\ durable # NoPath => x.path = durable /\ x.was = e.was
      /\ durable = NoPath /\ o.path = NoPath => x.path = e.path /\ x.was = e.was
      /\ durable = NoPath /\ o.path # NoPath => x.path = NoPath /\ x.was = {}
  BY <1>3, <1>4
<1> QED  BY <1>5 DEF x

LEMMA NewEntryIs ==
    ASSUME NEW o \in Observation, NEW durable \in Paths \cup {NoPath},
           NEW session \in Sessions \cup {None}, NEW at \in 0..Horizon
    PROVE  /\ NewEntry(o, durable, session, at) \in Entry
           /\ NewEntry(o, durable, session, at).id = o.id
           /\ NewEntry(o, durable, session, at).path = durable
           /\ NewEntry(o, durable, session, at).session = session
           /\ NewEntry(o, durable, session, at).took = 0
           /\ NewEntry(o, durable, session, at).from = {}
           /\ NewEntry(o, durable, session, at).was = {}
  BY DEF NewEntry, Entry, Observation

LEMMA DurableIs ==
    ASSUME NEW sample \in Seq(Observation), NEW k \in DOMAIN sample
    PROVE  DurableKey(sample[k], sample) \in Paths \cup {NoPath}
<1>1. sample[k] \in Observation
  OBVIOUS
<1>2. \A o \in Observation : o.path \in Paths \cup {NoPath}
  BY DEF Observation
<1>3. sample[k].path \in Paths \cup {NoPath}
  BY <1>1, <1>2
<1> QED  BY <1>3 DEF DurableKey

LEMMA LocateIs ==
    ASSUME NEW es \in Seq(Entry), NEW o, NEW durable, NEW session
    PROVE  LET i == Locate(es, o, durable, session)
               mine == {j \in DOMAIN es : es[j].session = session}
               named == {j \in mine : es[j].id = o.id /\ es[j].label = o.label}
               keyed == {j \in mine : es[j].path = durable}
           IN  /\ i \in 0..Len(es)
               /\ durable # NoPath /\ i \notin keyed => keyed = {}
               /\ i # 0 => /\ i \in mine
                           /\ durable = NoPath => i \in named
                           /\ durable # NoPath =>
                                \/ i \in keyed
                                \/ i \in named /\ es[i].path = NoPath
<1> DEFINE i == Locate(es, o, durable, session)
           mine == {j \in DOMAIN es : es[j].session = session}
           named == {j \in mine : es[j].id = o.id /\ es[j].label = o.label}
           keyed == {j \in mine : es[j].path = durable}
           bare == {j \in named : es[j].path = NoPath}
           n == Len(es)
<1>1. i = IF durable = NoPath THEN FirstOf(named)
          ELSE IF keyed # {} THEN FirstOf(keyed) ELSE FirstOf(bare)
  BY DEF Locate
<1>2. /\ n \in Nat /\ mine \in SUBSET (1..n) /\ named \in SUBSET (1..n)
      /\ keyed \in SUBSET (1..n) /\ bare \in SUBSET (1..n)
  OBVIOUS
<1>3. /\ named \subseteq mine /\ keyed \subseteq mine /\ bare \subseteq named
      /\ \A j \in bare : es[j].path = NoPath
  OBVIOUS
<1> HIDE DEF i, mine, named, keyed, bare, n
<1>4. CASE durable = NoPath
  BY <1>1, <1>2, <1>3, <1>4, FirstOfIn DEF n, i, mine, named, keyed
<1>5. CASE durable # NoPath /\ keyed # {}
  BY <1>1, <1>2, <1>3, <1>5, FirstOfIn DEF n, i, mine, named, keyed
<1>6. CASE durable # NoPath /\ keyed = {}
  BY <1>1, <1>2, <1>3, <1>6, FirstOfIn DEF n, i, mine, named, keyed
<1> QED  BY <1>4, <1>5, <1>6

\* What is true of every entry by itself.
Fits(e) ==
    /\ e.was \subseteq {e.path}
    /\ e.session # None => e.from \subseteq {e.session}

\* After the first k observations of a sample: who took none is what he was;
\* who took some is of this session, up to date, and has the id of the last
\* one he took.
Underway(es, es0, sample, k, session, at) ==
    /\ Len(es0) <= Len(es)
    /\ \A i \in DOMAIN es : Fits(es[i])
    /\ \A i \in DOMAIN es : ~Live(es[i]) => i \in DOMAIN es0 /\ es[i] = es0[i]
    /\ \A i \in DOMAIN es : Live(es[i]) =>
         /\ es[i].session = session /\ at <= es[i].seen
         /\ \E j \in 1..k : /\ ClaimsOneId(sample[j], sample)
                            /\ es[i].id = sample[j].id
    /\ \A i, j \in DOMAIN es :
         Live(es[i]) /\ Live(es[j]) /\ i # j => es[i].id # es[j].id
    /\ \A i, j \in DOMAIN es :
         i # j /\ es[i].session = es[j].session
         => es[i].path = NoPath \/ es[i].path # es[j].path
    /\ \A i \in DOMAIN es0 :
         /\ i \in DOMAIN es
         /\ es[i].session = es0[i].session /\ es[i].old
         /\ /\ es0[i].session = session /\ es0[i].path # NoPath
            /\ i \notin GivenUp(es0, sample, session)
            => es[i].path = es0[i].path

LEMMA SeqIs ==
    ASSUME NEW V, NEW s \in Seq(V)
    PROVE  DOMAIN s = 1..Len(s) /\ Len(s) \in Nat
  OBVIOUS

LEMMA OneId ==
    ASSUME NEW sample \in Seq(Observation), NEW j \in DOMAIN sample,
           NEW k \in DOMAIN sample, j # k, ClaimsOneId(sample[j], sample)
    PROVE  sample[j].id # sample[k].id
<1> DEFINE S == {i \in DOMAIN sample : sample[i].id = sample[j].id}
<1>1. SUFFICES ASSUME sample[j].id = sample[k].id PROVE FALSE
  OBVIOUS
<1>2. Cardinality(S) = 1 /\ j \in S /\ k \in S
  BY <1>1 DEF ClaimsOneId
<1>3. IsFiniteSet(S)
  <2>1. IsFiniteSet(DOMAIN sample)
    BY FS_Interval
  <2> QED  BY <2>1, FS_Subset
<1> HIDE DEF S
<1>4. \E x : S = {x}
  BY <1>2, <1>3, FS_Singleton
<1> QED  BY <1>2, <1>4

Began(x, o, durable, session, at, answered) ==
    /\ x \in Entry /\ Live(x) /\ x.id = o.id /\ x.path = durable
    /\ x.session = session /\ at <= x.seen
    /\ x.from \subseteq {answered} /\ x.was \subseteq {durable}

LEMMA NewBegins ==
    ASSUME NEW o \in Observation, NEW durable \in Paths \cup {NoPath},
           NEW session \in Sessions \cup {None}, NEW at \in 0..Horizon,
           NEW answered \in Sessions
    PROVE  Began(Observed(NewEntry(o, durable, session, at), durable, at,
                          answered), o, durable, session, at, answered)
<1> DEFINE new == NewEntry(o, durable, session, at)
           x == Observed(new, durable, at, answered)
<1>1. /\ new \in Entry /\ new.id = o.id /\ new.path = durable
      /\ new.session = session /\ new.took = 0
  BY NewEntryIs
<1>2. new.from = {} /\ new.was = {}
  BY DEF NewEntry
<1> HIDE DEF new
<1>3. Saw(x, new, durable, at, answered)
  BY <1>1, ObservedIs
<1> HIDE DEF x
<1>6. x.from \subseteq {answered} /\ x.was \subseteq {durable}
  BY <1>2, <1>3 DEF Saw
<1>7. Live(x)
  BY <1>1, <1>3 DEF Live, Saw
<1> QED  BY <1>1, <1>3, <1>6, <1>7 DEF Began, Keeps, Saw, x, new

Went(x, e, o, durable, at, answered) ==
    /\ x \in Entry /\ Live(x) /\ x.id = o.id
    /\ x.session = e.session /\ at <= x.seen /\ x.old = e.old
    /\ x.from = e.from
       \/ x.from = IF e.session = None THEN {} ELSE e.from \cup {answered}
    /\ durable # NoPath => x.path = durable /\ x.was \subseteq e.was \cup {durable}
    /\ durable = NoPath /\ o.path = NoPath => x.path = e.path /\ x.was = e.was
    /\ durable = NoPath /\ o.path # NoPath => x.path = NoPath /\ x.was = {}

LEMMA OldGoesOn ==
    ASSUME NEW e \in Entry, NEW o \in Observation,
           NEW durable \in Paths \cup {NoPath}, NEW at \in 0..Horizon,
           NEW answered \in Sessions
    PROVE  Went(Observed(Restamped(e, o, durable), durable, at, answered),
                e, o, durable, at, answered)
<1> DEFINE y == Restamped(e, o, durable)
           x == Observed(y, durable, at, answered)
<1>1. /\ y \in Entry /\ y.id = o.id /\ y.session = e.session
      /\ y.old = e.old /\ y.took = e.took /\ y.from = e.from
  BY RestampedIs
<1>2. /\ durable # NoPath => y.path = durable /\ y.was = e.was
      /\ durable = NoPath /\ o.path = NoPath => y.path = e.path /\ y.was = e.was
      /\ durable = NoPath /\ o.path # NoPath => y.path = NoPath /\ y.was = {}
  BY RestampedIs
<1> HIDE DEF y
<1>3. Saw(x, y, durable, at, answered)
  BY <1>1, ObservedIs
<1> HIDE DEF x
<1>6. Live(x)
  <2>1. e.took \in Nat
    BY EntryIs
  <2> QED  BY <1>1, <1>3, <2>1 DEF Live, Saw
<1>7. x.from = e.from
       \/ x.from = IF e.session = None THEN {} ELSE e.from \cup {answered}
  BY <1>1, <1>3 DEF Saw
<1>8. /\ durable # NoPath => x.was \subseteq e.was \cup {durable}
      /\ durable = NoPath /\ o.path = NoPath => x.was = e.was
      /\ durable = NoPath /\ o.path # NoPath => x.was = {}
  BY <1>2, <1>3 DEF Saw
<1>9. /\ x.id = o.id /\ x.session = e.session /\ x.old = e.old
      /\ durable # NoPath => x.path = durable
      /\ durable = NoPath /\ o.path = NoPath => x.path = e.path
      /\ durable = NoPath /\ o.path # NoPath => x.path = NoPath
  BY <1>1, <1>2, <1>3 DEF Keeps, Saw
<1> QED  BY <1>3, <1>6, <1>7, <1>8, <1>9 DEF Went, Saw, x, y

\* An entry that took observation k.
Landed(es, i, x, o, session, at) ==
    /\ x \in Entry /\ Live(x) /\ Fits(x)
    /\ x.session = session /\ at <= x.seen /\ x.id = o.id
    /\ \A j \in DOMAIN es : j # i /\ es[j].session = session
         => x.path = NoPath \/ x.path # es[j].path

\* The sample goes on when the observation lands on i, an entry or a new one.
LEMMA LandsThere ==
    ASSUME NEW es0 \in Seq(Entry), NEW es \in Seq(Entry), NEW r \in Seq(Entry),
           NEW sample \in Seq(Observation), NEW k \in 1..Len(sample),
           NEW session, NEW at,
           Underway(es, es0, sample, k-1, session, at),
           ClaimsOneId(sample[k], sample),
           \A j \in DOMAIN es : Live(es[j]) => es[j].id # sample[k].id,
           NEW i \in 1..(Len(es)+1), DOMAIN r = DOMAIN es \cup {i},
           \A j \in DOMAIN es \ {i} : r[j] = es[j],
           Landed(es, i, r[i], sample[k], session, at),
           i \in DOMAIN es => es[i].session = session /\ r[i].old = es[i].old,
           i \in DOMAIN es0 /\ es0[i].session = session /\ es0[i].path # NoPath
             /\ i \notin GivenUp(es0, sample, session)
             => r[i].path = es0[i].path
    PROVE  Underway(r, es0, sample, k, session, at)
<1>0. /\ DOMAIN es = 1..Len(es) /\ DOMAIN es0 = 1..Len(es0)
      /\ DOMAIN r = 1..Len(r) /\ Len(es0) <= Len(es)
      /\ Len(es) \in Nat /\ Len(r) \in Nat /\ Len(es0) \in Nat
      /\ DOMAIN es0 \subseteq DOMAIN es
  <2>1. Len(es0) <= Len(es)
    BY DEF Underway
  <2>2. /\ DOMAIN es = 1..Len(es) /\ DOMAIN es0 = 1..Len(es0)
        /\ DOMAIN r = 1..Len(r)
        /\ Len(es) \in Nat /\ Len(r) \in Nat /\ Len(es0) \in Nat
    BY SeqIs
  <2> QED  BY <2>1, <2>2
<1>1. Len(es0) <= Len(r)
  <2>1. Len(es) <= Len(r)
    <3>1. CASE Len(es) = 0
      BY <1>0, <3>1
    <3>2. CASE Len(es) # 0
      <4>1. Len(es) \in DOMAIN es
        BY <1>0, <3>2
      <4>2. Len(es) \in DOMAIN r
        BY <4>1
      <4>3. Len(es) \in 1..Len(r)
        BY <1>0, <4>2, Zenon
      <4> QED  BY <1>0, <4>3
    <3> QED  BY <3>1, <3>2
  <2> QED  BY <1>0, <2>1
<1>2. \A j \in DOMAIN r : j = i \/ (j \in DOMAIN es /\ r[j] = es[j])
  OBVIOUS
<1>3. \A j \in DOMAIN r : Fits(r[j])
  BY <1>2 DEF Underway, Landed
<1>4. \A j \in DOMAIN r : ~Live(r[j]) => j \in DOMAIN es0 /\ r[j] = es0[j]
  BY <1>2 DEF Underway, Landed
<1>5. ASSUME NEW j \in DOMAIN r, Live(r[j])
      PROVE  /\ r[j].session = session /\ at <= r[j].seen
             /\ \E l \in 1..k : /\ ClaimsOneId(sample[l], sample)
                                /\ r[j].id = sample[l].id
  <2>1. CASE j = i
    BY <2>1 DEF Landed
  <2>2. CASE j # i
    <3>1. j \in DOMAIN es /\ r[j] = es[j]
      BY <1>2, <2>2
    <3>2. es[j].session = session /\ at <= es[j].seen
      BY <1>5, <3>1 DEF Underway
    <3>3. PICK l \in 1..(k-1) : /\ ClaimsOneId(sample[l], sample)
                                /\ es[j].id = sample[l].id
      BY <1>5, <3>1 DEF Underway
    <3>4. l \in 1..k
      OBVIOUS
    <3> QED  BY <3>1, <3>2, <3>3, <3>4
  <2> QED  BY <2>1, <2>2
<1>6. \A j, l \in DOMAIN r :
        Live(r[j]) /\ Live(r[l]) /\ j # l => r[j].id # r[l].id
  BY <1>2 DEF Underway, Landed
<1>7. ASSUME NEW j \in DOMAIN r, NEW l \in DOMAIN r, j # l,
             r[j].session = r[l].session
      PROVE  r[j].path = NoPath \/ r[j].path # r[l].path
  <2>1. CASE j = i
    BY <1>2, <1>7, <2>1 DEF Landed
  <2>2. CASE l = i
    BY <1>2, <1>7, <2>2 DEF Landed
  <2>3. CASE j # i /\ l # i
    BY <1>2, <1>7, <2>3 DEF Underway
  <2> QED  BY <2>1, <2>2, <2>3
<1>8. ASSUME NEW j \in DOMAIN es0
      PROVE  /\ j \in DOMAIN r
             /\ r[j].session = es0[j].session /\ r[j].old
             /\ /\ es0[j].session = session /\ es0[j].path # NoPath
                /\ j \notin GivenUp(es0, sample, session)
                => r[j].path = es0[j].path
  <2>1. /\ j \in DOMAIN es /\ j \in DOMAIN r
        /\ es[j].session = es0[j].session /\ es[j].old
        /\ /\ es0[j].session = session /\ es0[j].path # NoPath
           /\ j \notin GivenUp(es0, sample, session)
           => es[j].path = es0[j].path
    BY <1>0 DEF Underway
  <2>2. CASE j = i
    BY <2>1, <2>2 DEF Landed
  <2>3. CASE j # i
    BY <2>1, <2>3
  <2> QED  BY <2>2, <2>3
<1> QED  BY <1>1, <1>3, <1>4, <1>5, <1>6, <1>7, <1>8 DEF Underway

\* One more observation, whichever entry it lands on.
LEMMA OneMore ==
    ASSUME NEW es0 \in Seq(Entry), NEW es \in Seq(Entry),
           NEW sample \in Seq(Observation), NEW k \in 1..Len(sample),
           NEW session \in Sessions \cup {None}, NEW at \in 0..Horizon,
           NEW answered \in Sessions, session # None => session = answered,
           Underway(es, es0, sample, k-1, session, at),
           ClaimsOneId(sample[k], sample)
    PROVE  /\ RecordWorkspace(es, sample[k], sample, session, at, answered)
                \in Seq(Entry)
           /\ Underway(RecordWorkspace(es, sample[k], sample, session, at,
                                       answered),
                       es0, sample, k, session, at)
<1> DEFINE o == sample[k]
           durable == DurableKey(o, sample)
           p == Locate(es, o, durable, session)
           r == RecordWorkspace(es, o, sample, session, at, answered)
<1>0. o \in Observation /\ durable \in Paths \cup {NoPath}
  <2>1. k \in DOMAIN sample
    OBVIOUS
  <2> QED  BY <2>1, DurableIs
<1>1. /\ o \in Observation /\ durable \in Paths \cup {NoPath}
      /\ k \in DOMAIN sample /\ DOMAIN es = 1..Len(es) /\ Len(es) \in Nat
      /\ NoPath \notin Paths
  <2>1. k \in DOMAIN sample
    OBVIOUS
  <2> QED  BY <2>1, DurableIs, StoreAssumption
<1>2. /\ p \in 0..Len(es)
      /\ p # 0 => /\ es[p].session = session
                  /\ durable = NoPath =>
                       es[p].id = o.id /\ es[p].label = o.label
                  /\ durable # NoPath => es[p].path \in {durable, NoPath}
      /\ durable # NoPath /\ (p = 0 \/ es[p].path = NoPath) =>
           \A j \in DOMAIN es : es[j].session = session => es[j].path # durable
  BY <1>1, LocateIs
<1>3. \A i \in DOMAIN es : Live(es[i]) => es[i].id # o.id
  <2> SUFFICES ASSUME NEW i \in DOMAIN es, Live(es[i]) PROVE es[i].id # o.id
    OBVIOUS
  <2>1. PICK j \in 1..(k-1) : es[i].id = sample[j].id
    BY DEF Underway
  <2>2. j \in DOMAIN sample /\ j # k
    OBVIOUS
  <2> QED  BY <1>1, <2>1, <2>2, OneId
<1> HIDE DEF o, durable, p, r
<1>4. CASE p = 0
  <2> DEFINE x == Observed(NewEntry(o, durable, session, at), durable, at,
                           answered)
  <2>1. Began(x, o, durable, session, at, answered)
    BY <1>0, NewBegins
  <2>3. r = Append(es, x)
    BY <1>4 DEF RecordWorkspace, r, p, o, durable
  <2> HIDE DEF x
  <2>5. Landed(es, Len(es)+1, x, o, session, at)
    BY <1>1, <1>2, <1>4, <2>1 DEF Landed, Fits, Began
  <2>6. /\ r \in Seq(Entry) /\ DOMAIN r = DOMAIN es \cup {Len(es)+1}
        /\ \A i \in DOMAIN es : r[i] = es[i]
        /\ r[Len(es)+1] = x
    BY <1>1, <2>1, <2>3 DEF Began
  <2>7. Len(es)+1 \notin DOMAIN es /\ Len(es)+1 \notin DOMAIN es0
        /\ Len(es)+1 \in 1..(Len(es)+1)
    BY <1>1 DEF Underway
  <2>8. Underway(r, es0, sample, k, session, at)
    <3> DEFINE i == Len(es)+1
    <3>1. Landed(es, i, r[i], sample[k], session, at)
      BY <2>5, <2>6 DEF o
    <3>2. i \notin DOMAIN es /\ i \notin DOMAIN es0 /\ i \in 1..(Len(es)+1)
      BY <2>7
    <3>3. DOMAIN r = DOMAIN es \cup {i} /\ \A j \in DOMAIN es \ {i} : r[j] = es[j]
      BY <2>6
    <3>4. \A j \in DOMAIN es : Live(es[j]) => es[j].id # sample[k].id
      BY <1>3 DEF o
    <3> HIDE DEF i
    <3> QED  BY <2>6, <3>1, <3>2, <3>3, <3>4, LandsThere
  <2> QED  BY <2>6, <2>8 DEF r, o
<1>5. CASE p # 0
  <2> DEFINE e == es[p]
             x == Observed(Restamped(e, o, durable), durable, at, answered)
  <2>1. p \in DOMAIN es /\ e \in Entry /\ e.session = session /\ Fits(e)
    BY <1>1, <1>2, <1>5 DEF Underway
  <2> HIDE DEF e
  <2>2. Went(x, e, o, durable, at, answered)
    BY <1>0, <2>1, OldGoesOn
  <2>4. r = [es EXCEPT ![p] = x]
    BY <1>5 DEF RecordWorkspace, r, p, o, durable, e
  <2> HIDE DEF x
  <2>5. /\ r \in Seq(Entry) /\ DOMAIN r = DOMAIN es \cup {p}
        /\ \A i \in DOMAIN es \ {p} : r[i] = es[i]
        /\ r[p] = x
    BY <1>1, <2>1, <2>2, <2>4 DEF Went
  <2>6. Fits(x)
    <3>1. e.was \in SUBSET Paths /\ e.was \subseteq {e.path}
      BY <2>1, EntryIs DEF Fits
    <3>2. e.path = NoPath => e.was = {}
      BY <1>1, <3>1
    <3>3. durable # NoPath => e.was \subseteq {durable}
      BY <1>2, <1>5, <3>1, <3>2 DEF e
    <3>4. x.was \subseteq {x.path}
      BY <2>2, <3>1, <3>3 DEF Went
    <3>5. x.session # None => x.from \subseteq {x.session}
      BY <1>1, <2>1, <2>2 DEF Went, Fits
    <3> QED  BY <3>4, <3>5 DEF Fits
  <2>8. ASSUME NEW j \in DOMAIN es, j # p, es[j].session = session
        PROVE  x.path = NoPath \/ x.path # es[j].path
    <3>1. e.path = NoPath \/ e.path # es[j].path
      BY <2>1, <2>8 DEF Underway, e
    <3>2. durable # NoPath => es[j].path # durable
      BY <1>2, <1>5, <2>8, <3>1 DEF e
    <3> QED  BY <2>2, <3>1, <3>2 DEF Went
  <2>9. Landed(es, p, x, o, session, at)
    BY <2>1, <2>2, <2>6, <2>8 DEF Landed, Went
  <2>10. ASSUME p \in DOMAIN es0, es0[p].session = session,
                es0[p].path # NoPath, p \notin GivenUp(es0, sample, session)
         PROVE  x.path = es0[p].path
    <3>1. e.path = es0[p].path /\ e.path # NoPath
      BY <2>10 DEF Underway, e
    <3>2. durable # NoPath => durable = e.path
      BY <1>2, <1>5, <3>1 DEF e
    <3>3. ASSUME durable = NoPath, o.path # NoPath PROVE FALSE
      <4>1. e.id = o.id /\ e.label = o.label
        BY <1>2, <1>5, <3>3 DEF e
      <4>2. ~Live(e)
        BY <1>3, <2>1, <4>1 DEF e
      <4>3. e = es0[p]
        BY <2>1, <4>2 DEF Underway, e
      <4>4. p \in GivenUp(es0, sample, session)
        BY <1>1, <2>10, <3>3, <4>1, <4>3 DEF GivenUp, o, durable
      <4> QED  BY <2>10, <4>4
    <3> QED  BY <2>2, <3>1, <3>2, <3>3 DEF Went
  <2>11. Underway(r, es0, sample, k, session, at)
    <3>1. Landed(es, p, r[p], sample[k], session, at)
      BY <2>5, <2>9 DEF o
    <3>2. p \in 1..(Len(es)+1)
      BY <1>1, <2>1
    <3>3. es[p].session = session /\ r[p].old = es[p].old
      BY <2>1, <2>2, <2>5 DEF Went, e
    <3>4. \A j \in DOMAIN es : Live(es[j]) => es[j].id # sample[k].id
      BY <1>3 DEF o
    <3>5. p \in DOMAIN es0 /\ es0[p].session = session /\ es0[p].path # NoPath
            /\ p \notin GivenUp(es0, sample, session)
            => r[p].path = es0[p].path
      BY <2>5, <2>10
    <3> QED  BY <2>5, <3>1, <3>2, <3>3, <3>4, <3>5, LandsThere
  <2> QED  BY <2>5, <2>11 DEF r, o
<1> QED  BY <1>4, <1>5

-----------------------------------------------------------------------------
(* A sample.                                                               *)

LEMMA RecordTyped ==
    ASSUME NEW es \in Seq(Entry), NEW sample \in Seq(Observation),
           NEW k \in DOMAIN sample, NEW session \in Sessions \cup {None},
           NEW at \in 0..Horizon, NEW answered \in Sessions
    PROVE  RecordWorkspace(es, sample[k], sample, session, at, answered)
             \in Seq(Entry)
<1> DEFINE o == sample[k]
           durable == DurableKey(o, sample)
           p == Locate(es, o, durable, session)
<1>1. o \in Observation /\ durable \in Paths \cup {NoPath}
  BY DurableIs
<1>2. p \in 0..Len(es)
  BY LocateIs
<1> HIDE DEF o, durable, p
<1>3. CASE p = 0
  <2> DEFINE x == Observed(NewEntry(o, durable, session, at), durable, at,
                           answered)
  <2>1. x \in Entry
    BY <1>1, NewBegins DEF Began
  <2>2. RecordWorkspace(es, o, sample, session, at, answered) = Append(es, x)
    BY <1>3 DEF RecordWorkspace, p, durable
  <2> HIDE DEF x
  <2> QED  BY <2>1, <2>2 DEF o
<1>4. CASE p # 0
  <2> DEFINE x == Observed(Restamped(es[p], o, durable), durable, at, answered)
  <2>1. p \in DOMAIN es /\ es[p] \in Entry
    BY <1>2, <1>4
  <2>2. x \in Entry
    BY <1>1, <2>1, OldGoesOn DEF Went
  <2>3. RecordWorkspace(es, o, sample, session, at, answered)
          = [es EXCEPT ![p] = x]
    BY <1>4 DEF RecordWorkspace, p, durable
  <2> HIDE DEF x
  <2> QED  BY <2>1, <2>2, <2>3 DEF o
<1> QED  BY <1>3, <1>4

LEMMA SettledIs ==
    ASSUME NEW es \in Seq(Entry)
    PROVE  /\ Settled(es) \in Seq(Entry) /\ DOMAIN Settled(es) = DOMAIN es
           /\ \A i \in DOMAIN es :
                /\ Settled(es)[i].id = es[i].id
                /\ Settled(es)[i].label = es[i].label
                /\ Settled(es)[i].path = es[i].path
                /\ Settled(es)[i].session = es[i].session
                /\ Settled(es)[i].from = es[i].from
                /\ Settled(es)[i].was = es[i].was
                /\ ~Live(Settled(es)[i]) /\ Settled(es)[i].old
<1> DEFINE x(i) == [es[i] EXCEPT !.took = 0, !.old = TRUE]
<1>1. ASSUME NEW e \in Entry
      PROVE  LET y == [e EXCEPT !.took = 0, !.old = TRUE]
             IN  /\ y \in Entry /\ y.id = e.id /\ y.label = e.label
                 /\ y.path = e.path /\ y.session = e.session
                 /\ y.from = e.from /\ y.was = e.was
                 /\ ~Live(y) /\ y.old
  <2> DEFINE y == [e EXCEPT !.took = 0, !.old = TRUE]
  <2>1. y \in Entry
    BY DEF Entry
  <2>2. /\ y.id = e.id /\ y.label = e.label /\ y.path = e.path
        /\ y.session = e.session /\ y.from = e.from /\ y.was = e.was
        /\ y.took = 0
    BY DEF Entry
  <2>3. y.old = TRUE
    BY DEF Entry
  <2>4. ~Live(y)
    BY <2>2 DEF Live
  <2> HIDE DEF y
  <2>5. y.old
    BY <2>3
  <2> QED  BY <2>1, <2>2, <2>4, <2>5 DEF y
<1>2. \A i \in DOMAIN es : es[i] \in Entry
  OBVIOUS
<1>3. Settled(es) = [i \in DOMAIN es |-> x(i)]
  BY DEF Settled
<1>4. \A i \in DOMAIN es :
        /\ x(i) \in Entry /\ x(i).id = es[i].id /\ x(i).label = es[i].label
        /\ x(i).path = es[i].path /\ x(i).session = es[i].session
        /\ x(i).from = es[i].from /\ x(i).was = es[i].was
        /\ ~Live(x(i)) /\ x(i).old
  BY <1>1, <1>2
<1> HIDE DEF x
<1>5. DOMAIN es = 1..Len(es) /\ Len(es) \in Nat
  BY SeqIs
<1>6. Settled(es) \in [1..Len(es) -> Entry]
  BY <1>3, <1>4, <1>5
<1>7. Settled(es) \in Seq(Entry)
  BY <1>5, <1>6
<1> QED  BY <1>3, <1>4, <1>7

Sound(es) == Apart(es) /\ \A i \in DOMAIN es : Fits(es[i])

LEMMA NothingYet ==
    ASSUME NEW es \in Seq(Entry), Sound(es), NEW sample, NEW session, NEW at
    PROVE  Underway(Settled(es), Settled(es), sample, 0, session, at)
<1> DEFINE e == Settled(es)
<1>1. /\ e \in Seq(Entry) /\ DOMAIN e = DOMAIN es
      /\ \A i \in DOMAIN e :
           /\ e[i].path = es[i].path /\ e[i].session = es[i].session
           /\ e[i].from = es[i].from /\ e[i].was = es[i].was
           /\ ~Live(e[i]) /\ e[i].old
  BY SettledIs
<1> HIDE DEF e
<1>2. Len(e) <= Len(e)
  <2>1. Len(e) \in Nat
    BY <1>1, SeqIs
  <2> QED  BY <2>1
<1>3. \A i \in DOMAIN e : Fits(e[i])
  BY <1>1 DEF Fits, Sound
<1>4. \A i, j \in DOMAIN e : i # j /\ e[i].session = e[j].session
         => e[i].path = NoPath \/ e[i].path # e[j].path
  BY <1>1 DEF Apart, Sound
<1>5. Underway(e, e, sample, 0, session, at)
  BY <1>1, <1>2, <1>3, <1>4 DEF Underway
<1> QED  BY <1>5 DEF e

\* record's loop, unfolded.
LEMMA FoldedIs ==
    ASSUME NEW es \in Seq(Entry), Sound(es), NEW sample \in Seq(Observation),
           NEW session \in Sessions \cup {None}, NEW at \in 0..Horizon,
           NEW answered \in Sessions, session # None => session = answered
    PROVE  /\ Folded(es, sample, session, at, answered) \in Seq(Entry)
           /\ Underway(Folded(es, sample, session, at, answered), Settled(es),
                       sample, Len(sample), session, at)
<1> DEFINE S == DOMAIN sample
           es0 == Settled(es)
           V == Seq(Entry)
           n == Len(sample)
           after(acc, k) ==
             IF ClaimsOneId(sample[k], sample)
             THEN RecordWorkspace(acc, sample[k], sample, session, at, answered)
             ELSE acc
           body(g, T) == IF T = {} THEN es0
                         ELSE after(g[T \ {Max(T)}], Max(T))
           iter == CHOOSE g : g = [T \in SUBSET S |-> body(g, T)]
           step == [u \in S \X V |-> after(u[2], u[1])]
<1>1. Folded(es, sample, session, at, answered) = iter[S]
  BY DEF Folded, FoldLeft, MapThenFoldSet
<1>2. IsFiniteSet(S) /\ S \subseteq Int /\ S = 1..n /\ n \in Nat
  <2>1. S = 1..n /\ n \in Nat
    BY SeqIs
  <2> QED  BY <2>1, FS_Interval
<1>3. es0 \in V
  BY SettledIs
<1>4. \A k \in S, acc \in V : after(acc, k) \in V
  BY RecordTyped
<1>5. step \in [S \X V -> V]
  <2> HIDE DEF S, V, after
  <2> QED  BY <1>4
<1>6. \E g \in [SUBSET S -> V] : FoldsBy(g, S, es0, step)
  <2> HIDE DEF S, V, es0, step
  <2> QED  BY <1>2, <1>3, <1>5, FoldExists
<1> HIDE DEF after, V, S, es0
<1>7. PICK g \in [SUBSET S -> V] : FoldsBy(g, S, es0, step)
  BY <1>6
<1>8. ASSUME NEW T \in SUBSET S PROVE g[T] = body(g, T)
  <2>1. CASE T = {}
    BY <1>7, <2>1 DEF FoldsBy
  <2>2. CASE T # {}
    <3>1. g[T] = step[<<Max(T), g[T \ {Max(T)}]>>]
      BY <1>7, <2>2 DEF FoldsBy
    <3>2. Max(T) \in S
      <4>1. IsFiniteSet(T) /\ T \subseteq Int
        BY <1>2, FS_Subset
      <4> QED  BY <2>2, <4>1, MaxIn
    <3>3. <<Max(T), g[T \ {Max(T)}]>> \in S \X V
      BY <3>2
    <3> QED  BY <2>2, <3>1, <3>3
  <2> QED  BY <2>1, <2>2
<1>9. g = [T \in SUBSET S |-> body(g, T)]
  BY <1>8
<1>10. iter = [T \in SUBSET S |-> body(iter, T)]
  <2> HIDE DEF body
  <2> QED  BY <1>9
<1> HIDE DEF iter, step
<1> DEFINE Good(k) == /\ iter[1..k] \in V
                      /\ Underway(iter[1..k], es0, sample, k, session, at)
           C == {k \in 0..n : Good(k)}
<1>11. Good(0)
  <2>1. 1..0 = {} /\ 1..0 \in SUBSET S
    OBVIOUS
  <2>2. iter[1..0] = es0
    BY <1>10, <2>1
  <2>3. Underway(es0, es0, sample, 0, session, at)
    BY NothingYet DEF es0
  <2> QED  BY <1>3, <2>2, <2>3
<1>12. ASSUME NEW k \in 1..n, Good(k-1) PROVE Good(k)
  <2>1. /\ k \in Nat \ {0} /\ k \in S /\ 1..k \in SUBSET S
    BY <1>2
  <2>2. Max(1..k) = k /\ (1..k) \ {Max(1..k)} = 1..(k-1) /\ 1..k # {}
    BY <2>1, PrefixMax
  <2> DEFINE acc == iter[1..(k-1)]
  <2>3. iter[1..k] = after(acc, k)
    BY <1>10, <2>1, <2>2
  <2>4. acc \in V /\ Underway(acc, es0, sample, k-1, session, at)
    BY <1>12
  <2> HIDE DEF acc
  <2>5. CASE ClaimsOneId(sample[k], sample)
    <3> DEFINE r == RecordWorkspace(acc, sample[k], sample, session, at, answered)
    <3>1. r \in V /\ Underway(r, es0, sample, k, session, at)
      BY <1>3, <2>4, <2>5, OneMore DEF V, n
    <3>2. iter[1..k] = r
      BY <2>3, <2>5 DEF after
    <3> QED  BY <3>1, <3>2
  <2>6. CASE ~ClaimsOneId(sample[k], sample)
    <3>1. iter[1..k] = acc
      BY <2>3, <2>6 DEF after
    <3>2. Underway(acc, es0, sample, k, session, at)
      <4>1. 1..(k-1) \subseteq 1..k
        BY <2>1
      <4> QED  BY <2>4, <4>1 DEF Underway
    <3> QED  BY <2>4, <3>1, <3>2
  <2> QED  BY <2>5, <2>6
<1>13. \A k \in 0..n : k \in C
  <2>1. 0 \in C
    BY <1>2, <1>11
  <2>2. \A k \in 1..n : k-1 \in C => k \in C
    BY <1>2, <1>12
  <2> HIDE DEF C
  <2> QED  BY <1>2, <2>1, <2>2, UpTo
<1>14. Good(n)
  BY <1>2, <1>13
<1> QED  BY <1>1, <1>2, <1>14 DEF V, n, es0

-----------------------------------------------------------------------------
(* A file that was read.                                                   *)

\* r has nothing that es has not.
From(r, es) == \A k \in DOMAIN r : \E i \in DOMAIN es : r[k] = es[i]

\* The first holders of the first k entries.
Holds(r, es) == r \in Seq(Entry) /\ Apart(r) /\ From(r, es)

LEMMA OneMoreHolder ==
    ASSUME NEW es \in Seq(Entry), NEW r, Holds(r, es), NEW k \in DOMAIN es,
           ~Clashes(r, es[k])
    PROVE  Holds(Append(r, es[k]), es)
<1> DEFINE e == es[k]
           n == Len(r)
           s == Append(r, e)
<1>1. /\ r \in Seq(Entry) /\ DOMAIN r = 1..n /\ n \in Nat /\ e \in Entry
      /\ s \in Seq(Entry) /\ DOMAIN s = 1..(n+1)
      /\ \A i \in DOMAIN r : s[i] = r[i]
      /\ s[n+1] = e
  BY DEF Holds
<1>2. \A i \in DOMAIN r : r[i].session = e.session
         => r[i].id # e.id /\ (e.path = NoPath \/ r[i].path # e.path)
  BY DEF Clashes
<1>3. \E i \in DOMAIN es : e = es[i]
  OBVIOUS
<1> HIDE DEF e, s, n
<1>4. ASSUME NEW i \in DOMAIN s, NEW j \in DOMAIN s, i # j,
             s[i].session = s[j].session
      PROVE  s[i].id # s[j].id /\ (s[i].path = NoPath \/ s[i].path # s[j].path)
  <2>1. CASE i \in DOMAIN r /\ j \in DOMAIN r
    BY <1>1, <1>4, <2>1 DEF Holds, Apart
  <2>2. CASE i \in DOMAIN r /\ j = n+1
    <3>1. s[i] = r[i] /\ s[j] = e /\ r[i].session = e.session
      BY <1>1, <1>4, <2>2
    <3> QED  BY <1>2, <2>2, <3>1
  <2>3. CASE i = n+1 /\ j \in DOMAIN r
    <3>1. s[i] = e /\ s[j] = r[j] /\ r[j].session = e.session
      BY <1>1, <1>4, <2>3
    <3> QED  BY <1>2, <2>3, <3>1
  <2> QED  BY <1>1, <1>4, <2>1, <2>2, <2>3
<1>5. From(s, es)
  <2> SUFFICES ASSUME NEW i \in DOMAIN s PROVE \E j \in DOMAIN es : s[i] = es[j]
    BY DEF From
  <2>1. CASE i \in DOMAIN r
    BY <1>1, <2>1 DEF Holds, From
  <2>2. CASE i = n+1
    BY <1>1, <1>3, <2>2
  <2> QED  BY <1>1, <2>1, <2>2
<1>6. Apart(s)
  BY <1>4 DEF Apart
<1> QED  BY <1>1, <1>5, <1>6 DEF Holds, s, e

LEMMA FirstHoldersIs ==
    ASSUME NEW es \in Seq(Entry)
    PROVE  Holds(FirstHolders(es), es)
<1> DEFINE S == DOMAIN es
           V == Seq(Entry)
           n == Len(es)
           after(acc, k) == IF Clashes(acc, es[k]) THEN acc
                            ELSE Append(acc, es[k])
           body(g, T) == IF T = {} THEN <<>>
                         ELSE after(g[T \ {Max(T)}], Max(T))
           iter == CHOOSE g : g = [T \in SUBSET S |-> body(g, T)]
           step == [u \in S \X V |-> after(u[2], u[1])]
<1>1. FirstHolders(es) = iter[S]
  BY DEF FirstHolders, FoldLeft, MapThenFoldSet
<1>2. IsFiniteSet(S) /\ S \subseteq Int /\ S = 1..n /\ n \in Nat
  <2>1. S = 1..n /\ n \in Nat
    BY SeqIs
  <2> QED  BY <2>1, FS_Interval
<1>3. <<>> \in V
  OBVIOUS
<1>4. \A k \in S, acc \in V : after(acc, k) \in V
  <2> TAKE k \in S, acc \in V
  <2>1. es[k] \in Entry
    OBVIOUS
  <2>2. Append(acc, es[k]) \in V
    BY <2>1
  <2> QED  BY <2>2
<1>5. step \in [S \X V -> V]
  <2> HIDE DEF S, V, after
  <2> QED  BY <1>4
<1>6. \E g \in [SUBSET S -> V] : FoldsBy(g, S, <<>>, step)
  <2> HIDE DEF S, V, step
  <2> QED  BY <1>2, <1>3, <1>5, FoldExists
<1> HIDE DEF after, V, S
<1>7. PICK g \in [SUBSET S -> V] : FoldsBy(g, S, <<>>, step)
  BY <1>6
<1>8. ASSUME NEW T \in SUBSET S PROVE g[T] = body(g, T)
  <2>1. CASE T = {}
    BY <1>7, <2>1 DEF FoldsBy
  <2>2. CASE T # {}
    <3>1. g[T] = step[<<Max(T), g[T \ {Max(T)}]>>]
      BY <1>7, <2>2 DEF FoldsBy
    <3>2. Max(T) \in S
      <4>1. IsFiniteSet(T) /\ T \subseteq Int
        BY <1>2, FS_Subset
      <4> QED  BY <2>2, <4>1, MaxIn
    <3>3. <<Max(T), g[T \ {Max(T)}]>> \in S \X V
      BY <3>2
    <3> QED  BY <2>2, <3>1, <3>3
  <2> QED  BY <2>1, <2>2
<1>9. g = [T \in SUBSET S |-> body(g, T)]
  BY <1>8
<1>10. iter = [T \in SUBSET S |-> body(iter, T)]
  <2> HIDE DEF body
  <2> QED  BY <1>9
<1> HIDE DEF iter, step
<1> DEFINE C == {k \in 0..n : Holds(iter[1..k], es)}
<1>11. Holds(iter[1..0], es)
  <2>1. 1..0 = {} /\ 1..0 \in SUBSET S
    OBVIOUS
  <2>2. iter[1..0] = <<>>
    BY <1>10, <2>1
  <2>3. <<>> \in Seq(Entry) /\ DOMAIN <<>> = {}
    OBVIOUS
  <2>4. Holds(<<>>, es)
    BY <2>3 DEF Holds, Apart, From
  <2> QED  BY <2>2, <2>4
<1>12. ASSUME NEW k \in 1..n, Holds(iter[1..(k-1)], es)
       PROVE  Holds(iter[1..k], es)
  <2>1. /\ k \in Nat \ {0} /\ k \in S /\ 1..k \in SUBSET S
    BY <1>2
  <2>2. Max(1..k) = k /\ (1..k) \ {Max(1..k)} = 1..(k-1) /\ 1..k # {}
    BY <2>1, PrefixMax
  <2> DEFINE acc == iter[1..(k-1)]
  <2>3. iter[1..k] = after(acc, k)
    BY <1>10, <2>1, <2>2
  <2>4. Holds(acc, es)
    BY <1>12
  <2> HIDE DEF acc
  <2>5. CASE ~Clashes(acc, es[k])
    <3>1. Holds(Append(acc, es[k]), es)
      BY <2>1, <2>4, <2>5, OneMoreHolder DEF S
    <3> QED  BY <2>3, <2>5, <3>1 DEF after
  <2>6. CASE Clashes(acc, es[k])
    BY <2>3, <2>4, <2>6 DEF after
  <2> QED  BY <2>5, <2>6
<1>13. \A k \in 0..n : k \in C
  <2>1. 0 \in C
    BY <1>2, <1>11
  <2>2. \A k \in 1..n : k-1 \in C => k \in C
    BY <1>2, <1>12
  <2> HIDE DEF C
  <2> QED  BY <1>2, <2>1, <2>2, UpTo
<1>14. Holds(iter[1..n], es)
  BY <1>2, <1>13
<1> QED  BY <1>1, <1>2, <1>14

LEMMA SiftedFrom ==
    ASSUME NEW r, NEW es, NEW kept \in SUBSET DOMAIN es, Sifted(r, es, kept)
    PROVE  From(r, es)
<1>1. PICK m \in [DOMAIN r -> kept] : \A k \in DOMAIN r : r[k] = es[m[k]]
  BY DEF Sifted
<1>2. \A k \in DOMAIN r : m[k] \in DOMAIN es
  BY <1>1
<1> QED  BY <1>1, <1>2 DEF From

\* The store is within its cap and every entry is its own.
Stored(r, es, c) == Holds(r, es) /\ Len(r) <= c

LEMMA NormalisedIs ==
    ASSUME NEW es \in Seq(Entry), NEW c \in Nat \ {0}
    PROVE  Stored(Normalised(es, c), es, c)
<1> DEFINE h == FirstHolders(es)
           r == Evicted(h, c, Horizon)
<1>1. Holds(h, es)
  BY FirstHoldersIs
<1>2. Normalised(es, c) = r
  BY DEF Normalised
<1>3. Horizon \in Nat
  BY StoreAssumption
<1> HIDE DEF h
<1>4. /\ r \in Seq(Entry) /\ Len(r) <= c /\ Apart(r)
      /\ Sifted(r, h, {i \in DOMAIN h : Stays(h, h[i], c, Horizon)})
  BY <1>1, <1>3, EvictedIs DEF Holds
<1> HIDE DEF r
<1>5. From(r, h)
  BY <1>4, SiftedFrom
<1>6. From(r, es)
  BY <1>1, <1>5 DEF From, Holds
<1> QED  BY <1>2, <1>4, <1>6 DEF Stored, Holds

-----------------------------------------------------------------------------
(* A sample that was recorded.                                             *)

LEMMA ApartAfterDrop ==
    ASSUME NEW es \in Seq(Entry), Apart(es), NEW f \in Seq(Entry),
           NEW sample, NEW k, NEW session, NEW at,
           Underway(f, Settled(es), sample, k, session, at),
           NEW i \in DOMAIN f, NEW j \in DOMAIN f,
           i # j, f[i].session = f[j].session,
           \/ Live(f[i]) \/ f[i].session # session
           \/ \A l \in DOMAIN f : Live(f[l]) => f[l].id # f[i].id,
           \/ Live(f[j]) \/ f[j].session # session
           \/ \A l \in DOMAIN f : Live(f[l]) => f[l].id # f[j].id
    PROVE  f[i].id # f[j].id
<1>1. CASE Live(f[i]) /\ Live(f[j])
  BY <1>1 DEF Underway
<1>2. CASE Live(f[i]) /\ ~Live(f[j])
  <2>1. f[i].session = session
    BY <1>2 DEF Underway
  <2> QED  BY <1>2, <2>1
<1>3. CASE ~Live(f[i]) /\ Live(f[j])
  <2>1. f[j].session = session
    BY <1>3 DEF Underway
  <2> QED  BY <1>3, <2>1
<1>4. CASE ~Live(f[i]) /\ ~Live(f[j])
  <2> DEFINE e == Settled(es)
  <2>1. i \in DOMAIN e /\ f[i] = e[i] /\ j \in DOMAIN e /\ f[j] = e[j]
    BY <1>4 DEF Underway
  <2>2. /\ i \in DOMAIN es /\ j \in DOMAIN es
        /\ e[i].id = es[i].id /\ e[j].id = es[j].id
        /\ e[i].session = es[i].session /\ e[j].session = es[j].session
    BY <2>1, SettledIs
  <2> HIDE DEF e
  <2> QED  BY <2>1, <2>2 DEF Apart
<1> QED  BY <1>1, <1>2, <1>3, <1>4

\* A checkout on record goes on in its entry, wherever that is now.
Continues(r, es, gone) ==
    \A i \in DOMAIN es \ gone, j \in DOMAIN r :
        /\ es[i].path # NoPath /\ r[j].path = es[i].path
        /\ r[j].session = es[i].session
        => r[j].old

UpToDate(r, at) == \A j \in DOMAIN r : Live(r[j]) => at <= r[j].seen

LEMMA FoldContinues ==
    ASSUME NEW es \in Seq(Entry), NEW f \in Seq(Entry),
           NEW sample, NEW k, NEW session, NEW at,
           Underway(f, Settled(es), sample, k, session, at)
    PROVE  Continues(f, es, GivenUp(es, sample, session))
<1> DEFINE e == Settled(es)
           gone == GivenUp(es, sample, session)
<1>1. /\ DOMAIN e = DOMAIN es
      /\ \A i \in DOMAIN es :
           /\ e[i].id = es[i].id /\ e[i].label = es[i].label
           /\ e[i].path = es[i].path /\ e[i].session = es[i].session
  BY SettledIs
<1>2. GivenUp(e, sample, session) = gone
  <2> HIDE DEF e
  <2> QED  BY <1>1 DEF GivenUp
<1> HIDE DEF e, gone
<1>3. ASSUME NEW i \in DOMAIN es \ gone, NEW j \in DOMAIN f,
             es[i].path # NoPath, f[j].path = es[i].path,
             f[j].session = es[i].session
      PROVE  f[j].old
  <2>1. /\ i \in DOMAIN f /\ f[i].session = e[i].session /\ f[i].old
        /\ e[i].session = session => f[i].path = e[i].path
    BY <1>1, <1>2, <1>3 DEF Underway, e
  <2>2. f[i].path = e[i].path
    <3>1. CASE e[i].session = session
      BY <2>1, <3>1
    <3>2. CASE e[i].session # session
      <4>1. ~Live(f[i])
        BY <2>1, <3>2 DEF Underway
      <4>2. f[i] = e[i]
        BY <2>1, <4>1 DEF Underway, e
      <4> QED  BY <4>2
    <3> QED  BY <3>1, <3>2
  <2>3. f[i].path = f[j].path /\ f[i].session = f[j].session /\ f[i].path # NoPath
    BY <1>1, <1>3, <2>1, <2>2
  <2>4. i = j
    BY <2>1, <2>3 DEF Underway
  <2> QED  BY <2>1, <2>4
<1> QED  BY <1>3 DEF Continues, gone

\* What a sample leaves: es is what there was before it.
Sampled(r, es, gone, at) ==
    r \in Seq(Entry) /\ Sound(r) /\ UpToDate(r, at) /\ Continues(r, es, gone)

LEMMA SiftedSampled ==
    ASSUME NEW r \in Seq(Entry), NEW f, NEW kept \in SUBSET DOMAIN f,
           Sifted(r, f, kept), Apart(r), NEW es, NEW gone, NEW at,
           \A i \in DOMAIN f : Fits(f[i]), UpToDate(f, at),
           Continues(f, es, gone)
    PROVE  Sampled(r, es, gone, at)
<1>1. From(r, f)
  BY SiftedFrom
<1>2. \A i \in DOMAIN r : Fits(r[i])
  BY <1>1 DEF From
<1>3. UpToDate(r, at)
  BY <1>1 DEF From, UpToDate
<1>4. Continues(r, es, gone)
  BY <1>1 DEF From, Continues
<1> QED  BY <1>2, <1>3, <1>4 DEF Sampled, Sound

LEMMA RecordedIs ==
    ASSUME NEW es \in Seq(Entry), Sound(es), NEW sample \in Seq(Observation),
           NEW session \in Sessions \cup {None}, NEW at \in 0..Horizon,
           NEW answered \in Sessions, session # None => session = answered
    PROVE  Sampled(Recorded(es, sample, session, at, answered), es,
                   GivenUp(es, sample, session), at)
<1> DEFINE f == Folded(es, sample, session, at, answered)
           r == DropReused(f, session)
           n == Len(sample)
           gone == GivenUp(es, sample, session)
           K == {i \in DOMAIN f :
                   \/ Live(f[i]) \/ f[i].session # session
                   \/ \A j \in DOMAIN f : Live(f[j]) => f[j].id # f[i].id}
<1>1. f \in Seq(Entry) /\ Underway(f, Settled(es), sample, n, session, at)
  BY FoldedIs
<1>2. Recorded(es, sample, session, at, answered) = r
  BY DEF Recorded
<1> HIDE DEF f, n
<1>3. r \in Seq(Entry) /\ Sifted(r, f, K)
  BY <1>1, DropReusedIs
<1>4. K \in SUBSET DOMAIN f
  OBVIOUS
<1>5. Continues(f, es, gone)
  BY <1>1, FoldContinues
<1>6. \A i \in DOMAIN f : Fits(f[i])
  BY <1>1 DEF Underway
<1>7. UpToDate(f, at)
  BY <1>1 DEF Underway, UpToDate
<1>8. \A i \in K : \/ Live(f[i]) \/ f[i].session # session
                   \/ \A j \in DOMAIN f : Live(f[j]) => f[j].id # f[i].id
  OBVIOUS
<1> HIDE DEF r, K, gone
<1>9. Apart(es)
  BY DEF Sound
<1>10. ASSUME NEW i \in K, NEW j \in K, i # j, f[i].session = f[j].session
       PROVE  f[i].id # f[j].id /\ (f[i].path = NoPath \/ f[i].path # f[j].path)
  <2>1. i \in DOMAIN f /\ j \in DOMAIN f
    BY <1>4
  <2>2. f[i].path = NoPath \/ f[i].path # f[j].path
    BY <1>1, <1>10, <2>1 DEF Underway
  <2>3. f[i].id # f[j].id
    BY <1>1, <1>8, <1>9, <1>10, <2>1, ApartAfterDrop
  <2> QED  BY <2>2, <2>3
<1>11. Apart(r)
  <2>1. PICK m \in [DOMAIN r -> K] :
          /\ \A k \in DOMAIN r : r[k] = f[m[k]]
          /\ \A k, l \in DOMAIN r : m[k] = m[l] => k = l
    BY <1>3 DEF Sifted
  <2>2. ASSUME NEW k \in DOMAIN r, NEW l \in DOMAIN r, k # l,
               r[k].session = r[l].session
        PROVE  r[k].id # r[l].id /\ (r[k].path = NoPath \/ r[k].path # r[l].path)
    <3>1. m[k] \in K /\ m[l] \in K /\ m[k] # m[l] /\ r[k] = f[m[k]] /\ r[l] = f[m[l]]
      BY <2>1, <2>2
    <3> QED  BY <1>10, <2>2, <3>1
  <2> QED  BY <2>2 DEF Apart
<1>12. Sampled(r, es, gone, at)
  BY <1>3, <1>4, <1>5, <1>6, <1>7, <1>11, SiftedSampled
<1> QED  BY <1>2, <1>12 DEF gone

LEMMA EvictedSampled ==
    ASSUME NEW f, NEW es, NEW gone, NEW at \in Nat, Sampled(f, es, gone, at),
           NEW c \in Nat \ {0}
    PROVE  Sampled(Evicted(f, c, at), es, gone, at)
           /\ Len(Evicted(f, c, at)) <= c
<1> DEFINE K == {i \in DOMAIN f : Stays(f, f[i], c, at)}
           r == Evicted(f, c, at)
<1>1. f \in Seq(Entry) /\ Apart(f)
  BY DEF Sampled, Sound
<1>2. r \in Seq(Entry) /\ Len(r) <= c /\ Apart(r) /\ Sifted(r, f, K)
  BY <1>1, EvictedIs
<1>3. K \in SUBSET DOMAIN f
  OBVIOUS
<1> HIDE DEF r, K
<1>4. (\A i \in DOMAIN f : Fits(f[i])) /\ UpToDate(f, at) /\ Continues(f, es, gone)
  BY DEF Sampled, Sound
<1>5. Sampled(r, es, gone, at)
  BY <1>2, <1>3, <1>4, SiftedSampled
<1> QED  BY <1>2, <1>5 DEF r

\* Who stays while a live one that is not ahead goes is live or as young.
LEMMA FinishedFirst ==
    ASSUME NEW f \in Seq(Entry), NEW at \in Nat, UpToDate(f, at), NEW c \in Nat,
           NEW v \in DOMAIN f, ~Stays(f, f[v], c, at), Live(f[v]),
           ~(f[v].seen > at),
           NEW k \in DOMAIN f, Stays(f, f[k], c, at)
    PROVE  f[k].seen = f[v].seen
<1> DEFINE above(e) == {j \in DOMAIN f : GoesFirst(e, f[j], at)}
<1>1. f[v] \in Entry /\ f[k] \in Entry /\ \A j \in DOMAIN f : f[j] \in Entry
  OBVIOUS
<1>2. IsFiniteSet(above(f[v])) /\ IsFiniteSet(above(f[k]))
  <2>1. IsFiniteSet(DOMAIN f)
    BY FS_Interval
  <2> QED  BY <2>1, FS_Subset
<1>3. Cardinality(above(f[k])) < c /\ ~(Cardinality(above(f[v])) < c)
  BY DEF Stays
<1>4. ~GoesFirst(f[k], f[v], at)
  <2>1. SUFFICES ASSUME GoesFirst(f[k], f[v], at) PROVE FALSE
    OBVIOUS
  <2>2. above(f[v]) \subseteq above(f[k])
    BY <1>1, <2>1, GoesTransitive
  <2> HIDE DEF above
  <2>3. Cardinality(above(f[v])) <= Cardinality(above(f[k]))
        /\ Cardinality(above(f[v])) \in Nat /\ Cardinality(above(f[k])) \in Nat
    BY <1>2, <2>2, FS_Subset, FS_CardinalityType
  <2> QED  BY <1>3, <2>3
<1>5. f[v].seen \in Nat /\ f[k].seen \in Nat
  BY <1>1, EntryIs
<1>6. f[v].seen = at
  BY <1>5 DEF UpToDate
<1>7. ~(f[k].seen > at) /\ ~(f[k].seen < at)
  BY <1>4, <1>5, <1>6 DEF GoesFirst
<1> QED  BY <1>5, <1>6, <1>7

-----------------------------------------------------------------------------
(* The two marks.                                                          *)

(* The server that answered is not older than the mark read before it, nor *)
(* newer than the server of now; starts are counted upwards.               *)
InOrder ==
    /\ server \in Nat /\ 1 <= server /\ server <= MaxSessions
    /\ up \in BOOLEAN
    /\ call = [phase |-> call.phase, before |-> call.before,
               answered |-> call.answered]
    /\ call.phase \in {"idle", "marked", "asked"}
    /\ call.before \in Nat /\ call.before <= server
    /\ call.answered \in Nat /\ call.answered <= server
    /\ call.phase = "asked" => /\ 1 <= call.answered
                               /\ call.before <= call.answered

LEMMA InOrderInit == Init => InOrder
<1>1. MaxSessions \in Nat \ {0}
  BY StoreAssumption
<1> QED  BY <1>1 DEF Init, InOrder, Idle, None

LEMMA InOrderNext == InOrder /\ [Next]_vars => InOrder'
<1> SUFFICES ASSUME InOrder, [Next]_vars PROVE InOrder'
  OBVIOUS
<1>0. MaxSessions \in Nat \ {0}
  BY StoreAssumption
<1> USE <1>0 DEF InOrder
<1>1. CASE HerdrStops
  BY <1>1 DEF HerdrStops
<1>2. CASE HerdrStarts
  BY <1>2 DEF HerdrStarts
<1>3. CASE MarkBefore
  BY <1>3 DEF MarkBefore, SessionMark, None, herdr
<1>4. CASE Ask
  BY <1>4 DEF Ask, herdr
<1>5. CASE AskFails
  BY <1>5 DEF AskFails, Idle, None, herdr
<1>6. ASSUME NEW s \in Snapshots, NEW at \in Stamps, Record(s, at)
      PROVE  InOrder'
  BY <1>6 DEF Record, Idle, None, herdr
<1>7. ASSUME NEW c \in Caps, Reload(c)
      PROVE  InOrder'
  BY <1>7 DEF Reload, Idle, None, herdr
<1>8. CASE UNCHANGED vars
  BY <1>8 DEF vars, herdr
<1> QED BY <1>1, <1>2, <1>3, <1>4, <1>5, <1>6, <1>7, <1>8 DEF Next

(* A sample that is attributed at all is attributed to the server that     *)
(* answered it (sample: the mark is read on both sides of the call, and    *)
(* the request may be retried on another server).                          *)
AttributionHonest ==
    call.phase = "asked" /\ Attributed # None => Attributed = call.answered

LEMMA Honest == InOrder => AttributionHonest
  BY DEF InOrder, AttributionHonest, Attributed, SessionMark, None

(* However often herdr stops and starts around a request and its retries,  *)
(* AttributionHonest: the reason for OneSession.                           *)
THEOREM MarksSuffice == Spec => []AttributionHonest
<1> QED  BY Honest, InOrderInit, InOrderNext, PTL DEF Spec

-----------------------------------------------------------------------------
(* The store.                                                              *)

Losses == [live : BOOLEAN, seen : 0..Horizon, ahead : BOOLEAN]

Holding ==
    /\ cap \in Caps
    /\ entries \in Seq(Entry) /\ Len(entries) <= cap /\ Sound(entries)
    /\ lost \in SUBSET Losses /\ gave \in SUBSET Nat

StoreInv == InOrder /\ Holding /\ FinishedGoFirst

LEMMA NoneLost == lost = {} => FinishedGoFirst
  BY DEF FinishedGoFirst

LEMMA SoundFrom ==
    ASSUME NEW es, \A i \in DOMAIN es : Fits(es[i]), NEW r, Apart(r), From(r, es)
    PROVE  Sound(r)
  BY DEF Sound, From

LEMMA StoreInit == Init => StoreInv
<1> SUFFICES ASSUME Init PROVE StoreInv
  OBVIOUS
<1>1. PICK f \in Files : entries = Normalised(f, cap)
  BY DEF Init
<1>2. /\ f \in Seq(Entry) /\ cap \in Caps /\ cap \in Nat \ {0}
      /\ lost = {} /\ gave = {}
  BY StoreAssumption DEF Init
<1>3. \A i \in DOMAIN f : f[i].from = {} /\ f[i].was = {}
  BY StoreAssumption
<1>4. Stored(entries, f, cap)
  BY <1>1, <1>2, NormalisedIs
<1>5. \A i \in DOMAIN f : Fits(f[i])
  BY <1>3 DEF Fits
<1>6. Sound(entries)
  BY <1>4, <1>5, SoundFrom DEF Stored, Holds
<1>7. Holding
  BY <1>2, <1>4, <1>6 DEF Holding, Stored, Holds
<1> QED  BY <1>2, <1>7, InOrderInit, NoneLost DEF StoreInv

\* One sample, whatever the snapshot says and whoever answered it.
LEMMA RecordKeeps ==
    ASSUME StoreInv, NEW sample \in Snapshots, NEW at \in Stamps,
           Record(sample, at)
    PROVE  /\ Holding' /\ FinishedGoFirst'
           /\ Continues(entries', entries, gave')
<1> DEFINE session == Attributed
           answered == call.answered
           gone == GivenUp(entries, sample, session)
           full == Recorded(entries, sample, session, at, answered)
<1>1. /\ call.phase = "asked" /\ cap' = cap /\ gave' = gone
      /\ entries' = Evicted(full, cap, at)
      /\ lost' = {[live |-> Live(full[i]), seen |-> full[i].seen,
                   ahead |-> full[i].seen > at]
                    : i \in {j \in DOMAIN full :
                               ~Stays(full, full[j], cap, at)}}
  BY DEF Record
<1>2. /\ session # None => session = answered
      /\ session \in Sessions \cup {None} /\ answered \in Sessions
  <2>1. session # None => session = answered
    BY <1>1, Honest DEF StoreInv, AttributionHonest
  <2>2. answered \in Sessions
    <3>1. MaxSessions \in Nat
      BY StoreAssumption
    <3> QED  BY <1>1, <3>1 DEF StoreInv, InOrder, Sessions
  <2> QED  BY <2>1, <2>2
<1>3. /\ sample \in Seq(Observation) /\ at \in 0..Horizon /\ at \in Nat
      /\ Horizon \in Nat
  BY StoreAssumption
<1>4. /\ cap \in Caps /\ cap \in Nat \ {0} /\ cap \in Nat
      /\ entries \in Seq(Entry) /\ Sound(entries)
  BY StoreAssumption DEF StoreInv, Holding
<1>5. gone \in SUBSET Nat
  BY <1>4 DEF GivenUp
<1> HIDE DEF session, answered, gone
<1>6. Sampled(full, entries, gone, at)
  BY <1>2, <1>3, <1>4, RecordedIs DEF gone
<1> HIDE DEF full
<1>7. Sampled(entries', entries, gone, at) /\ Len(entries') <= cap
  BY <1>1, <1>3, <1>4, <1>6, EvictedSampled
<1>8. full \in Seq(Entry) /\ UpToDate(full, at)
  BY <1>6 DEF Sampled
<1>9. lost' \in SUBSET Losses
  <2> SUFFICES ASSUME NEW i \in DOMAIN full
               PROVE  [live |-> Live(full[i]), seen |-> full[i].seen,
                       ahead |-> full[i].seen > at] \in Losses
    BY <1>1
  <2>1. full[i] \in Entry
    BY <1>8
  <2>2. full[i].seen \in 0..Horizon
    BY <2>1, EntryIs
  <2>3. Live(full[i]) \in BOOLEAN /\ (full[i].seen > at) \in BOOLEAN
    BY DEF Live
  <2> QED  BY <2>2, <2>3 DEF Losses
<1>10. Holding'
  BY <1>1, <1>4, <1>5, <1>7, <1>9 DEF Holding, Sampled
<1>11. FinishedGoFirst'
  <2> SUFFICES ASSUME NEW v \in lost', v.live, ~v.ahead,
                      NEW k \in DOMAIN entries'
               PROVE  Live(entries'[k]) \/ entries'[k].seen = v.seen
    BY DEF FinishedGoFirst, Live
  <2>1. PICK j \in DOMAIN full :
          /\ ~Stays(full, full[j], cap, at)
          /\ v = [live |-> Live(full[j]), seen |-> full[j].seen,
                  ahead |-> full[j].seen > at]
    BY <1>1
  <2>2. Live(full[j]) /\ ~(full[j].seen > at) /\ v.seen = full[j].seen
    BY <2>1
  <2> DEFINE K == {i \in DOMAIN full : Stays(full, full[i], cap, at)}
  <2>3. Sifted(entries', full, K)
    BY <1>1, <1>3, <1>4, <1>6, EvictedIs DEF Sampled, Sound
  <2>4. PICK m \in [DOMAIN entries' -> K] :
          \A l \in DOMAIN entries' : entries'[l] = full[m[l]]
    BY <2>3 DEF Sifted
  <2>5. m[k] \in K /\ entries'[k] = full[m[k]]
    BY <2>4
  <2>6. m[k] \in DOMAIN full /\ Stays(full, full[m[k]], cap, at)
    BY <2>5
  <2>7. full[m[k]].seen = full[j].seen
    BY <1>3, <1>4, <1>8, <2>1, <2>2, <2>6, FinishedFirst
  <2> QED  BY <2>2, <2>5, <2>7
<1>12. Continues(entries', entries, gave')
  BY <1>1, <1>7 DEF Sampled
<1> QED  BY <1>10, <1>11, <1>12

LEMMA ReloadKeeps ==
    ASSUME StoreInv, NEW c \in Caps, Reload(c)
    PROVE  /\ Holding' /\ FinishedGoFirst'
           /\ \A j \in DOMAIN entries' : entries'[j].old
<1> DEFINE past == Settled(entries)
<1>1. /\ cap' = c /\ entries' = Normalised(past, c)
      /\ lost' = {} /\ gave' = {}
  BY DEF Reload
<1>2. /\ c \in Nat \ {0} /\ entries \in Seq(Entry) /\ Sound(entries)
  BY StoreAssumption DEF StoreInv, Holding
<1>3. /\ past \in Seq(Entry) /\ DOMAIN past = DOMAIN entries
      /\ \A i \in DOMAIN past :
           /\ past[i].path = entries[i].path
           /\ past[i].session = entries[i].session
           /\ past[i].from = entries[i].from /\ past[i].was = entries[i].was
           /\ past[i].old
  BY <1>2, SettledIs
<1> HIDE DEF past
<1>4. Stored(entries', past, c)
  BY <1>1, <1>2, <1>3, NormalisedIs
<1>5. \A i \in DOMAIN past : Fits(past[i])
  BY <1>2, <1>3 DEF Sound, Fits
<1>6. Sound(entries')
  BY <1>4, <1>5, SoundFrom DEF Stored, Holds
<1>7. Holding'
  BY <1>1, <1>4, <1>6 DEF Holding, Stored, Holds
<1>8. \A j \in DOMAIN entries' : entries'[j].old
  BY <1>3, <1>4 DEF Stored, Holds, From
<1>9. FinishedGoFirst'
  BY <1>1 DEF FinishedGoFirst
<1> QED  BY <1>7, <1>8, <1>9

LEMMA StoreSame ==
    ASSUME StoreInv, UNCHANGED store
    PROVE  Holding' /\ FinishedGoFirst'
  BY DEF StoreInv, Holding, FinishedGoFirst, store, Live

LEMMA StoreNext == StoreInv /\ [Next]_vars => StoreInv'
<1> SUFFICES ASSUME StoreInv, [Next]_vars PROVE Holding' /\ FinishedGoFirst'
  BY InOrderNext DEF StoreInv
<1>1. ASSUME NEW s \in Snapshots, NEW at \in Stamps, Record(s, at)
      PROVE  Holding' /\ FinishedGoFirst'
  BY <1>1, RecordKeeps
<1>2. ASSUME NEW c \in Caps, Reload(c)
      PROVE  Holding' /\ FinishedGoFirst'
  BY <1>2, ReloadKeeps
<1>3. CASE UNCHANGED store
  BY <1>3, StoreSame
<1> QED  BY <1>1, <1>2, <1>3
         DEF Next, HerdrStops, HerdrStarts, MarkBefore, Ask, AskFails, vars

LEMMA Stands == Spec => []StoreInv
<1> QED  BY StoreInit, StoreNext, PTL DEF Spec

-----------------------------------------------------------------------------
(* What it promises.                                                       *)

(* The state has its types and the store is within its cap, whatever was   *)
(* on disk and whatever the snapshots say (load_from, record, evict).      *)
THEOREM TypesHold == Spec => []TypeOK
<1>1. StoreInv => TypeOK
  <2> SUFFICES ASSUME StoreInv PROVE TypeOK
    OBVIOUS
  <2>1. server \in Sessions /\ up \in BOOLEAN
    BY DEF StoreInv, InOrder, Sessions
  <2>2. call \in [phase : {"idle", "marked", "asked"},
                  before : Sessions \cup {None}, answered : Sessions \cup {None}]
    <3>1. MaxSessions \in Nat
      BY StoreAssumption
    <3>2. /\ call = [phase |-> call.phase, before |-> call.before,
                     answered |-> call.answered]
          /\ call.phase \in {"idle", "marked", "asked"}
      BY DEF StoreInv, InOrder
    <3>3. call.before \in Sessions \cup {None}
      BY <3>1 DEF StoreInv, InOrder, Sessions, None
    <3>4. call.answered \in Sessions \cup {None}
      BY <3>1 DEF StoreInv, InOrder, Sessions, None
    <3> QED  BY <3>2, <3>3, <3>4
  <2>3. /\ cap \in Caps /\ entries \in Seq(Entry) /\ Len(entries) <= cap
        /\ lost \subseteq Losses /\ gave \subseteq Nat
    BY DEF StoreInv, Holding
  <2> QED  BY <2>1, <2>2, <2>3 DEF TypeOK, Losses
<1> QED  BY <1>1, Stands, PTL

(* No entry of a session holds what another server said (OneSession).      *)
THEOREM SessionsStayApart == Spec => []OneSession
<1>1. StoreInv => OneSession
  BY DEF StoreInv, Holding, Sound, Fits, OneSession
<1> QED  BY <1>1, Stands, PTL

(* No series is of two checkouts (OneCheckout): what an entry was recorded *)
(* under is the key it has.                                                *)
THEOREM CheckoutsStayApart == Spec => []OneCheckout
<1>1. StoreInv => OneCheckout
  <2> SUFFICES ASSUME StoreInv, NEW i \in DOMAIN entries
               PROVE  Cardinality(entries[i].was) <= 1
    BY DEF OneCheckout
  <2>1. entries[i].was \subseteq {entries[i].path}
    BY DEF StoreInv, Holding, Sound, Fits
  <2>2. entries[i].was = {} \/ entries[i].was = {entries[i].path}
    BY <2>1
  <2>3. Cardinality({}) = 0 /\ Cardinality({entries[i].path}) = 1
    BY FS_EmptySet, FS_Singleton
  <2> QED  BY <2>2, <2>3
<1> QED  BY <1>1, Stands, PTL

(* An id and a checkout have one entry each in a session (OneHandle), from *)
(* any file and after any snapshot.                                        *)
THEOREM HandlesAreUnique == Spec => []OneHandle
<1>1. StoreInv => OneHandle
  BY DEF StoreInv, Holding, Sound, Apart, OneHandle
<1> QED  BY <1>1, Stands, PTL

(* The cap takes finished series before live ones (FinishedGoFirst), live  *)
(* ones stamped ahead of the sample and ties of one second excepted: the   *)
(* order of evict is total, and a live entry's stamp is never behind.      *)
THEOREM TheFinishedGoFirst == Spec => []FinishedGoFirst
<1>1. StoreInv => FinishedGoFirst
  BY DEF StoreInv
<1> QED  BY <1>1, Stands, PTL

(* A checkout that a sample names goes on in the entry it had              *)
(* (SeriesContinues), whatever else the snapshot holds, unless it has that *)
(* entry's id and label under a checkout it reports twice (gave); for such *)
(* an entry the order of the snapshot decides.                             *)
THEOREM NamedSeriesGoOn == Spec => SeriesContinues
<1> DEFINE Goes == \A i \in DOMAIN entries \ gave', j \in DOMAIN entries' :
             /\ entries[i].path # NoPath /\ entries'[j].path = entries[i].path
             /\ entries'[j].session = entries[i].session
             => entries'[j].old \/ entries' = entries
<1>1. StoreInv /\ [Next]_vars => [Goes]_vars
  <2> SUFFICES ASSUME StoreInv, [Next]_vars PROVE Goes
    OBVIOUS
  <2>1. ASSUME NEW s \in Snapshots, NEW at \in Stamps, Record(s, at)
        PROVE  Goes
    BY <2>1, RecordKeeps DEF Continues
  <2>2. ASSUME NEW c \in Caps, Reload(c)
        PROVE  Goes
    BY <2>2, ReloadKeeps
  <2>3. CASE entries' = entries
    BY <2>3
  <2> QED  BY <2>1, <2>2, <2>3
           DEF Next, HerdrStops, HerdrStarts, MarkBefore, Ask, AskFails, vars,
               store
<1>2. Spec => [][Goes]_vars
  BY <1>1, Stands, PTL DEF Spec
<1> QED  BY <1>2 DEF SeriesContinues
=============================================================================
