---------------------------- MODULE RingsProofs ----------------------------
(***************************************************************************)
(* What holds of the rings of a workspace for any lengths, bucket sizes,   *)
(* agents, observations and clocks.                                        *)
(***************************************************************************)
EXTENDS Rings, TLAPS, FiniteSetTheorems

-----------------------------------------------------------------------------
(* Quotients and remainders.                                               *)

LEMMA DivMod ==
    ASSUME NEW a \in Nat, NEW b \in Nat \ {0}
    PROVE  /\ a \div b \in Nat /\ a % b \in 0..b-1
           /\ a = b * (a \div b) + (a % b)
<1> DEFINE q == a \div b
<1>1. q \in Nat /\ a % b \in 0..b-1 /\ a % b = a - q * b
  BY Z3
<1> HIDE DEF q
<1>2. q * b = b * q /\ q * b \in Nat
  BY <1>1
<1>3. a = b * q + (a % b)
  BY <1>1, <1>2
<1> QED  BY <1>1, <1>3 DEF q

\* What is a multiple further is at least one of it further.
LEMMA OneMore ==
    ASSUME NEW l \in Nat \ {0}, NEW p \in Nat, NEW q \in Nat, q < p
    PROVE  l * q \in Nat /\ l * p \in Nat /\ l * q + l <= l * p
<1>1. PICK k \in Nat : p = q + 1 + k
  <2>1. p - q - 1 \in Nat /\ p = q + 1 + (p - q - 1)
    OBVIOUS
  <2> QED  BY <2>1
<1>2. l * p = l * q + l + l * k /\ l * k \in Nat /\ l * q \in Nat
  BY <1>1
<1> QED  BY <1>1, <1>2

LEMMA Quotient ==
    ASSUME NEW b \in Nat \ {0}, NEW q \in Nat, NEW r \in 0..b-1
    PROVE  (b * q + r) % b = r
<1> DEFINE a == b * q + r
           p == a \div b
           s == a % b
<1>1. a \in Nat
  <2>1. b * q \in Nat
    OBVIOUS
  <2> QED  BY <2>1
<1>2. a = b * q + r
  OBVIOUS
<1> HIDE DEF a
<1>3. p \in Nat /\ s \in 0..b-1 /\ a = b * p + s
  BY <1>1, DivMod
<1> HIDE DEF p, s
<1>4. b * q \in Nat /\ b * p \in Nat
  BY <1>3
<1>5. q = p
  <2>1. ~(q < p)
    BY <1>2, <1>3, <1>4, OneMore
  <2>2. ~(p < q)
    BY <1>2, <1>3, <1>4, OneMore
  <2> QED  BY <1>3, <2>1, <2>2
<1>6. r = s
  BY <1>2, <1>3, <1>4, <1>5
<1> QED  BY <1>6 DEF s, a

LEMMA SameSlot ==
    ASSUME NEW l \in Nat \ {0}, NEW a \in Nat, NEW b \in Nat,
           a < b + l, b < a + l, a % l = b % l
    PROVE  a = b
<1> DEFINE p == a \div l
           q == b \div l
           r == a % l
<1>1. p \in Nat /\ q \in Nat /\ r \in 0..l-1 /\ a = l * p + r /\ b = l * q + r
  BY DivMod
<1> HIDE DEF p, q, r
<1>2. p = q
  <2>1. l * p \in Nat /\ l * q \in Nat
    BY <1>1
  <2>2. ~(q < p)
    BY <1>1, <2>1, OneMore
  <2>3. ~(p < q)
    BY <1>1, <2>1, OneMore
  <2> QED  BY <1>1, <2>2, <2>3
<1> QED  BY <1>1, <1>2

LEMMA NextLaps ==
    ASSUME NEW l \in Nat \ {0}, NEW a \in Nat, NEW k \in Nat
    PROVE  (a + l * k) % l = a % l
<1> DEFINE p == a \div l
           r == a % l
<1>1. p \in Nat /\ r \in 0..l-1 /\ a = l * p + r
  BY DivMod
<1> HIDE DEF p, r
<1>2. a + l * k = l * (p + k) + r
  BY <1>1
<1>3. (l * (p + k) + r) % l = r
  <2>1. p + k \in Nat
    BY <1>1
  <2>2. \A x \in Nat : (l * x + r) % l = r
    BY <1>1, Quotient
  <2> QED  BY <2>1, <2>2
<1> QED  BY <1>2, <1>3 DEF r

\* The lap that ends at newest passes every slot.
LEMMA EverySlot ==
    ASSUME NEW l \in Nat \ {0}, NEW newest \in Nat, NEW m \in Nat,
           m + l <= newest
    PROVE  \E n \in Nat : /\ n % l = m % l
                          /\ m + l <= n /\ n <= newest /\ newest < n + l
<1> DEFINE k == (newest - m) \div l
           r == (newest - m) % l
           n == m + l * k
<1>1. k \in Nat /\ r \in 0..l-1 /\ newest - m = l * k + r
  <2>1. newest - m \in Nat
    OBVIOUS
  <2> QED  BY <2>1, DivMod
<1> HIDE DEF k, r
<1>2. k # 0
  <2>1. CASE k = 0
    <3>1. l * k = 0
      BY <2>1
    <3> QED  BY <3>1, <1>1
  <2> QED  BY <2>1
<1>3. k - 1 \in Nat /\ l * k = l * (k - 1) + l /\ l * (k - 1) \in Nat
  BY <1>1, <1>2
<1>4. n \in Nat /\ m + l <= n /\ n <= newest /\ newest < n + l
  BY <1>1, <1>3
<1>5. n % l = m % l
  BY <1>1, NextLaps
<1> QED  BY <1>4, <1>5

-----------------------------------------------------------------------------
(* What the operations on a ring do to what it shows.                      *)

\* A ring of length l: every slot has something in it.
Shaped(r, l) ==
    /\ l \in Nat \ {0} /\ r.newest \in Nat
    /\ r = [len |-> l, newest |-> r.newest, buckets |-> r.buckets]
    /\ r.buckets = [i \in 0..l-1 |-> r.buckets[i]]

\* The numbers a lap that ends at newest has slots for.
InLap(newest, l, m) == m <= newest /\ newest < m + l

LEMMA LapIs ==
    ASSUME NEW r, NEW l, Shaped(r, l), NEW m \in Nat
    PROVE  m \in Lap(r) <=> InLap(r.newest, l, m)
<1>1. r.len = l /\ r.newest \in Nat /\ l \in Nat \ {0}
  BY DEF Shaped
<1> QED  BY <1>1 DEF Lap, Monus, InLap

LEMMA AtIs ==
    ASSUME NEW r, NEW l, Shaped(r, l), NEW m \in Nat
    PROVE  At(r, m) = IF InLap(r.newest, l, m) THEN r.buckets[m % l] ELSE Gap
<1>1. r.len = l
  BY DEF Shaped
<1> QED  BY <1>1, LapIs DEF At

LEMMA SlotIn ==
    ASSUME NEW l \in Nat \ {0}, NEW m \in Nat
    PROVE  m % l \in 0..l-1
  BY DivMod

LEMMA ClearedAt ==
    ASSUME NEW r, NEW l, Shaped(r, l), NEW numbers, NEW m \in Nat
    PROVE  Cleared(r, numbers)[m % l]
             = IF \E n \in numbers : n % l = m % l THEN Gap ELSE r.buckets[m % l]
<1>1. r.len = l /\ l \in Nat \ {0}
  BY DEF Shaped
<1>2. m % l \in 0..l-1
  BY <1>1, SlotIn
<1> QED  BY <1>1, <1>2 DEF Cleared

LEMMA ClearedShape ==
    ASSUME NEW r, NEW l, Shaped(r, l), NEW numbers, NEW number \in Nat
    PROVE  Shaped([len |-> r.len, newest |-> number, buckets |-> Cleared(r, numbers)], l)
<1>1. r.len = l /\ l \in Nat \ {0}
  BY DEF Shaped
<1> QED  BY <1>1 DEF Shaped, Cleared

\* What every operation keeps: a number outside the new lap is a gap, one
\* inside is what it was.
Follows(q, r, l) ==
    \A m \in Nat : At(q, m) = IF InLap(q.newest, l, m) THEN At(r, m) ELSE Gap

LEMMA AdvanceFollows ==
    ASSUME NEW r, NEW l, Shaped(r, l), NEW number \in Nat, r.newest < number
    PROVE  /\ Shaped(Advance(r, number), l)
           /\ Follows(Advance(r, number), r, l)
<1> DEFINE q == Advance(r, number)
           passed == {n \in r.newest+1..number : number < n + r.len}
<1>1. /\ q = [len |-> r.len, newest |-> number, buckets |-> Cleared(r, passed)]
      /\ r.len = l /\ l \in Nat \ {0} /\ r.newest \in Nat
  BY DEF Advance, Shaped
<1> HIDE DEF q, passed
<1>2. Shaped(q, l) /\ q.newest = number /\ q.buckets = Cleared(r, passed)
  BY <1>1, ClearedShape
<1>3. ASSUME NEW m \in Nat, InLap(number, l, m)
      PROVE  q.buckets[m % l] = At(r, m)
  <2>1. CASE r.newest < m
    <3>1. m \in passed
      BY <2>1, <1>1, <1>3 DEF passed, InLap
    <3>2. At(r, m) = Gap
      BY <2>1, <1>1, AtIs DEF InLap
    <3> QED  BY <3>1, <3>2, <1>2, ClearedAt
  <2>2. CASE m <= r.newest
    <3>1. InLap(r.newest, l, m)
      BY <2>2, <1>1, <1>3 DEF InLap
    <3>2. \A n \in passed : n % l # m % l
      <4>1. ASSUME NEW n \in passed, n % l = m % l
            PROVE  FALSE
        <5>1. n \in Nat /\ r.newest < n /\ n <= number /\ number < n + l
          BY <1>1 DEF passed
        <5>2. n < m + l /\ m < n + l
          BY <5>1, <1>1, <1>3 DEF InLap
        <5>3. n = m
          BY <4>1, <5>1, <5>2, <1>1, SameSlot
        <5> QED  BY <5>1, <5>3, <2>2, <1>1
      <4> QED  BY <4>1
    <3> QED  BY <3>1, <3>2, <1>2, ClearedAt, AtIs
  <2> QED  BY <2>1, <2>2, <1>1
<1>4. Follows(q, r, l)
  <2> SUFFICES ASSUME NEW m \in Nat
               PROVE  At(q, m) = IF InLap(number, l, m) THEN At(r, m) ELSE Gap
    BY <1>2 DEF Follows
  <2> QED  BY <1>2, <1>3, AtIs
<1> QED  BY <1>2, <1>4 DEF q

LEMMA RewindFollows ==
    ASSUME NEW r, NEW l, Shaped(r, l), NEW number \in Nat, number <= r.newest
    PROVE  /\ Shaped(Rewind(r, number), l)
           /\ Follows(Rewind(r, number), r, l)
<1> DEFINE q == Rewind(r, number)
           ahead == {n \in number+1..r.newest : r.newest < n + r.len}
<1>1. /\ q = [len |-> r.len, newest |-> number, buckets |-> Cleared(r, ahead)]
      /\ r.len = l /\ l \in Nat \ {0} /\ r.newest \in Nat
  BY DEF Rewind, Shaped
<1> HIDE DEF q, ahead
<1>2. Shaped(q, l) /\ q.newest = number /\ q.buckets = Cleared(r, ahead)
  BY <1>1, ClearedShape
<1>3. ASSUME NEW m \in Nat, InLap(number, l, m)
      PROVE  q.buckets[m % l] = At(r, m)
  <2>1. CASE m + l <= r.newest
    <3>1. PICK n \in Nat : /\ n % l = m % l /\ m + l <= n
                           /\ n <= r.newest /\ r.newest < n + l
      BY <2>1, <1>1, EverySlot
    <3>2. n \in ahead
      BY <3>1, <1>1, <1>3 DEF ahead, InLap
    <3>3. At(r, m) = Gap
      BY <2>1, <1>1, AtIs DEF InLap
    <3> QED  BY <3>1, <3>2, <3>3, <1>2, ClearedAt
  <2>2. CASE r.newest < m + l
    <3>1. InLap(r.newest, l, m)
      BY <2>2, <1>1, <1>3 DEF InLap
    <3>2. \A n \in ahead : n % l # m % l
      <4>1. ASSUME NEW n \in ahead, n % l = m % l
            PROVE  FALSE
        <5>1. n \in Nat /\ number < n /\ n <= r.newest /\ r.newest < n + l
          BY <1>1 DEF ahead
        <5>2. n < m + l /\ m < n + l
          BY <5>1, <2>2, <1>1, <1>3 DEF InLap
        <5>3. n = m
          BY <4>1, <5>1, <5>2, <1>1, SameSlot
        <5> QED  BY <5>1, <5>3, <1>3, <1>1 DEF InLap
      <4> QED  BY <4>1
    <3> QED  BY <3>1, <3>2, <1>2, ClearedAt, AtIs
  <2> QED  BY <2>1, <2>2, <1>1
<1>4. Follows(q, r, l)
  <2> SUFFICES ASSUME NEW m \in Nat
               PROVE  At(q, m) = IF InLap(number, l, m) THEN At(r, m) ELSE Gap
    BY <1>2 DEF Follows
  <2> QED  BY <1>2, <1>3, AtIs
<1> QED  BY <1>2, <1>4 DEF q

\* One reading: the bucket of number gets it, the others stay.
AbsorbsInto(q, r, l, number, reading) ==
    \A m \in Nat :
        At(q, m) = IF m = number THEN Added(At(r, m), reading)
                   ELSE IF InLap(number, l, m) THEN At(r, m) ELSE Gap

LEMMA AbsorbAbsorbs ==
    ASSUME NEW r, NEW l, Shaped(r, l), NEW number \in Nat, NEW reading
    PROVE  /\ Shaped(Absorb(r, number, reading), l)
           /\ Absorb(r, number, reading).newest = number
           /\ AbsorbsInto(Absorb(r, number, reading), r, l, number, reading)
<1> DEFINE moved == IF number < r.newest THEN Rewind(r, number)
                    ELSE IF number > r.newest THEN Advance(r, number) ELSE r
           q == Absorb(r, number, reading)
<1>1. r.len = l /\ l \in Nat \ {0} /\ r.newest \in Nat
  BY DEF Shaped
<1>2. Shaped(moved, l) /\ moved.newest = number /\ Follows(moved, r, l)
  <2>1. CASE number < r.newest
    BY <2>1, <1>1, RewindFollows DEF Rewind
  <2>2. CASE number > r.newest
    BY <2>2, <1>1, AdvanceFollows DEF Advance
  <2>3. CASE number = r.newest
    BY <2>3, <1>1, AtIs DEF Follows
  <2> QED  BY <2>1, <2>2, <2>3, <1>1
<1>3. q = [len |-> r.len, newest |-> number,
           buckets |-> [moved.buckets EXCEPT ![number % r.len]
                          = Added(moved.buckets[number % r.len], reading)]]
  BY DEF Absorb
<1> HIDE DEF moved, q
<1>4. number % l \in 0..l-1
  BY <1>1, SlotIn
<1>5. /\ Shaped(q, l) /\ q.newest = number
      /\ \A i \in 0..l-1 : q.buckets[i] = IF i = number % l
                                          THEN Added(moved.buckets[i], reading)
                                          ELSE moved.buckets[i]
  BY <1>1, <1>2, <1>3, <1>4 DEF Shaped
<1>6. ASSUME NEW m \in Nat
      PROVE  At(q, m) = IF m = number THEN Added(At(r, m), reading)
                        ELSE IF InLap(number, l, m) THEN At(r, m) ELSE Gap
  <2>1. At(moved, m) = IF InLap(number, l, m) THEN At(r, m) ELSE Gap
    BY <1>2 DEF Follows
  <2>2. m % l \in 0..l-1
    BY <1>1, SlotIn
  <2>3. CASE m = number
    <3>1. InLap(number, l, m)
      BY <2>3, <1>1 DEF InLap
    <3> QED  BY <3>1, <2>1, <2>2, <2>3, <1>2, <1>5, AtIs
  <2>4. CASE m # number /\ InLap(number, l, m)
    <3>0. m < number + l /\ number < m + l
      BY <2>4, <1>1 DEF InLap
    <3>1. m % l # number % l
      <4> SUFFICES ASSUME m % l = number % l PROVE FALSE
        OBVIOUS
      <4>1. m = number
        BY <3>0, <1>1, SameSlot
      <4> QED  BY <4>1, <2>4
    <3> QED  BY <3>1, <2>1, <2>2, <2>4, <1>2, <1>5, AtIs
  <2>5. CASE m # number /\ ~InLap(number, l, m)
    BY <2>5, <1>5, AtIs
  <2> QED  BY <2>3, <2>4, <2>5
<1> QED  BY <1>5, <1>6 DEF q, AbsorbsInto

LEMMA BlankAt ==
    ASSUME NEW l \in Nat \ {0}, NEW newest \in Nat
    PROVE  /\ Shaped(Blank(l, newest), l) /\ Blank(l, newest).newest = newest
           /\ \A m \in Nat : At(Blank(l, newest), m) = Gap
<1>1. Shaped(Blank(l, newest), l) /\ Blank(l, newest).newest = newest
  BY DEF Blank, Shaped
<1>2. ASSUME NEW m \in Nat
      PROVE  At(Blank(l, newest), m) = Gap
  <2>1. m % l \in 0..l-1
    BY SlotIn
  <2>2. Blank(l, newest).buckets[m % l] = Gap
    BY <2>1 DEF Blank
  <2> QED  BY <1>1, <2>2, AtIs
<1> QED  BY <1>1, <1>2

LEMMA LaidAt ==
    ASSUME NEW l \in Nat \ {0}, NEW newest \in Nat, NEW given
    PROVE  /\ Shaped(Laid(l, newest, given), l)
           /\ Laid(l, newest, given).newest = newest
           /\ \A m \in Nat : At(Laid(l, newest, given), m)
                               = IF InLap(newest, l, m) THEN given[m] ELSE Gap
<1> DEFINE q == Laid(l, newest, given)
           mine(i) == {n \in Lap(Blank(l, newest)) : n % l = i}
           slot(i) == IF mine(i) = {} THEN Gap
                      ELSE given[CHOOSE n \in mine(i) : TRUE]
<1>1. q = [len |-> l, newest |-> newest, buckets |-> [i \in 0..l-1 |-> slot(i)]]
  BY DEF Laid
<1> HIDE DEF q, slot
<1>2. Shaped(q, l) /\ q.newest = newest
  BY <1>1 DEF Shaped
<1>3. ASSUME NEW m \in Nat, InLap(newest, l, m)
      PROVE  q.buckets[m % l] = given[m]
  <2>1. m % l \in 0..l-1
    BY SlotIn
  <2>2. \A n \in Nat : n \in Lap(Blank(l, newest)) <=> InLap(newest, l, n)
    BY BlankAt, LapIs
  <2>3. Lap(Blank(l, newest)) \subseteq Nat
    BY DEF Lap, Blank, Monus
  <2>4. m \in mine(m % l)
    BY <1>3, <2>2
  <2>5. \A n \in mine(m % l) : n = m
    <3>1. ASSUME NEW n \in mine(m % l)
          PROVE  n = m
      <4>1. n \in Nat /\ InLap(newest, l, n) /\ n % l = m % l
        BY <2>2, <2>3
      <4>2. n < m + l /\ m < n + l
        BY <4>1, <1>3 DEF InLap
      <4> QED  BY <4>1, <4>2, SameSlot
    <3> QED  BY <3>1
  <2> DEFINE chosen == CHOOSE n \in mine(m % l) : TRUE
  <2>6. chosen \in mine(m % l)
    BY <2>4
  <2>7. chosen = m
    BY <2>5, <2>6
  <2>8. slot(m % l) = given[chosen]
    BY <2>4 DEF slot
  <2> HIDE DEF chosen
  <2> QED  BY <1>1, <2>1, <2>7, <2>8
<1>4. \A m \in Nat : At(q, m) = IF InLap(newest, l, m) THEN given[m] ELSE Gap
  BY <1>2, <1>3, AtIs
<1> QED  BY <1>2, <1>4 DEF q

\* Another length: what is still in the lap stays.
LEMMA ReshapeFollows ==
    ASSUME NEW r, NEW k, Shaped(r, k), NEW l \in Nat \ {0}
    PROVE  /\ Shaped(Reshape(r, l), l) /\ Reshape(r, l).newest = r.newest
           /\ Follows(Reshape(r, l), r, l)
<1>1. r.len = k /\ r.newest \in Nat
  BY DEF Shaped
<1>2. CASE k = l
  BY <1>1, <1>2, AtIs DEF Reshape, Follows
<1>3. CASE k # l
  <2> DEFINE given == [n \in 0..r.newest |-> At(r, n)]
  <2>1. Reshape(r, l) = Laid(l, r.newest, given)
    BY <1>1, <1>3 DEF Reshape
  <2>2. \A m \in Nat : InLap(r.newest, l, m) => given[m] = At(r, m)
    BY <1>1 DEF InLap
  <2> HIDE DEF given
  <2> QED  BY <1>1, <2>1, <2>2, LaidAt DEF Follows
<1> QED  BY <1>2, <1>3

\* Another bucket size: each bucket of the lap is what its group folds to.
LEMMA CoarsenedAt ==
    ASSUME NEW r, r.newest \in Nat, NEW factor \in Nat \ {0}, NEW l \in Nat \ {0}
    PROVE  /\ Shaped(Coarsened(r, factor, l), l)
           /\ Coarsened(r, factor, l).newest = r.newest \div factor
           /\ \A m \in Nat : At(Coarsened(r, factor, l), m)
                = IF InLap(r.newest \div factor, l, m)
                  THEN Folded(Group(r, factor, m)) ELSE Gap
<1> DEFINE newest == r.newest \div factor
           given == [m \in 0..newest |-> Folded(Group(r, factor, m))]
<1>1. newest \in Nat
  BY DivMod
<1>2. Coarsened(r, factor, l) = Laid(l, newest, given)
  BY DEF Coarsened
<1> HIDE DEF newest
<1>3. \A m \in Nat : InLap(newest, l, m) => given[m] = Folded(Group(r, factor, m))
  BY <1>1 DEF InLap
<1> HIDE DEF given
<1>4. /\ Shaped(Laid(l, newest, given), l) /\ Laid(l, newest, given).newest = newest
      /\ \A m \in Nat : At(Laid(l, newest, given), m)
           = IF InLap(newest, l, m) THEN Folded(Group(r, factor, m)) ELSE Gap
  BY <1>1, <1>3, LaidAt
<1> QED  BY <1>2, <1>4 DEF newest

-----------------------------------------------------------------------------
(* The fine ring implements the timeline of what was recorded.             *)

\* The abstract timeline has the buckets of the rings.
LEMMA SameGap == Recording!Gap = Gap
  BY DEF Gap, Recording!Gap

LEMMA SameAdded ==
    ASSUME NEW b, NEW r
    PROVE  Recording!Added(b, r) = Added(b, r)
  BY DEF Added, Recording!Added, Join, Recording!Join,
     Plus, Recording!Plus, Least, Recording!Least

LEMMA SameFolded ==
    ASSUME NEW g
    PROVE  Recording!Folded(g) = Folded(g)
  BY Zenon DEF Folded, Recording!Folded, Gap, Recording!Gap,
     Observed, Recording!Observed, Join, Recording!Join,
     Plus, Recording!Plus, Least, Recording!Least,
     FoldFunction, Recording!FoldFunction,
     FoldFunctionOnSet, Recording!FoldFunctionOnSet,
     MapThenFoldSet, Recording!MapThenFoldSet

LEMMA SameKept ==
    ASSUME NEW seen, NEW n, NEW l
    PROVE  Recording!Kept(seen, n, l)
             = [m \in Times |-> IF InLap(n, l, m) THEN seen[m] ELSE Gap]
  BY SameGap DEF Recording!Kept, InLap

LEMMA Settings ==
    /\ Lens \subseteq Nat \ {0} /\ Sizes \subseteq Nat \ {0}
    /\ Slack \in Nat /\ Horizon \in Nat
    /\ Stamps \subseteq Times /\ Times \subseteq Nat
  BY RingsAssumption DEF Times

\* A bucket number is no later than the time it is the bucket of.
LEMMA NumberInTimes ==
    ASSUME NEW at \in Times, NEW s \in Nat \ {0}
    PROVE  at \div s \in Times
<1> DEFINE q == at \div s
           r == at % s
<1>1. at \in Nat /\ Horizon \in Nat /\ at <= Horizon
  BY Settings DEF Times
<1>2. q \in Nat /\ r \in 0..s-1 /\ at = s * q + r
  BY <1>1, DivMod
<1> HIDE DEF q, r
<1>3. s - 1 \in Nat /\ s * q = q + (s - 1) * q /\ (s - 1) * q \in Nat
  BY <1>2
<1> QED  BY <1>1, <1>2, <1>3 DEF q, Times

\* Types of what the fine ring's story is told with.
FineInv ==
    /\ len \in Lens /\ size \in Sizes /\ lastSeen \in Times
    /\ Shaped(fine, len) /\ fine.newest \in Times

\* What of the fine ring tells the story.
Seen(r) == [n \in Times |-> At(r, n)]

LEMMA InitIsTimeline == Init => FineInv /\ Recording!Init
<1> SUFFICES ASSUME Init PROVE FineInv /\ Recording!Init
  OBVIOUS
<1>1. len \in Nat \ {0} /\ size \in Nat \ {0} /\ len \in Lens /\ size \in Sizes
  BY RingsAssumption DEF Init
<1>2. PICK at \in Stamps, obs \in Observations :
         /\ fine = Absorb(Blank(len, at \div size), at \div size,
                          WorkspaceReading(obs))
         /\ lastSeen = at
  BY DEF Init
<1> DEFINE number == at \div size
           reading == WorkspaceReading(obs)
<1>3. at \in Times /\ number \in Times /\ Times \subseteq Nat
  BY <1>1, Settings, NumberInTimes
<1> HIDE DEF number
<1>4. /\ Shaped(Blank(len, number), len)
      /\ \A m \in Nat : At(Blank(len, number), m) = Gap
  BY <1>1, <1>3, BlankAt
<1>5. /\ Shaped(fine, len) /\ fine.newest = number
      /\ AbsorbsInto(fine, Blank(len, number), len, number, reading)
  BY <1>2, <1>3, <1>4, AbsorbAbsorbs DEF number
<1>6. Seen(fine) = [m \in Times |-> IF m = number THEN Added(Gap, reading) ELSE Gap]
  BY <1>3, <1>4, <1>5 DEF Seen, AbsorbsInto
<1>7. reading \in {WorkspaceReading(o) : o \in Observations}
  OBVIOUS
<1> HIDE DEF reading
<1>8. fine.len = len
  BY <1>5 DEF Shaped
<1>9. Recording!Init
  BY <1>1, <1>3, <1>5, <1>6, <1>7, <1>8, SameGap, SameAdded DEF Recording!Init, Seen
<1> QED  BY <1>1, <1>2, <1>3, <1>5, <1>9 DEF FineInv

LEMMA ObserveIsTimeline ==
    ASSUME FineInv, NEW at \in Stamps, NEW obs \in Observations, Observe(at, obs)
    PROVE  FineInv' /\ Recording!Observe(at \div size)
<1> DEFINE number == at \div size
           reading == WorkspaceReading(obs)
<1>1. /\ ~Late(number) /\ fine' = Absorb(fine, number, reading)
      /\ lastSeen' \in {at, Most(lastSeen, at)} /\ len' = len /\ size' = size
  BY DEF Observe, conf
<1>2. /\ len \in Nat \ {0} /\ size \in Nat \ {0} /\ Slack \in Nat
      /\ at \in Times /\ Times \subseteq Nat
  BY Settings DEF FineInv
<1>3. number \in Times
  BY <1>2, NumberInTimes
<1> HIDE DEF number
<1>4. /\ Shaped(fine', len) /\ fine'.newest = number
      /\ AbsorbsInto(fine', fine, len, number, reading)
  BY <1>1, <1>2, <1>3, AbsorbAbsorbs DEF FineInv
<1>5. number >= fine.newest \/ number + Slack < fine.newest
  <2>1. number \in Nat /\ fine.newest \in Nat
    BY <1>2, <1>3 DEF FineInv
  <2>2. ~(number < fine.newest /\ fine.newest <= number + Slack)
    BY <1>1 DEF Late
  <2> QED  BY <1>2, <2>1, <2>2
<1>6. fine.len = len /\ fine'.len = len
  BY <1>4 DEF FineInv, Shaped
<1> DEFINE before == [m \in Times |-> IF InLap(number, len, m)
                                      THEN Seen(fine)[m] ELSE Gap]
<1>7. Seen(fine') = [before EXCEPT ![number] = Added(before[number], reading)]
  <2>1. InLap(number, len, number)
    BY <1>2, <1>3 DEF InLap
  <2>2. \A m \in Times : Seen(fine)[m] = At(fine, m)
    BY DEF Seen
  <2>3. \A m \in Times :
          At(fine', m) = IF m = number THEN Added(before[m], reading) ELSE before[m]
    BY <1>2, <1>3, <1>4, <2>1, <2>2 DEF AbsorbsInto
  <2> HIDE DEF before
  <2>4. before = [m \in Times |-> before[m]]
    BY DEF before
  <2> QED  BY <1>3, <2>3, <2>4 DEF Seen
<1>8. Recording!Kept(Seen(fine), number, fine.len) = before
  BY <1>6, SameKept
<1>9. reading \in {WorkspaceReading(o) : o \in Observations}
  OBVIOUS
<1> HIDE DEF reading, before
<1>10. Recording!Observe(number)
  BY <1>4, <1>5, <1>6, <1>7, <1>8, <1>9, SameAdded DEF Recording!Observe, Seen
<1>11. FineInv'
  BY <1>1, <1>2, <1>3, <1>4 DEF FineInv, Most
<1> QED  BY <1>10, <1>11 DEF number

LEMMA ReloadIsTimeline ==
    ASSUME FineInv, NEW l \in Lens, NEW s \in Sizes, NEW a \in BOOLEAN,
           NEW others \in BOOLEAN, Reload(l, s, a, others)
    PROVE  /\ FineInv'
           /\ \/ Recording!Relength(l)
              \/ \E f \in {x \div y : x, y \in Sizes} \ {0, 1} : Recording!Widen(f, l)
              \/ Recording!Restart(lastSeen \div s, l)
<1> DEFINE factor == s \div size
<1>1. len' = l /\ size' = s /\ lastSeen' = lastSeen
  BY DEF Reload
<1>2. /\ l \in Nat \ {0} /\ size \in Nat \ {0} /\ s \in Nat \ {0}
      /\ Times \subseteq Nat /\ lastSeen \div s \in Times
  BY Settings, NumberInTimes DEF FineInv
<1>3. CASE fine' = Reshape(fine, l)
  <2>1. /\ Shaped(fine', l) /\ fine'.newest = fine.newest
        /\ Follows(fine', fine, l)
    BY <1>2, <1>3, ReshapeFollows DEF FineInv
  <2>2. Seen(fine') = Recording!Kept(Seen(fine), fine.newest, l)
    BY <1>2, <2>1, SameKept DEF Seen, Follows
  <2>3. fine'.len = l
    BY <2>1 DEF Shaped
  <2>4. Recording!Relength(l)
    BY <2>1, <2>2, <2>3 DEF Recording!Relength, Seen
  <2> QED  BY <1>1, <2>1, <2>4 DEF FineInv
<1>4. CASE s > size /\ s % size = 0 /\ fine' = Coarsened(fine, factor, l)
  <2>1. factor \in Nat \ {0, 1}
    <3>1. factor \in Nat /\ s = size * factor + (s % size)
      BY <1>2, DivMod
    <3> QED  BY <3>1, <1>2, <1>4
  <2>2. factor \in {x \div y : x, y \in Sizes} \ {0, 1}
    BY <2>1 DEF FineInv
  <2> HIDE DEF factor
  <2> DEFINE newest == fine.newest \div factor
             group(m) == [n \in m*factor .. Recording!Least(m*factor + factor - 1,
                                                            fine.newest) |->
                            Seen(fine)[n]]
             given == [m \in 0..newest |-> Recording!Folded(group(m))]
  <2>3. newest \in Times
    BY <2>1, NumberInTimes DEF FineInv
  <2>4. /\ Shaped(fine', l) /\ fine'.newest = newest
        /\ \A m \in Nat : At(fine', m) = IF InLap(newest, l, m)
                            THEN Folded(Group(fine, factor, m)) ELSE Gap
    <3>1. fine.newest \in Nat /\ fine' = Coarsened(fine, factor, l)
      BY <1>2, <1>4 DEF FineInv, factor
    <3> QED  BY <1>2, <2>1, <3>1, CoarsenedAt
  <2> HIDE DEF newest
  <2>5. ASSUME NEW m \in Nat
        PROVE  group(m) = Group(fine, factor, m)
    <3>1. m * factor \in Nat
      BY <2>1
    <3>2. \A n \in m*factor .. Least(m*factor + factor - 1, fine.newest) : n \in Times
      BY <3>1, <2>1, RingsAssumption DEF FineInv, Times, Least
    <3>3. Recording!Least(m*factor + factor - 1, fine.newest)
            = Least(m*factor + factor - 1, fine.newest)
      BY DEF Least, Recording!Least
    <3> QED  BY <3>2, <3>3 DEF Group, Seen
  <2> HIDE DEF group
  <2>6. \A m \in Times :
           InLap(newest, l, m) => given[m] = Folded(Group(fine, factor, m))
    BY <1>2, <2>3, <2>5, SameFolded DEF InLap
  <2>7. Seen(fine') = Recording!Kept(given, newest, l)
    BY <1>2, <2>4, <2>6, SameKept DEF Seen
  <2>8. fine'.len = l
    BY <2>4 DEF Shaped
  <2>9. Recording!Widen(factor, l)
    BY <2>4, <2>7, <2>8 DEF Recording!Widen, Seen, newest, group
  <2> QED  BY <1>1, <2>2, <2>3, <2>4, <2>9 DEF FineInv
<1>5. CASE fine' = Blank(l, lastSeen \div s)
  <2>1. /\ Shaped(fine', l) /\ fine'.newest = lastSeen \div s
        /\ \A m \in Nat : At(fine', m) = Gap
    BY <1>2, <1>5, BlankAt
  <2>2. fine'.len = l
    BY <2>1 DEF Shaped
  <2>3. Seen(fine') = [m \in Times |-> Recording!Gap]
    BY <1>2, <2>1, SameGap DEF Seen
  <2>4. Recording!Restart(lastSeen \div s, l)
    BY <2>1, <2>2, <2>3 DEF Recording!Restart, Seen
  <2> QED  BY <1>1, <1>2, <2>1, <2>4 DEF FineInv
<1> QED  BY <1>3, <1>4, <1>5 DEF Reload

LEMMA NextIsTimeline ==
    FineInv /\ [Next]_vars => FineInv' /\ [Recording!Next]_(Recording!vars)
<1> SUFFICES ASSUME FineInv, [Next]_vars
             PROVE  FineInv' /\ [Recording!Next]_(Recording!vars)
  OBVIOUS
<1>1. ASSUME NEW at \in Stamps, NEW obs \in Observations, Observe(at, obs)
      PROVE  FineInv' /\ Recording!Next
  <2>1. at \div size \in Times
    BY Settings, NumberInTimes DEF FineInv
  <2> QED  BY <1>1, <2>1, ObserveIsTimeline DEF Recording!Next
<1>2. ASSUME NEW l \in Lens, NEW s \in Sizes, NEW a \in BOOLEAN,
             NEW others \in BOOLEAN, Reload(l, s, a, others)
      PROVE  FineInv' /\ Recording!Next
  <2>1. lastSeen \div s \in Times
    BY Settings, NumberInTimes DEF FineInv
  <2> QED  BY <1>2, <2>1, ReloadIsTimeline DEF Recording!Next
<1>3. CASE UNCHANGED vars
  BY <1>3 DEF vars, conf, FineInv, Recording!vars
<1> QED  BY <1>1, <1>2, <1>3 DEF Next

\* Whatever the clock does and however the file is configured next, slots, laps,
\* advances, rewinds, reshapes and folds (RingMut, observe, normalise) come to
\* the timeline: each number shows what was recorded for it, or a gap.
THEOREM FineRingIsTimeline == Spec => FineIsTimeline
<1> QED  BY InitIsTimeline, NextIsTimeline, PTL DEF Spec, FineIsTimeline, Recording!Spec

-----------------------------------------------------------------------------
(* Nobody is ahead of the workspace: anchors and stamps.                   *)

\* A record with the fields of a ring and an anchor.
RingRecord(r) ==
    /\ r = [len |-> r.len, newest |-> r.newest, buckets |-> r.buckets]
    /\ r.newest \in Nat

AgentRecord(a) ==
    /\ a = [ring |-> a.ring, seen |-> a.seen]
    /\ RingRecord(a.ring) /\ a.seen \in Nat

\* Nobody is ahead of a given anchor and a given stamp.
NoneAhead(have, newest, stamp) ==
    \A p \in DOMAIN have : /\ AgentRecord(have[p])
                           /\ have[p].ring.newest <= newest
                           /\ have[p].seen <= stamp

\* Inductive: nobody's ring or stamp is ahead of the workspace's.
AheadInv ==
    /\ size \in Nat \ {0}
    /\ RingRecord(fine) /\ lastSeen \in Nat
    /\ NoneAhead(agents, fine.newest, lastSeen)

-----------------------------------------------------------------------------
(* Where each operation leaves the anchor.                                 *)

LEMMA RewindAnchor ==
    ASSUME NEW r, RingRecord(r), NEW number \in Nat
    PROVE  RingRecord(Rewind(r, number)) /\ Rewind(r, number).newest = number
  BY DEF RingRecord, Rewind

LEMMA AdvanceAnchor ==
    ASSUME NEW r, RingRecord(r), NEW number \in Nat
    PROVE  RingRecord(Advance(r, number)) /\ Advance(r, number).newest = number
  BY DEF RingRecord, Advance

\* A sample takes the anchor to its own bucket, from either side.
LEMMA AbsorbAnchor ==
    ASSUME NEW r, RingRecord(r), NEW number \in Nat, NEW reading
    PROVE  /\ RingRecord(Absorb(r, number, reading))
           /\ Absorb(r, number, reading).newest = number
  BY DEF Absorb, RingRecord

LEMMA BlankAnchor ==
    ASSUME NEW l, NEW newest \in Nat
    PROVE  RingRecord(Blank(l, newest)) /\ Blank(l, newest).newest = newest
  BY DEF RingRecord, Blank

\* Another length leaves it where it was.
LEMMA ReshapeAnchor ==
    ASSUME NEW r, RingRecord(r), NEW l
    PROVE  RingRecord(Reshape(r, l)) /\ Reshape(r, l).newest = r.newest
  BY DEF RingRecord, Reshape, Laid, Blank

LEMMA CoarsenedAnchor ==
    ASSUME NEW r, RingRecord(r), NEW factor \in Nat \ {0}, NEW l
    PROVE  RingRecord(Coarsened(r, factor, l))
<1>1. r.newest \div factor \in Nat
  BY DEF RingRecord
<1> QED  BY <1>1 DEF RingRecord, Coarsened, Laid, Blank

-----------------------------------------------------------------------------
(* The agents, after each operation.                                       *)

\* The correction takes whoever is ahead back, and whoever is behind along.
LEMMA RewindNotAhead ==
    ASSUME AheadInv, NEW number \in Nat, NEW at \in Nat
    PROVE  NoneAhead(RewindAgents(number, at), number, at)
<1> SUFFICES ASSUME NEW p \in Tracked
             PROVE  LET a == RewindAgents(number, at)[p]
                    IN  /\ AgentRecord(a) /\ a.ring.newest <= number
                        /\ a.seen <= at
  BY DEF NoneAhead, RewindAgents
<1>1. AgentRecord(agents[p])
  BY DEF AheadInv, NoneAhead, Tracked
<1>2. RewindAgents(number, at)[p] = [ring |-> Rewind(agents[p].ring, number),
                                     seen |-> Least(agents[p].seen, at)]
  BY DEF RewindAgents
<1>3. /\ RingRecord(Rewind(agents[p].ring, number))
      /\ Rewind(agents[p].ring, number).newest = number
  BY <1>1, RewindAnchor DEF AgentRecord
<1>4. Least(agents[p].seen, at) \in Nat /\ Least(agents[p].seen, at) <= at
  BY <1>1 DEF AgentRecord, Least
<1> QED  BY <1>2, <1>3, <1>4 DEF AgentRecord

\* An observation takes the agents it has to its bucket, and no further.
LEMMA RecordedNotAhead ==
    ASSUME NEW have, NEW obs, NEW number \in Nat, NEW at \in Nat,
           NEW stamp \in Nat, at <= stamp, NoneAhead(have, number, stamp)
    PROVE  NoneAhead(Recorded(have, obs, number, at), number, stamp)
<1> SUFFICES ASSUME NEW p \in DOMAIN have \cup DOMAIN obs
             PROVE  LET a == Recorded(have, obs, number, at)[p]
                    IN  /\ AgentRecord(a) /\ a.ring.newest <= number
                        /\ a.seen <= stamp
  BY DEF NoneAhead, Recorded
<1>1. CASE p \notin DOMAIN obs
  BY <1>1 DEF NoneAhead, Recorded
<1>2. CASE p \in DOMAIN obs
  <2> DEFINE before == IF p \in DOMAIN have THEN have[p]
                       ELSE [ring |-> Blank(len, number), seen |-> at]
             ring == Absorb(Reshape(before.ring, len), number,
                            AgentReading(obs, p))
  <2>1. RingRecord(before.ring) /\ before.seen \in Nat /\ before.seen <= stamp
    BY BlankAnchor DEF NoneAhead, AgentRecord
  <2>2. Recorded(have, obs, number, at)[p]
          = [ring |-> ring, seen |-> Most(before.seen, at)]
    BY <1>2 DEF Recorded
  <2> HIDE DEF before
  <2>3. RingRecord(ring) /\ ring.newest = number
    BY <2>1, ReshapeAnchor, AbsorbAnchor
  <2>4. Most(before.seen, at) \in Nat /\ Most(before.seen, at) <= stamp
    BY <2>1 DEF Most
  <2> HIDE DEF ring
  <2> QED  BY <2>2, <2>3, <2>4 DEF AgentRecord
<1> QED  BY <1>1, <1>2

LEMMA EvictedNotAhead ==
    ASSUME NEW have, NEW at, NEW newest, NEW stamp,
           NoneAhead(have, newest, stamp)
    PROVE  NoneAhead(Evicted(have, at), newest, stamp)
  BY DEF NoneAhead, Evicted

LEMMA NobodyNotAhead ==
    ASSUME NEW newest, NEW stamp
    PROVE  NoneAhead(NoAgents, newest, stamp)
  BY DEF NoneAhead, NoAgents

-----------------------------------------------------------------------------
(* Nobody is ahead of the workspace: the invariant.                        *)

\* A bucket number, for any bucket size there is.
LEMMA BucketNumber ==
    ASSUME NEW at \in Nat, NEW s \in Nat \ {0}
    PROVE  at \div s \in Nat
  OBVIOUS

LEMMA InitNotAhead == Init => AheadInv
<1> SUFFICES ASSUME Init PROVE AheadInv
  OBVIOUS
<1>1. size \in Nat \ {0}
  BY RingsAssumption DEF Init
<1>2. PICK at \in Stamps, obs \in Observations :
         /\ fine = Absorb(Blank(len, at \div size), at \div size,
                          WorkspaceReading(obs))
         /\ agents = IF perAgent
                     THEN Evicted(Recorded(NoAgents, obs, at \div size, at), at)
                     ELSE NoAgents
         /\ lastSeen = at
  BY DEF Init
<1>3. at \in Nat /\ at \div size \in Nat
  BY <1>1, RingsAssumption, BucketNumber
<1>4. RingRecord(fine) /\ fine.newest = at \div size
  BY <1>2, <1>3, BlankAnchor, AbsorbAnchor
<1>5. NoneAhead(agents, at \div size, at)
  <2>1. NoneAhead(Recorded(NoAgents, obs, at \div size, at), at \div size, at)
    BY <1>3, NobodyNotAhead, RecordedNotAhead
  <2> QED  BY <1>2, <2>1, EvictedNotAhead, NobodyNotAhead
<1> QED  BY <1>1, <1>2, <1>3, <1>4, <1>5 DEF AheadInv

LEMMA ObserveNotAhead ==
    ASSUME AheadInv, NEW at \in Stamps, NEW obs \in Observations,
           Observe(at, obs)
    PROVE  AheadInv'
<1> DEFINE number == at \div size
           rewound == number < fine.newest
           have == IF rewound THEN RewindAgents(number, at) ELSE agents
<1>1. at \in Nat /\ number \in Nat
  BY RingsAssumption, BucketNumber DEF AheadInv
<1>2. /\ fine' = Absorb(fine, number, WorkspaceReading(obs))
      /\ agents' = IF perAgent
                   THEN Evicted(Recorded(have, obs, number, at), at)
                   ELSE NoAgents
      /\ lastSeen' = IF rewound THEN at ELSE Most(lastSeen, at)
      /\ size' = size
  BY DEF Observe, conf
<1>3. lastSeen' \in Nat /\ at <= lastSeen'
  BY <1>1, <1>2 DEF Most, AheadInv
<1>4. RingRecord(fine') /\ fine'.newest = number
  BY <1>1, <1>2, AbsorbAnchor DEF AheadInv
<1>5. NoneAhead(have, number, lastSeen')
  <2>1. CASE rewound
    BY <2>1, <1>1, <1>2, RewindNotAhead
  <2>2. CASE ~rewound
    BY <2>2, <1>1, <1>2 DEF AheadInv, NoneAhead, AgentRecord, RingRecord, Most
  <2> QED  BY <2>1, <2>2
<1> HIDE DEF number, rewound, have
<1>6. NoneAhead(agents', number, lastSeen')
  <2>1. NoneAhead(Recorded(have, obs, number, at), number, lastSeen')
    BY <1>1, <1>3, <1>5, RecordedNotAhead
  <2> QED  BY <1>2, <2>1, EvictedNotAhead, NobodyNotAhead
<1> QED  BY <1>2, <1>3, <1>4, <1>6 DEF AheadInv

LEMMA ReloadNotAhead ==
    ASSUME AheadInv, NEW l \in Lens, NEW s \in Sizes, NEW a \in BOOLEAN,
           NEW others \in BOOLEAN, Reload(l, s, a, others)
    PROVE  AheadInv'
<1>1. size' \in Nat \ {0} /\ lastSeen' = lastSeen /\ s \in Nat \ {0}
  BY RingsAssumption DEF Reload
<1>2. CASE s = size
  <2>1. /\ fine' = Reshape(fine, l)
        /\ agents' = IF a THEN [p \in Tracked |->
                                  [agents[p] EXCEPT !.ring = Reshape(@, l)]]
                     ELSE NoAgents
    BY <1>2 DEF Reload
  <2>2. RingRecord(fine') /\ fine'.newest = fine.newest
    BY <2>1, ReshapeAnchor DEF AheadInv
  <2>3. ASSUME a, NEW p \in Tracked
        PROVE  LET x == agents'[p]
               IN  /\ AgentRecord(x) /\ x.ring.newest <= fine.newest
                   /\ x.seen <= lastSeen
    <3>1. AgentRecord(agents[p]) /\ agents[p].ring.newest <= fine.newest
          /\ agents[p].seen <= lastSeen
      BY DEF AheadInv, NoneAhead, Tracked
    <3>2. agents'[p] = [ring |-> Reshape(agents[p].ring, l),
                        seen |-> agents[p].seen]
      <4>1. agents'[p] = [agents[p] EXCEPT !.ring = Reshape(agents[p].ring, l)]
        BY <2>1, <2>3
      <4>2. agents[p] = [ring |-> agents[p].ring, seen |-> agents[p].seen]
        BY <3>1 DEF AgentRecord
      <4> QED  BY <4>1, <4>2
    <3>3. /\ RingRecord(Reshape(agents[p].ring, l))
          /\ Reshape(agents[p].ring, l).newest = agents[p].ring.newest
      BY <3>1, ReshapeAnchor DEF AgentRecord
    <3> QED  BY <3>1, <3>2, <3>3 DEF AgentRecord
  <2>4. NoneAhead(agents', fine.newest, lastSeen)
    BY <2>1, <2>3, NobodyNotAhead DEF NoneAhead
  <2> QED  BY <1>1, <2>2, <2>4 DEF AheadInv
<1>3. CASE s # size
  <2>1. agents' = NoAgents
    BY <1>3 DEF Reload
  <2>2. RingRecord(fine')
    <3>1. CASE fine' = Blank(l, lastSeen \div s)
      BY <3>1, <1>1, BlankAnchor, BucketNumber DEF AheadInv
    <3>2. CASE s > size /\ fine' = Coarsened(fine, s \div size, l)
      <4>1. s \div size \in Nat \ {0}
        BY <3>2, <1>1 DEF AheadInv
      <4> QED  BY <3>2, <4>1, CoarsenedAnchor DEF AheadInv
    <3> QED  BY <1>3, <3>1, <3>2 DEF Reload
  <2> QED  BY <1>1, <2>1, <2>2, NobodyNotAhead DEF AheadInv
<1> QED  BY <1>2, <1>3

LEMMA NextNotAhead == AheadInv /\ [Next]_vars => AheadInv'
<1> SUFFICES ASSUME AheadInv, [Next]_vars PROVE AheadInv'
  OBVIOUS
<1>1. ASSUME NEW at \in Stamps, NEW obs \in Observations, Observe(at, obs)
      PROVE  AheadInv'
  BY <1>1, ObserveNotAhead
<1>2. ASSUME NEW l \in Lens, NEW s \in Sizes, NEW a \in BOOLEAN,
             NEW others \in BOOLEAN, Reload(l, s, a, others)
      PROVE  AheadInv'
  BY <1>2, ReloadNotAhead
<1>3. CASE UNCHANGED vars
  BY <1>3 DEF vars, conf, AheadInv
<1> QED  BY <1>1, <1>2, <1>3 DEF Next

\* Wherever the clock goes, and however the file is read next, no agent's ring
\* or stamp is ahead of the workspace's own (WorkspaceHistory::rewind).
THEOREM NothingAhead == Spec => []NoRingAhead
<1>1. AheadInv => NoRingAhead
  BY DEF AheadInv, NoneAhead, NoRingAhead, Tracked
<1> QED  BY InitNotAhead, NextNotAhead, <1>1, PTL DEF Spec

-----------------------------------------------------------------------------
(* The rows of agents.                                                     *)

\* A ring shows nothing but what is in a given set.
ShowsOnly(r, numbers) == \A n \in Nat : Observed(At(r, n)) => n \in numbers

\* Inductive: rings have their configured shape, and those not left behind show
\* nothing but what they met.
HonestInv ==
    /\ FineInv /\ AheadInv
    /\ DOMAIN met = Panes /\ Tracked \subseteq Panes
    /\ \A p \in Tracked : Shaped(agents[p].ring, len)
    /\ \A p \in Tracked \ lagging : ShowsOnly(agents[p].ring, met[p])

LEMMA GapUnseen == ~Observed(Gap)
  BY DEF Observed, Gap

\* What a ring shows is in its lap.
LEMMA ShowsItsLap ==
    ASSUME NEW r, NEW l, Shaped(r, l), NEW m \in Nat, Observed(At(r, m))
    PROVE  m <= r.newest
  BY GapUnseen, AtIs DEF InLap

LEMMA BlankShows ==
    ASSUME NEW l \in Nat \ {0}, NEW newest \in Nat
    PROVE  ShowsOnly(Blank(l, newest), {})
  BY GapUnseen, BlankAt DEF ShowsOnly

LEMMA ReshapeShows ==
    ASSUME NEW r, NEW k, Shaped(r, k), NEW l \in Nat \ {0},
           NEW numbers, ShowsOnly(r, numbers)
    PROVE  ShowsOnly(Reshape(r, l), numbers)
  BY GapUnseen, ReshapeFollows DEF ShowsOnly, Follows

LEMMA RewindShows ==
    ASSUME NEW r, NEW l, Shaped(r, l), NEW numbers, ShowsOnly(r, numbers),
           NEW number \in Nat, number <= r.newest
    PROVE  ShowsOnly(Rewind(r, number), {n \in numbers : n <= number})
  BY GapUnseen, RewindFollows DEF ShowsOnly, Follows, InLap, Rewind

LEMMA AbsorbShows ==
    ASSUME NEW r, NEW l, Shaped(r, l), NEW numbers, ShowsOnly(r, numbers),
           NEW number \in Nat, NEW reading
    PROVE  ShowsOnly(Absorb(r, number, reading),
                     {n \in numbers : n <= number} \cup {number})
  BY GapUnseen, AbsorbAbsorbs DEF ShowsOnly, AbsorbsInto, InLap

LEMMA InitHonest == Init => HonestInv
<1> SUFFICES ASSUME Init PROVE HonestInv
  OBVIOUS
<1>1. FineInv /\ AheadInv
  BY InitIsTimeline, InitNotAhead
<1>2. PICK at \in Stamps, obs \in Observations :
         /\ agents = IF perAgent
                     THEN Evicted(Recorded(NoAgents, obs, at \div size, at), at)
                     ELSE NoAgents
         /\ met = [p \in Panes |-> {n \in {at \div size} : p \in Tracked}]
  BY DEF Init
<1> DEFINE number == at \div size
           rows == Recorded(NoAgents, obs, number, at)
<1>3. number \in Nat /\ len \in Nat \ {0} /\ at \in Nat
  BY <1>1, Settings, NumberInTimes DEF FineInv
<1>4. \A p \in Tracked : p \in DOMAIN obs /\ agents[p] = rows[p]
  BY <1>2 DEF Tracked, Evicted, Recorded, NoAgents
<1>5. DOMAIN obs \subseteq Panes
  BY RingsAssumption
<1> HIDE DEF number
<1>6. ASSUME NEW p \in Tracked
      PROVE  Shaped(agents[p].ring, len) /\ ShowsOnly(agents[p].ring, met[p])
  <2> DEFINE q == Absorb(Reshape(Blank(len, number), len), number,
                         AgentReading(obs, p))
  <2>1. agents[p].ring = q
    <3>1. p \in DOMAIN obs /\ agents[p] = rows[p] /\ p \notin DOMAIN NoAgents
      BY <1>4 DEF NoAgents
    <3> QED  BY <3>1 DEF Recorded
  <2>2. /\ Shaped(Reshape(Blank(len, number), len), len)
        /\ ShowsOnly(Reshape(Blank(len, number), len), {})
    BY <1>3, BlankAt, BlankShows, ReshapeFollows, ReshapeShows
  <2>3. Shaped(q, len) /\ ShowsOnly(q, {n \in {} : n <= number} \cup {number})
    BY <1>3, <2>2, AbsorbAbsorbs, AbsorbShows
  <2>4. met[p] = {number}
    BY <1>2, <1>4, <1>5 DEF number
  <2> QED  BY <2>1, <2>3, <2>4 DEF ShowsOnly
<1> QED  BY <1>1, <1>2, <1>4, <1>5, <1>6 DEF HonestInv

LEMMA ObserveHonest ==
    ASSUME HonestInv, NEW at \in Stamps, NEW obs \in Observations,
           Observe(at, obs)
    PROVE  HonestInv'
<1> DEFINE number == at \div size
           rewound == number < fine.newest
           have == IF rewound THEN RewindAgents(number, at) ELSE agents
           rows == Recorded(have, obs, number, at)
<1>1. FineInv' /\ AheadInv'
  BY ObserveIsTimeline, ObserveNotAhead DEF HonestInv
<1>2. /\ agents' = IF perAgent THEN Evicted(rows, at) ELSE NoAgents
      /\ met' = [p \in Panes |->
                   IF p \notin DOMAIN agents' THEN {}
                   ELSE {n \in met[p] : n <= number}
                          \cup {n \in {number} : p \in DOMAIN obs}]
      /\ lagging' = {p \in DOMAIN agents' \cap Tracked :
                       \/ p \in lagging
                       \/ rewound /\ agents[p].ring.newest < number}
      /\ len' = len
  BY DEF Observe, conf
<1>3. number \in Nat /\ len \in Nat \ {0} /\ at \in Nat /\ fine.newest \in Nat
  BY Settings, NumberInTimes DEF HonestInv, FineInv
<1>4. DOMAIN obs \subseteq Panes
  BY RingsAssumption
<1>5. DOMAIN have = Tracked
  BY DEF Tracked, RewindAgents
<1>6. /\ Tracked' \subseteq Tracked \cup DOMAIN obs
      /\ \A p \in Tracked' : agents'[p] = rows[p]
  BY <1>2, <1>5 DEF Tracked, Evicted, Recorded, NoAgents
\* What the correction leaves of an agent's ring.
<1>7. ASSUME NEW p \in Tracked
      PROVE  /\ Shaped(have[p].ring, len)
             /\ p \notin lagging /\ ~(rewound /\ agents[p].ring.newest < number)
                  => ShowsOnly(have[p].ring, {n \in met[p] : n <= number})
  <2>1. /\ Shaped(agents[p].ring, len) /\ agents[p].ring.newest \in Nat
        /\ agents[p].ring.newest <= fine.newest
    BY DEF HonestInv, AheadInv, NoneAhead, Tracked, AgentRecord, RingRecord
  <2>2. p \notin lagging => ShowsOnly(agents[p].ring, met[p])
    BY DEF HonestInv
  <2>3. CASE rewound
    <3>1. have[p].ring = Rewind(agents[p].ring, number)
      BY <2>3 DEF RewindAgents
    <3>2. CASE number <= agents[p].ring.newest
      BY <1>3, <2>1, <2>2, <3>1, <3>2, RewindFollows, RewindShows
    <3>3. CASE agents[p].ring.newest < number
      <4>1. Shaped(Rewind(agents[p].ring, number), len)
        BY <1>3, <2>1, ClearedShape DEF Rewind
      <4> QED  BY <2>3, <3>1, <3>3, <4>1
    <3> QED  BY <1>3, <2>1, <3>2, <3>3
  <2>4. CASE ~rewound
    <3>1. have[p] = agents[p] /\ agents[p].ring.newest <= number
      BY <1>3, <2>1, <2>4
    <3>2. \A m \in Nat : Observed(At(agents[p].ring, m)) => m <= number
      BY <1>3, <2>1, <3>1, ShowsItsLap
    <3> QED  BY <2>1, <2>2, <3>1, <3>2 DEF ShowsOnly
  <2> QED  BY <2>3, <2>4
<1> HIDE DEF number, rewound, have
<1>8. ASSUME NEW p \in Tracked'
      PROVE  /\ Shaped(agents'[p].ring, len)
             /\ p \notin lagging' => ShowsOnly(agents'[p].ring, met'[p])
  <2>1. agents'[p] = rows[p] /\ p \in Panes
    BY <1>4, <1>6 DEF HonestInv
  <2>2. met'[p] = {n \in met[p] : n <= number}
                    \cup {n \in {number} : p \in DOMAIN obs}
    BY <1>2, <2>1 DEF Tracked
  <2>3. CASE p \notin DOMAIN obs
    <3>1. p \in Tracked /\ agents'[p] = have[p]
      BY <1>5, <1>6, <2>1, <2>3 DEF Recorded
    <3>2. p \notin lagging' =>
             p \notin lagging /\ ~(rewound /\ agents[p].ring.newest < number)
      BY <1>2, <3>1 DEF Tracked
    <3> QED  BY <1>7, <2>2, <2>3, <3>1, <3>2 DEF ShowsOnly
  <2>4. CASE p \in DOMAIN obs
    <3> DEFINE before == IF p \in DOMAIN have THEN have[p]
                         ELSE [ring |-> Blank(len, number), seen |-> at]
               old == {n \in met[p] : n <= number}
               q == Absorb(Reshape(before.ring, len), number,
                           AgentReading(obs, p))
    <3>1. agents'[p].ring = q
      BY <2>1, <2>4 DEF Recorded
    <3>2. /\ Shaped(before.ring, len)
          /\ p \notin lagging' => ShowsOnly(before.ring, old)
      <4>1. CASE p \in Tracked
        <5>1. p \notin lagging' =>
                 p \notin lagging /\ ~(rewound /\ agents[p].ring.newest < number)
          BY <1>2, <4>1 DEF Tracked
        <5> QED  BY <1>5, <1>7, <4>1, <5>1
      <4>2. CASE p \notin Tracked
        <5>1. before.ring = Blank(len, number)
          BY <1>5, <4>2
        <5> QED  BY <1>3, <5>1, BlankAt, BlankShows DEF ShowsOnly
      <4> QED  BY <4>1, <4>2
    <3> HIDE DEF before
    <3>3. /\ Shaped(Reshape(before.ring, len), len)
          /\ p \notin lagging' => ShowsOnly(Reshape(before.ring, len), old)
      BY <1>3, <3>2, ReshapeFollows, ReshapeShows
    <3>4. /\ Shaped(q, len)
          /\ p \notin lagging' =>
               ShowsOnly(q, {n \in old : n <= number} \cup {number})
      BY <1>3, <3>3, AbsorbAbsorbs, AbsorbShows
    <3> HIDE DEF q
    <3> QED  BY <2>2, <2>4, <3>1, <3>4 DEF ShowsOnly
  <2> QED  BY <2>3, <2>4
<1> QED  BY <1>1, <1>2, <1>4, <1>6, <1>8 DEF HonestInv

LEMMA ReloadHonest ==
    ASSUME HonestInv, NEW l \in Lens, NEW s \in Sizes, NEW a \in BOOLEAN,
           NEW others \in BOOLEAN, Reload(l, s, a, others)
    PROVE  HonestInv'
<1>1. FineInv' /\ AheadInv'
  BY ReloadIsTimeline, ReloadNotAhead DEF HonestInv
<1>2. /\ len' = l /\ l \in Nat \ {0}
      /\ agents' = IF s = size /\ a
                   THEN [p \in Tracked |->
                           [agents[p] EXCEPT !.ring = Reshape(@, l)]]
                   ELSE NoAgents
      /\ met' = [p \in Panes |-> IF p \in DOMAIN agents' THEN met[p] ELSE {}]
      /\ lagging' = lagging \cap DOMAIN agents'
  BY Settings DEF Reload
<1>3. Tracked' \subseteq Tracked /\ Tracked' = DOMAIN agents'
  BY <1>2 DEF Tracked, NoAgents
<1>4. ASSUME NEW p \in Tracked'
      PROVE  /\ Shaped(agents'[p].ring, l)
             /\ p \notin lagging' => ShowsOnly(agents'[p].ring, met'[p])
  <2>1. AgentRecord(agents[p]) /\ Shaped(agents[p].ring, len) /\ p \in Panes
    BY <1>3 DEF HonestInv, AheadInv, NoneAhead, Tracked
  <2>2. agents'[p] = [agents[p] EXCEPT !.ring = Reshape(agents[p].ring, l)]
    BY <1>2, <1>3 DEF NoAgents, Tracked
  <2>3. agents'[p].ring = Reshape(agents[p].ring, l)
    BY <2>1, <2>2 DEF AgentRecord
  <2>4. met'[p] = met[p]
    BY <1>2, <1>3, <2>1
  <2>5. p \notin lagging' => ShowsOnly(agents[p].ring, met[p])
    BY <1>2, <1>3 DEF HonestInv
  <2> QED  BY <1>2, <2>1, <2>3, <2>4, <2>5, ReshapeFollows, ReshapeShows
<1> QED  BY <1>1, <1>2, <1>3, <1>4 DEF HonestInv

LEMMA NextHonest == HonestInv /\ [Next]_vars => HonestInv'
<1> SUFFICES ASSUME HonestInv, [Next]_vars PROVE HonestInv'
  OBVIOUS
<1>1. ASSUME NEW at \in Stamps, NEW obs \in Observations, Observe(at, obs)
      PROVE  HonestInv'
  BY <1>1, ObserveHonest
<1>2. ASSUME NEW l \in Lens, NEW s \in Sizes, NEW a \in BOOLEAN,
             NEW others \in BOOLEAN, Reload(l, s, a, others)
      PROVE  HonestInv'
  BY <1>2, ReloadHonest
<1>3. CASE UNCHANGED vars
  BY <1>3 DEF vars, conf, ghosts, HonestInv, FineInv, AheadInv, Tracked
<1> QED  BY <1>1, <1>2, <1>3 DEF Next

\* No bar in an agent's row for a time nobody watched that agent, unless its ring
\* was behind a sample that took the clock back (WorkspaceHistory::rewind,
\* observe_agents).
THEOREM AgentRowsAreHonest == Spec => []AgentRowHonest
<1>1. HonestInv => AgentRowHonest
  BY Settings DEF HonestInv, AgentRowHonest, RowTruth, ShowsOnly
<1> QED  BY InitHonest, NextHonest, <1>1, PTL DEF Spec

-----------------------------------------------------------------------------
(* Finite sets, smaller subsets first.                                     *)

\* What a set has when each set of one element less has it, every subset of a
\* finite set has.
LEMMA Descent ==
    ASSUME NEW S, IsFiniteSet(S), NEW C,
           \A T \in SUBSET S : (\A x \in T : T \ {x} \in C) => T \in C
    PROVE  \A T \in SUBSET S : T \in C
<1> DEFINE bad == {T \in SUBSET S : T \notin C}
<1>1. SUFFICES ASSUME bad # {} PROVE FALSE
  OBVIOUS
<1>2. bad \subseteq FiniteSubsetsOf(S)
  BY FS_Subset DEF FiniteSubsetsOf
<1>3. IsWellFoundedOn(StrictSubsetOrdering(S), FiniteSubsetsOf(S))
  BY FS_StrictSubsetOrderingWellFounded
<1> HIDE DEF bad
<1>4. PICK T \in bad : \A U \in bad : <<U, T>> \notin StrictSubsetOrdering(S)
  BY <1>1, <1>2, <1>3, WFMin
<1>5. ASSUME NEW x \in T PROVE T \ {x} \in C
  <2>1. T \in SUBSET S /\ T \ {x} \in SUBSET S /\ T \ {x} # T
    BY DEF bad
  <2>2. <<T \ {x}, T>> \in StrictSubsetOrdering(S)
    BY <2>1 DEF StrictSubsetOrdering
  <2> QED  BY <1>4, <2>1, <2>2 DEF bad
<1> QED  BY <1>5 DEF bad

-----------------------------------------------------------------------------
(* Folds.                                                                  *)

First(T) == CHOOSE x \in T : TRUE

LEMMA FirstIn == ASSUME NEW T, T # {} PROVE First(T) \in T
  BY DEF First

\* g is the fold of the subsets of S: base, and then step after step.
FoldsBy(g, S, base, step) ==
    \A T \in SUBSET S : g[T] = IF T = {} THEN base
                               ELSE step[<<T, g[T \ {First(T)}]>>]

LEMMA FoldUnique ==
    ASSUME NEW S, IsFiniteSet(S), NEW base, NEW step, NEW g, NEW h,
           FoldsBy(g, S, base, step), FoldsBy(h, S, base, step)
    PROVE  \A T \in SUBSET S : g[T] = h[T]
<1> DEFINE C == {T \in SUBSET S : g[T] = h[T]}
<1>1. ASSUME NEW T \in SUBSET S, \A x \in T : T \ {x} \in C
      PROVE  g[T] = h[T]
  <2>1. CASE T = {}
    BY <2>1 DEF FoldsBy
  <2>2. CASE T # {}
    <3>1. g[T \ {First(T)}] = h[T \ {First(T)}]
      BY <1>1, <2>2, FirstIn
    <3> QED  BY <2>2, <3>1 DEF FoldsBy
  <2> QED  BY <2>1, <2>2
<1>2. \A T \in SUBSET S : (\A x \in T : T \ {x} \in C) => T \in C
  BY <1>1
<1> HIDE DEF C
<1>3. \A T \in SUBSET S : T \in C
  BY <1>2, Descent
<1> QED  BY <1>3 DEF C

LEMMA FoldExists ==
    ASSUME NEW S, IsFiniteSet(S), NEW V, NEW base \in V,
           NEW step \in [(SUBSET S) \X V -> V]
    PROVE  \E g \in [SUBSET S -> V] : FoldsBy(g, S, base, step)
<1> DEFINE Has(T) == \E g \in [SUBSET T -> V] : FoldsBy(g, T, base, step)
           C == {T \in SUBSET S : Has(T)}
<1>1. ASSUME NEW T \in SUBSET S, \A x \in T : T \ {x} \in C
      PROVE  Has(T)
  <2> DEFINE part == [x \in T |-> CHOOSE g \in [SUBSET (T \ {x}) -> V] :
                                    FoldsBy(g, T \ {x}, base, step)]
  <2>1. \A x \in T : /\ part[x] \in [SUBSET (T \ {x}) -> V]
                     /\ FoldsBy(part[x], T \ {x}, base, step)
    BY <1>1
  <2> HIDE DEF part
  <2>2. ASSUME NEW x \in T, NEW y \in T, NEW U \in SUBSET T,
               x \notin U, y \notin U
        PROVE  part[x][U] = part[y][U]
    <3>1. U \in SUBSET (T \ {x}) /\ U \in SUBSET (T \ {y})
      BY <2>2
    <3>2. FoldsBy(part[x], U, base, step) /\ FoldsBy(part[y], U, base, step)
      BY <2>1, <3>1 DEF FoldsBy
    <3>3. IsFiniteSet(U)
      BY FS_Subset
    <3> QED  BY <3>2, <3>3, FoldUnique
  <2> DEFINE inner(U) == part[First(T \ U)][U]
             g == [U \in SUBSET T |->
                     IF U # T THEN inner(U)
                     ELSE IF T = {} THEN base
                     ELSE step[<<T, inner(T \ {First(T)})>>]]
  <2>3. ASSUME NEW U \in SUBSET T, U # T
        PROVE  /\ inner(U) \in V
               /\ inner(U) = IF U = {} THEN base
                             ELSE step[<<U, inner(U \ {First(U)})>>]
    <3> DEFINE x == First(T \ U)
    <3>1. x \in T /\ x \notin U
      BY <2>3, FirstIn
    <3> HIDE DEF x
    <3>2. U \in SUBSET (T \ {x})
      BY <3>1
    <3>3. inner(U) = part[x][U]
      BY DEF x
    <3>4. part[x][U] \in V
      BY <2>1, <3>1, <3>2
    <3>5. CASE U = {}
      BY <2>1, <3>1, <3>2, <3>3, <3>4, <3>5 DEF FoldsBy
    <3>6. CASE U # {}
      <4> DEFINE W == U \ {First(U)}
                 y == First(T \ W)
      <4>1. W \in SUBSET T /\ x \notin W /\ W # T
        BY <3>1
      <4>2. y \in T /\ y \notin W
        BY <4>1, FirstIn
      <4>3. part[x][U] = step[<<U, part[x][W]>>]
        BY <2>1, <3>1, <3>2, <3>6 DEF FoldsBy
      <4>4. inner(W) = part[y][W]
        OBVIOUS
      <4> HIDE DEF y
      <4>5. part[x][W] = part[y][W]
        BY <2>2, <3>1, <4>1, <4>2
      <4> HIDE DEF inner, W
      <4>6. inner(U) = step[<<U, inner(W)>>]
        BY <3>3, <4>3, <4>4, <4>5
      <4> QED  BY <3>3, <3>4, <3>6, <4>6 DEF W
    <3> QED  BY <3>5, <3>6
  <2> HIDE DEF inner
  <2>4. T = {} \/ T \ {First(T)} # T
    BY FirstIn
  <2>5. g \in [SUBSET T -> V]
    <3> SUFFICES ASSUME NEW U \in SUBSET T PROVE g[U] \in V
      OBVIOUS
    <3>1. CASE U # T
      BY <2>3, <3>1
    <3>2. CASE U = T /\ T = {}
      BY <3>2
    <3>3. CASE U = T /\ T # {}
      <4>1. inner(T \ {First(T)}) \in V
        BY <2>3, <2>4, <3>3
      <4>2. <<T, inner(T \ {First(T)})>> \in (SUBSET S) \X V
        BY <4>1
      <4>3. step[<<T, inner(T \ {First(T)})>>] \in V
        BY <4>2
      <4> QED  BY <3>3, <4>3
    <3> QED  BY <3>1, <3>2, <3>3
  <2>6. \A U \in SUBSET T : U # T => g[U] = inner(U)
    OBVIOUS
  <2>7. g[T] = IF T = {} THEN base ELSE step[<<T, inner(T \ {First(T)})>>]
    OBVIOUS
  <2> HIDE DEF g
  <2>8. FoldsBy(g, T, base, step)
    <3> SUFFICES ASSUME NEW U \in SUBSET T
                 PROVE  g[U] = IF U = {} THEN base
                               ELSE step[<<U, g[U \ {First(U)}]>>]
      BY DEF FoldsBy
    <3>1. U \ {First(U)} \in SUBSET T /\ (U # T => U \ {First(U)} # T)
      OBVIOUS
    <3>2. CASE U # T
      BY <2>3, <2>6, <3>1, <3>2
    <3>3. CASE U = T
      BY <2>4, <2>6, <2>7, <3>3
    <3> QED  BY <3>2, <3>3
  <2> QED  BY <2>5, <2>8
<1>2. \A T \in SUBSET S : (\A x \in T : T \ {x} \in C) => T \in C
  BY <1>1
<1> HIDE DEF C, Has
<1>3. \A T \in SUBSET S : T \in C
  BY <1>2, Descent
<1>4. S \in C
  BY <1>3
<1> QED  BY <1>4 DEF C, Has

-----------------------------------------------------------------------------
(* Counters, buckets and what folds of them are.                           *)

LEMMA PlusCount ==
    ASSUME NEW x \in Count, NEW y \in Nat
    PROVE  Plus(x, y) \in Count /\ Plus(y, x) \in Count
  BY BucketAssumption DEF Count, Plus, Least

LEMMA JoinIsBucket ==
    ASSUME NEW a \in Bucket, NEW b \in Bucket
    PROVE  Join(a, b) \in Bucket
<1>1. /\ Join(a, b) = [f \in {"samples", "working", "blocked", "transitions"} |->
                         Plus(a[f], b[f])]
  BY DEF Join, Bucket
<1>2. \A f \in {"samples", "working", "blocked", "transitions"} :
         a[f] \in Count /\ b[f] \in Count /\ b[f] \in Nat
  BY BucketAssumption DEF Bucket, Count
<1>3. \A f \in {"samples", "working", "blocked", "transitions"} :
         Plus(a[f], b[f]) \in Count
  BY <1>2, PlusCount
<1>4. Join(a, b) = [samples |-> Plus(a.samples, b.samples),
                    working |-> Plus(a.working, b.working),
                    blocked |-> Plus(a.blocked, b.blocked),
                    transitions |-> Plus(a.transitions, b.transitions)]
  BY <1>1
<1> QED  BY <1>3, <1>4 DEF Bucket

LEMMA GapIsBucket == Gap \in Bucket
  BY BucketAssumption DEF Gap, Bucket, Count

LEMMA AddedIsBucket ==
    ASSUME NEW b \in Bucket, NEW r, r.transitions \in Count
    PROVE  Added(b, r) \in Bucket
<1> DEFINE one == [samples |-> 1,
             working |-> IF r.working THEN 1 ELSE 0,
             blocked |-> IF r.blocked THEN 1 ELSE 0,
             transitions |-> r.transitions]
<1>1. one \in Bucket
  BY BucketAssumption DEF Bucket, Count
<1> QED  BY <1>1, JoinIsBucket DEF Added

\* FoldFunction, unfolded.
LEMMA JoinFold ==
    ASSUME NEW group, IsFiniteSet(DOMAIN group),
           \A n \in DOMAIN group : group[n] \in Bucket
    PROVE  \E g \in [SUBSET DOMAIN group -> Bucket] :
             /\ \A T \in SUBSET DOMAIN group :
                   g[T] = IF T = {} THEN Gap
                          ELSE Join(group[First(T)], g[T \ {First(T)}])
             /\ FoldFunction(Join, Gap, group) = g[DOMAIN group]
<1> DEFINE S == DOMAIN group
           body(g, T) == IF T = {} THEN Gap
                         ELSE Join(group[First(T)], g[T \ {First(T)}])
           iter == CHOOSE g : g = [T \in SUBSET S |-> body(g, T)]
           step == [u \in (SUBSET S) \X Bucket |->
                      IF u[1] = {} THEN Gap ELSE Join(group[First(u[1])], u[2])]
<1>1. FoldFunction(Join, Gap, group) = iter[S]
  BY DEF FoldFunction, FoldFunctionOnSet, MapThenFoldSet, First
<1>2. step \in [(SUBSET S) \X Bucket -> Bucket]
  BY FirstIn, JoinIsBucket, GapIsBucket
<1>3. PICK g \in [SUBSET S -> Bucket] : FoldsBy(g, S, Gap, step)
  BY <1>2, FoldExists, GapIsBucket
<1>4. ASSUME NEW T \in SUBSET S PROVE g[T] = body(g, T)
  <2>1. CASE T = {}
    BY <1>3, <2>1 DEF FoldsBy
  <2>2. CASE T # {}
    <3>1. g[T] = step[<<T, g[T \ {First(T)}]>>]
      BY <1>3, <2>2 DEF FoldsBy
    <3>2. <<T, g[T \ {First(T)}]>> \in (SUBSET S) \X Bucket
      OBVIOUS
    <3> QED  BY <2>2, <3>1, <3>2
  <2> QED  BY <2>1, <2>2
<1>5. g = [T \in SUBSET S |-> body(g, T)]
  BY <1>4
<1>6. iter = [T \in SUBSET S |-> body(iter, T)]
  <2> HIDE DEF body
  <2> QED  BY <1>5
<1> HIDE DEF iter, step
<1> DEFINE C == {T \in SUBSET S : iter[T] = g[T]}
<1>7. ASSUME NEW T \in SUBSET S, \A x \in T : T \ {x} \in C
      PROVE  T \in C
  <2>1. T # {} => iter[T \ {First(T)}] = g[T \ {First(T)}]
    BY <1>7, FirstIn
  <2> QED  BY <1>4, <1>6, <2>1
<1> HIDE DEF C
<1>8. \A T \in SUBSET S : T \in C
  BY <1>7, Descent
<1>9. iter[S] = g[S]
  BY <1>8 DEF C
<1> QED  BY <1>1, <1>4, <1>9

LEMMA FoldedIsBucket ==
    ASSUME NEW group, IsFiniteSet(DOMAIN group),
           \A n \in DOMAIN group : group[n] \in Bucket
    PROVE  Folded(group) \in Bucket
<1> DEFINE all == FoldFunction(Join, Gap, group)
<1>1. all \in Bucket
  <2>1. PICK g \in [SUBSET DOMAIN group -> Bucket] : all = g[DOMAIN group]
    BY JoinFold
  <2> HIDE DEF all
  <2> QED  BY <2>1
<1>2. Folded(group) = IF \E n \in DOMAIN group : ~Observed(group[n]) THEN Gap
                      ELSE all
  BY DEF Folded
<1> HIDE DEF all
<1> QED  BY <1>1, <1>2, GapIsBucket

\* Sums, unfolded: what any element adds to a sum without it.
LEMMA SumUnfolds ==
    ASSUME NEW S, IsFiniteSet(S), NEW f \in [S -> Nat]
    PROVE  \E sum \in [SUBSET S -> Nat] :
             /\ sum[{}] = 0
             /\ \A T \in SUBSET S : \A x \in T : sum[T] = f[x] + sum[T \ {x}]
             /\ SumFunction(f) = sum[S]
<1> DEFINE body(g, T) == IF T = {} THEN 0
                         ELSE f[First(T)] + g[T \ {First(T)}]
           iter == CHOOSE g : g = [T \in SUBSET S |-> body(g, T)]
           step == [u \in (SUBSET S) \X Nat |->
                      IF u[1] = {} THEN 0 ELSE f[First(u[1])] + u[2]]
<1>1. SumFunction(f) = iter[S]
  BY DEF SumFunction, SumFunctionOnSet, FoldFunctionOnSet, MapThenFoldSet, First
<1>2. step \in [(SUBSET S) \X Nat -> Nat]
  BY FirstIn
<1>3. PICK g \in [SUBSET S -> Nat] : FoldsBy(g, S, 0, step)
  BY <1>2, FoldExists
<1>4. ASSUME NEW T \in SUBSET S PROVE g[T] = body(g, T)
  <2>1. CASE T = {}
    BY <1>3, <2>1 DEF FoldsBy
  <2>2. CASE T # {}
    <3>1. g[T] = step[<<T, g[T \ {First(T)}]>>]
      BY <1>3, <2>2 DEF FoldsBy
    <3>2. <<T, g[T \ {First(T)}]>> \in (SUBSET S) \X Nat
      OBVIOUS
    <3> QED  BY <2>2, <3>1, <3>2
  <2> QED  BY <2>1, <2>2
<1>5. g = [T \in SUBSET S |-> body(g, T)]
  BY <1>4
<1>6. iter = [T \in SUBSET S |-> body(iter, T)]
  <2> HIDE DEF body
  <2> QED  BY <1>5
<1> HIDE DEF iter, step
<1> DEFINE C == {T \in SUBSET S : iter[T] = g[T]}
<1>7. ASSUME NEW T \in SUBSET S, \A x \in T : T \ {x} \in C
      PROVE  T \in C
  <2>1. T # {} => iter[T \ {First(T)}] = g[T \ {First(T)}]
    BY <1>7, FirstIn
  <2> QED  BY <1>4, <1>6, <2>1
<1> HIDE DEF C
<1>8. \A T \in SUBSET S : T \in C
  BY <1>7, Descent
<1>9. SumFunction(f) = g[S] /\ g[{}] = 0
  BY <1>1, <1>4, <1>8 DEF C
<1> DEFINE D == {T \in SUBSET S : \A x \in T : g[T] = f[x] + g[T \ {x}]}
<1>10. ASSUME NEW T \in SUBSET S, \A x \in T : T \ {x} \in D
       PROVE  T \in D
  <2> SUFFICES ASSUME NEW x \in T PROVE g[T] = f[x] + g[T \ {x}]
    OBVIOUS
  <2> DEFINE c == First(T)
  <2>1. c \in T /\ g[T] = f[c] + g[T \ {c}]
    BY <1>4, FirstIn
  <2> HIDE DEF c
  <2>2. CASE x = c
    BY <2>1, <2>2
  <2>3. CASE x # c
    <3>1. x \in T \ {c} /\ c \in T \ {x} /\ (T \ {c}) \ {x} = (T \ {x}) \ {c}
      BY <2>1, <2>3
    <3>2. g[T \ {c}] = f[x] + g[(T \ {c}) \ {x}]
      BY <1>10, <2>1, <3>1
    <3>3. g[T \ {x}] = f[c] + g[(T \ {x}) \ {c}]
      BY <1>10, <3>1
    <3> DEFINE rest == g[(T \ {x}) \ {c}]
    <3>4. f[x] \in Nat /\ f[c] \in Nat /\ rest \in Nat
      BY <2>1
    <3>5. g[T] = f[c] + (f[x] + rest)
      BY <2>1, <3>1, <3>2
    <3>6. g[T \ {x}] = f[c] + rest
      BY <3>3
    <3> HIDE DEF rest
    <3> QED  BY <3>4, <3>5, <3>6
  <2> QED  BY <2>2, <2>3
<1> HIDE DEF D
<1>11. \A T \in SUBSET S : T \in D
  BY <1>10, Descent
<1> QED  BY <1>9, <1>11 DEF D

-----------------------------------------------------------------------------
(* Sums.                                                                   *)

LEMMA SumBounded ==
    ASSUME NEW S, IsFiniteSet(S), NEW f \in [S -> Nat], NEW k \in Nat,
           \A x \in S : f[x] <= k
    PROVE  /\ SumFunction(f) \in Nat /\ Cardinality(S) \in Nat
           /\ SumFunction(f) <= k * Cardinality(S)
<1>1. PICK sum \in [SUBSET S -> Nat] :
         /\ sum[{}] = 0
         /\ \A T \in SUBSET S : \A x \in T : sum[T] = f[x] + sum[T \ {x}]
         /\ SumFunction(f) = sum[S]
  BY SumUnfolds
<1> DEFINE C == {T \in SUBSET S : sum[T] <= k * Cardinality(T)}
<1>2. ASSUME NEW T \in SUBSET S, \A x \in T : T \ {x} \in C
      PROVE  T \in C
  <2>1. IsFiniteSet(T) /\ Cardinality(T) \in Nat
    BY FS_Subset, FS_CardinalityType
  <2>2. CASE T = {}
    <3>1. Cardinality(T) = 0 /\ k * 0 = 0
      BY <2>2, FS_EmptySet
    <3> QED  BY <1>1, <2>2, <3>1
  <2>3. CASE T # {}
    <3>1. PICK x \in T : TRUE
      BY <2>3
    <3> DEFINE rest == Cardinality(T \ {x})
    <3>2. rest \in Nat /\ Cardinality(T) = rest + 1
      <4>1. IsFiniteSet(T \ {x}) /\ rest = Cardinality(T) - 1
        BY <2>1, <3>1, FS_RemoveElement
      <4>2. rest \in Nat
        BY <4>1, FS_CardinalityType
      <4> QED  BY <2>1, <4>1, <4>2
    <3>3. sum[T \ {x}] <= k * rest
      BY <1>2, <3>1
    <3>4. sum[T] = f[x] + sum[T \ {x}] /\ f[x] \in Nat /\ f[x] <= k
          /\ sum[T \ {x}] \in Nat
      BY <1>1, <3>1
    <3> HIDE DEF rest
    <3>5. k * (rest + 1) = k * rest + k /\ k * rest \in Nat
      BY <3>2
    <3>6. sum[T] <= k * Cardinality(T)
      BY <3>2, <3>3, <3>4, <3>5
    <3> QED  BY <3>6
  <2> QED  BY <2>2, <2>3
<1> HIDE DEF C
<1>3. \A T \in SUBSET S : T \in C
  BY <1>2, Descent
<1>4. sum[S] <= k * Cardinality(S)
  BY <1>3 DEF C
<1> QED  BY <1>1, <1>4, FS_CardinalityType

\* sum says of every subset of S what f adds up to there.
IsSum(sum, S, f) ==
    /\ sum \in [SUBSET S -> Nat] /\ sum[{}] = 0
    /\ \A T \in SUBSET S : \A x \in T : sum[T] = f[x] + sum[T \ {x}]

LEMMA SumMonotone ==
    ASSUME NEW S, IsFiniteSet(S), NEW f \in [S -> Nat], NEW sum, IsSum(sum, S, f),
           NEW R, NEW g \in [R -> Nat], NEW other, IsSum(other, R, g),
           \A x \in R \cap S : g[x] <= f[x]
    PROVE  \A T \in SUBSET S : other[T \cap R] <= sum[T]
<1> DEFINE C == {T \in SUBSET S : other[T \cap R] <= sum[T]}
<1>1. ASSUME NEW T \in SUBSET S, \A x \in T : T \ {x} \in C
      PROVE  T \in C
  <2>1. CASE T = {}
    <3>1. T \cap R = {}
      BY <2>1
    <3> QED  BY <2>1, <3>1 DEF IsSum
  <2>2. CASE T # {}
    <3>1. PICK x \in T : TRUE
      BY <2>2
    <3> DEFINE rest == sum[T \ {x}]
               less == other[(T \ {x}) \cap R]
    <3>2. less <= rest /\ rest \in Nat /\ less \in Nat
      BY <1>1, <3>1 DEF IsSum
    <3>3. sum[T] = f[x] + rest /\ f[x] \in Nat
      BY <3>1 DEF IsSum
    <3>4. CASE x \in R
      <4>1. (T \cap R) \ {x} = (T \ {x}) \cap R /\ T \cap R \in SUBSET R
            /\ x \in T \cap R
        BY <3>1, <3>4
      <4>2. other[T \cap R] = g[x] + less /\ g[x] \in Nat /\ g[x] <= f[x]
        <5>1. other[T \cap R] = g[x] + other[(T \cap R) \ {x}]
          BY <4>1 DEF IsSum
        <5>2. x \in R \cap S /\ g[x] \in Nat
          BY <3>4, <4>1
        <5> QED  BY <4>1, <5>1, <5>2
      <4> HIDE DEF rest, less
      <4>3. other[T \cap R] <= sum[T]
        BY <3>2, <3>3, <4>2
      <4> QED  BY <4>3
    <3>5. CASE x \notin R
      <4>1. T \cap R = (T \ {x}) \cap R
        BY <3>1, <3>5
      <4>2. other[T \cap R] = less
        BY <4>1
      <4> HIDE DEF rest, less
      <4>3. other[T \cap R] <= sum[T]
        BY <3>2, <3>3, <4>2
      <4> QED  BY <4>3
    <3> QED  BY <3>4, <3>5
  <2> QED  BY <2>1, <2>2
<1> HIDE DEF C
<1>2. \A T \in SUBSET S : T \in C
  BY <1>1, Descent
<1> QED  BY <1>2 DEF C

LEMMA SumDisjoint ==
    ASSUME NEW S, IsFiniteSet(S), NEW f \in [S -> Nat], NEW sum, IsSum(sum, S, f),
           NEW A \in SUBSET S
    PROVE  \A B \in SUBSET S : A \cap B = {} => sum[A \cup B] = sum[A] + sum[B]
<1> DEFINE C == {B \in SUBSET S : A \cap B = {} => sum[A \cup B] = sum[A] + sum[B]}
<1>1. ASSUME NEW B \in SUBSET S, \A x \in B : B \ {x} \in C
      PROVE  B \in C
  <2> SUFFICES ASSUME A \cap B = {} PROVE sum[A \cup B] = sum[A] + sum[B]
    OBVIOUS
  <2>1. CASE B = {}
    <3>1. A \cup B = A /\ sum[A] \in Nat /\ sum[B] = 0
      BY <2>1 DEF IsSum
    <3> QED  BY <3>1
  <2>2. CASE B # {}
    <3>1. PICK x \in B : TRUE
      BY <2>2
    <3>2. (A \cup B) \ {x} = A \cup (B \ {x}) /\ A \cap (B \ {x}) = {}
          /\ x \in A \cup B /\ A \cup B \in SUBSET S /\ B \ {x} \in SUBSET S
      BY <3>1
    <3>3. sum[A \cup (B \ {x})] = sum[A] + sum[B \ {x}]
      BY <1>1, <3>1, <3>2
    <3>4. sum[A \cup B] = f[x] + sum[A \cup (B \ {x})]
      BY <3>2 DEF IsSum
    <3>5. sum[B] = f[x] + sum[B \ {x}]
      BY <3>1 DEF IsSum
    <3>6. f[x] \in Nat /\ sum[A] \in Nat /\ sum[B \ {x}] \in Nat
      BY <3>1, <3>2 DEF IsSum
    <3> QED  BY <3>3, <3>4, <3>5, <3>6
  <2> QED  BY <2>1, <2>2
<1> HIDE DEF C
<1>2. \A B \in SUBSET S : B \in C
  BY <1>1, Descent
<1> QED  BY <1>2 DEF C

\* What groups that do not meet say, each no more than its members, is no more
\* than everybody says.
LEMMA SumGrouped ==
    ASSUME NEW S, IsFiniteSet(S), NEW f \in [S -> Nat], NEW sum, IsSum(sum, S, f),
           NEW R, IsFiniteSet(R), NEW g \in [R -> Nat], NEW other, IsSum(other, R, g),
           NEW members, \A m \in R : members[m] \in SUBSET S /\ g[m] <= sum[members[m]],
           \A m, n \in R : m # n => members[m] \cap members[n] = {}
    PROVE  other[R] <= sum[S]
<1> DEFINE of(T) == UNION {members[m] : m \in T}
           C == {T \in SUBSET R : other[T] <= sum[of(T)]}
<1>0. \A T \in SUBSET R : of(T) \in SUBSET S
  OBVIOUS
<1>a. \A A, B \in SUBSET S : A \cap B = {} => sum[A \cup B] = sum[A] + sum[B]
  BY SumDisjoint
<1>1. ASSUME NEW T \in SUBSET R, \A x \in T : T \ {x} \in C
      PROVE  other[T] <= sum[of(T)]
  <2>1. CASE T = {}
    <3>1. of(T) = {}
      BY <2>1
    <3>2. other[T] = 0 /\ sum[{}] = 0
      BY <2>1 DEF IsSum
    <3> HIDE DEF of
    <3> QED  BY <3>1, <3>2
  <2>2. CASE T # {}
    <3>1. PICK m \in T : TRUE
      BY <2>2
    <3>2. of(T) = of(T \ {m}) \cup members[m]
      BY <3>1
    <3>3. of(T \ {m}) \cap members[m] = {}
      BY <3>1
    <3>4. other[T \ {m}] <= sum[of(T \ {m})] /\ of(T \ {m}) \in SUBSET S
      BY <1>0, <1>1, <3>1
    <3> DEFINE before == of(T \ {m})
    <3> HIDE DEF of
    <3>5. sum[before \cup members[m]] = sum[before] + sum[members[m]]
      <4>1. before \in SUBSET S /\ members[m] \in SUBSET S
            /\ before \cap members[m] = {}
        BY <3>1, <3>3, <3>4
      <4> HIDE DEF before
      <4> QED  BY <1>a, <4>1
    <3>6. other[T] = g[m] + other[T \ {m}] /\ g[m] <= sum[members[m]]
      BY <3>1 DEF IsSum
    <3>7. g[m] \in Nat /\ other[T \ {m}] \in Nat /\ sum[before] \in Nat
          /\ sum[members[m]] \in Nat /\ other[T \ {m}] <= sum[before]
      BY <3>1, <3>4 DEF IsSum
    <3>8. sum[of(T)] = sum[before] + sum[members[m]]
      BY <3>2, <3>5
    <3> HIDE DEF before
    <3> QED  BY <3>6, <3>7, <3>8
  <2> QED  BY <2>1, <2>2
<1>2. \A T \in SUBSET R : (\A x \in T : T \ {x} \in C) => T \in C
  BY <1>1
<1> HIDE DEF C
<1>3. \A T \in SUBSET R : T \in C
  BY <1>2, Descent
<1>4. other[R] <= sum[of(R)] /\ of(R) \in SUBSET S
  BY <1>0, <1>3 DEF C
<1>5. sum[S] = sum[of(R)] + sum[S \ of(R)]
  <2>1. of(R) \cup (S \ of(R)) = S /\ of(R) \cap (S \ of(R)) = {}
        /\ S \ of(R) \in SUBSET S
    BY <1>4
  <2> HIDE DEF of
  <2>2. sum[of(R) \cup (S \ of(R))] = sum[of(R)] + sum[S \ of(R)]
    BY <1>4, <2>1, SumDisjoint
  <2> QED  BY <2>1, <2>2
<1> HIDE DEF of
<1>6. sum[of(R)] \in Nat /\ sum[S \ of(R)] \in Nat /\ other[R] \in Nat
  BY <1>4 DEF IsSum
<1> QED  BY <1>4, <1>5, <1>6

LEMMA SumIs ==
    ASSUME NEW S, IsFiniteSet(S), NEW f \in [S -> Nat]
    PROVE  \E sum : IsSum(sum, S, f) /\ SumFunction(f) = sum[S]
  BY SumUnfolds DEF IsSum

\* Folded buckets have no more samples together than they had.
LEMMA FoldedSamples ==
    ASSUME NEW group, IsFiniteSet(DOMAIN group),
           \A n \in DOMAIN group : group[n] \in Bucket,
           NEW S, DOMAIN group \subseteq S, NEW f \in [S -> Nat], NEW sum,
           IsSum(sum, S, f), \A n \in DOMAIN group : f[n] = group[n].samples
    PROVE  Folded(group).samples <= sum[DOMAIN group]
<1> DEFINE D == DOMAIN group
           all == FoldFunction(Join, Gap, group)
<1>1. PICK g \in [SUBSET D -> Bucket] :
             /\ \A T \in SUBSET D :
                   g[T] = IF T = {} THEN Gap
                          ELSE Join(group[First(T)], g[T \ {First(T)}])
             /\ all = g[D]
  BY JoinFold
<1>2. Folded(group) = IF \E n \in D : ~Observed(group[n]) THEN Gap ELSE all
  BY DEF Folded
<1> HIDE DEF all
<1> DEFINE C == {T \in SUBSET D : g[T].samples <= sum[T]}
<1>3. ASSUME NEW T \in SUBSET D, \A x \in T : T \ {x} \in C
      PROVE  g[T].samples <= sum[T]
  <2>1. CASE T = {}
    <3>1. g[T] = Gap /\ sum[T] = 0
      BY <1>1, <2>1 DEF IsSum
    <3> QED  BY <3>1 DEF Gap
  <2>2. CASE T # {}
    <3> DEFINE x == First(T)
               a == group[x]
               b == g[T \ {x}]
    <3>1. x \in T
      BY <2>2, FirstIn
    <3>2. g[T] = Join(a, b) /\ a \in Bucket /\ b \in Bucket
      BY <1>1, <2>2, <3>1
    <3>3. sum[T] = a.samples + sum[T \ {x}] /\ b.samples <= sum[T \ {x}]
          /\ sum[T \ {x}] \in Nat
      BY <1>3, <3>1 DEF IsSum
    <3> HIDE DEF x, a, b
    <3>4. g[T].samples = Plus(a.samples, b.samples)
          /\ a.samples \in Nat /\ b.samples \in Nat
      BY <3>2, BucketAssumption DEF Join, Bucket, Count
    <3> QED  BY <3>3, <3>4, BucketAssumption DEF Plus, Least
  <2> QED  BY <2>1, <2>2
<1>4. \A T \in SUBSET D : (\A x \in T : T \ {x} \in C) => T \in C
  BY <1>3
<1> HIDE DEF C
<1>5. \A T \in SUBSET D : T \in C
  BY <1>4, Descent
<1>6. all.samples <= sum[D]
  BY <1>1, <1>5 DEF C
<1>7. sum[D] \in Nat
  BY DEF IsSum
<1> QED  BY <1>2, <1>6, <1>7 DEF Gap

-----------------------------------------------------------------------------
(* Every slot of a ring holds a bucket.                                    *)

Filled(r, l) == \A i \in 0..l-1 : r.buckets[i] \in Bucket

LEMMA AtIsBucket ==
    ASSUME NEW r, NEW l, Shaped(r, l), Filled(r, l), NEW n \in Nat
    PROVE  At(r, n) \in Bucket
<1>1. l \in Nat \ {0}
  BY DEF Shaped
<1>2. n % l \in 0..l-1
  BY <1>1, SlotIn
<1> QED  BY <1>2, AtIs, GapIsBucket DEF Filled

LEMMA BlankFilled ==
    ASSUME NEW l \in Nat \ {0}, NEW newest \in Nat
    PROVE  Filled(Blank(l, newest), l)
  BY GapIsBucket DEF Filled, Blank

LEMMA ClearedFilled ==
    ASSUME NEW r, NEW l, Shaped(r, l), Filled(r, l), NEW numbers
    PROVE  \A i \in 0..l-1 : Cleared(r, numbers)[i] \in Bucket
<1>1. r.len = l
  BY DEF Shaped
<1> QED  BY <1>1, GapIsBucket DEF Filled, Cleared

LEMMA RewindFilled ==
    ASSUME NEW r, NEW l, Shaped(r, l), Filled(r, l), NEW number \in Nat
    PROVE  Shaped(Rewind(r, number), l) /\ Filled(Rewind(r, number), l)
  BY ClearedShape, ClearedFilled DEF Filled, Rewind

LEMMA AdvanceFilled ==
    ASSUME NEW r, NEW l, Shaped(r, l), Filled(r, l), NEW number \in Nat
    PROVE  Shaped(Advance(r, number), l) /\ Filled(Advance(r, number), l)
  BY ClearedShape, ClearedFilled DEF Filled, Advance

LEMMA AbsorbFilled ==
    ASSUME NEW r, NEW l, Shaped(r, l), Filled(r, l), NEW number \in Nat,
           NEW reading, reading.transitions \in Count
    PROVE  Filled(Absorb(r, number, reading), l)
<1> DEFINE moved == IF number < r.newest THEN Rewind(r, number)
                    ELSE IF number > r.newest THEN Advance(r, number) ELSE r
           slot == number % r.len
<1>1. r.len = l /\ l \in Nat \ {0}
  BY DEF Shaped
<1>2. Shaped(moved, l) /\ Filled(moved, l)
  BY RewindFilled, AdvanceFilled
<1>3. Absorb(r, number, reading).buckets
        = [moved.buckets EXCEPT ![slot] = Added(moved.buckets[slot], reading)]
  BY DEF Absorb
<1> HIDE DEF moved
<1>4. slot \in 0..l-1
  BY <1>1, SlotIn
<1> HIDE DEF slot
<1>5. Added(moved.buckets[slot], reading) \in Bucket
  BY <1>2, <1>4, AddedIsBucket DEF Filled
<1>6. moved.buckets = [i \in 0..l-1 |-> moved.buckets[i]]
  BY <1>2 DEF Shaped
<1> QED  BY <1>2, <1>3, <1>4, <1>5, <1>6 DEF Filled

LEMMA LaidFilled ==
    ASSUME NEW l \in Nat \ {0}, NEW newest \in Nat, NEW given,
           \A n \in 0..newest : given[n] \in Bucket
    PROVE  Filled(Laid(l, newest, given), l)
<1> SUFFICES ASSUME NEW i \in 0..l-1
             PROVE  Laid(l, newest, given).buckets[i] \in Bucket
  BY DEF Filled
<1> DEFINE mine == {n \in Lap(Blank(l, newest)) : n % l = i}
<1>1. Laid(l, newest, given).buckets[i]
        = IF mine = {} THEN Gap ELSE given[First(mine)]
  BY DEF Laid, First
<1>2. Lap(Blank(l, newest)) \subseteq 0..newest
  BY DEF Lap, Blank, Monus
<1> HIDE DEF mine
<1>3. mine # {} => First(mine) \in 0..newest
  BY <1>2, FirstIn DEF mine
<1> QED  BY <1>1, <1>3, GapIsBucket

LEMMA ReshapeFilled ==
    ASSUME NEW r, NEW k, Shaped(r, k), Filled(r, k), NEW l \in Nat \ {0}
    PROVE  Filled(Reshape(r, l), l)
<1>1. r.len = k /\ r.newest \in Nat
  BY DEF Shaped
<1>2. CASE k = l
  BY <1>1, <1>2 DEF Reshape
<1>3. CASE k # l
  <2> DEFINE given == [n \in 0..r.newest |-> At(r, n)]
  <2>1. Reshape(r, l) = Laid(l, r.newest, given)
    BY <1>1, <1>3 DEF Reshape
  <2>2. \A n \in 0..r.newest : given[n] \in Bucket
    BY <1>1, AtIsBucket
  <2> HIDE DEF given
  <2> QED  BY <1>1, <2>1, <2>2, LaidFilled
<1> QED  BY <1>2, <1>3

\* A group is a run of recorded buckets.
LEMMA GroupIsBuckets ==
    ASSUME NEW r, NEW l, Shaped(r, l), Filled(r, l),
           NEW factor \in Nat \ {0}, NEW m \in Nat
    PROVE  /\ DOMAIN Group(r, factor, m) \subseteq Nat
           /\ IsFiniteSet(DOMAIN Group(r, factor, m))
           /\ \A n \in DOMAIN Group(r, factor, m) :
                 /\ Group(r, factor, m)[n] = At(r, n)
                 /\ Group(r, factor, m)[n] \in Bucket
<1> DEFINE low == m * factor
           high == Least(low + factor - 1, r.newest)
<1>1. Group(r, factor, m) = [n \in low..high |-> At(r, n)]
  BY DEF Group
<1>2. low \in Nat
  OBVIOUS
<1> HIDE DEF low
<1>3. high \in Nat
  BY <1>2 DEF Least, Shaped
<1> HIDE DEF high
<1>4. IsFiniteSet(low..high) /\ low..high \subseteq Nat
  BY <1>2, <1>3, FS_Interval
<1> QED  BY <1>1, <1>4, AtIsBucket

LEMMA CoarsenedFilled ==
    ASSUME NEW r, NEW k, Shaped(r, k), Filled(r, k),
           NEW factor \in Nat \ {0}, NEW l \in Nat \ {0}
    PROVE  Filled(Coarsened(r, factor, l), l)
<1> DEFINE newest == r.newest \div factor
           given == [m \in 0..newest |-> Folded(Group(r, factor, m))]
<1>1. newest \in Nat
  BY DivMod DEF Shaped
<1>2. Coarsened(r, factor, l) = Laid(l, newest, given)
  BY DEF Coarsened
<1> HIDE DEF newest
<1>3. \A m \in Nat : Folded(Group(r, factor, m)) \in Bucket
  BY GroupIsBuckets, FoldedIsBucket
<1>4. \A m \in 0..newest : given[m] \in Bucket
  BY <1>1, <1>3
<1> HIDE DEF given
<1> QED  BY <1>1, <1>2, <1>4, LaidFilled

-----------------------------------------------------------------------------
(* The cap on agents.                                                      *)

\* A total order has a first element in every finite set.
LEMMA EvictedCap ==
    ASSUME NEW have, IsFiniteSet(DOMAIN have), DOMAIN have \subseteq Nat,
           \A p \in DOMAIN have : have[p].seen \in Nat, NEW at \in Nat
    PROVE  /\ IsFiniteSet(DOMAIN Evicted(have, at))
           /\ Cardinality(DOMAIN Evicted(have, at)) <= MaxAgents
<1> DEFINE D == DOMAIN have
           Before(x, y) == GoesBefore(have, at, x, y)
           up(x) == {y \in D : Before(x, y)}
           K == DOMAIN Evicted(have, at)
           C == {T \in SUBSET D :
                   T = {} \/ \E x \in T : \A y \in T \ {x} : Before(x, y)}
<1>1. \A x, y \in D : x # y => Before(x, y) \/ Before(y, x)
  BY DEF GoesBefore
<1>2. \A x, y, z \in D : Before(x, y) /\ Before(y, z) => Before(x, z)
  BY DEF GoesBefore
<1>3. /\ K \subseteq D
      /\ \A x \in K : Cardinality(up(x)) < MaxAgents
  BY DEF Evicted
<1> HIDE DEF Before, K
<1>4. ASSUME NEW T \in SUBSET D, \A z \in T : T \ {z} \in C
      PROVE  T \in C
  <2>1. CASE T = {}
    BY <2>1
  <2>2. CASE T # {}
    <3>1. PICK z \in T : TRUE
      BY <2>2
    <3>2. CASE T \ {z} = {}
      BY <3>1, <3>2
    <3>3. CASE T \ {z} # {}
      <4>1. PICK x \in T \ {z} : \A y \in (T \ {z}) \ {x} : Before(x, y)
        BY <1>4, <3>1, <3>3
      <4>2. CASE Before(x, z)
        BY <4>1, <4>2
      <4>3. CASE Before(z, x)
        BY <1>2, <3>1, <4>1, <4>3
      <4> QED  BY <1>1, <3>1, <4>1, <4>2, <4>3
    <3> QED  BY <3>2, <3>3
  <2> QED  BY <2>1, <2>2
<1>5. \A T \in SUBSET D : T \in C
  <2> HIDE DEF C
  <2> QED  BY <1>4, Descent
<1>6. IsFiniteSet(K)
  BY <1>3, FS_Subset
<1>7. CASE K = {}
  BY <1>6, <1>7, FS_EmptySet, RingsAssumption DEF K
<1>8. CASE K # {}
  <2>1. PICK x \in K : \A y \in K \ {x} : Before(x, y)
    BY <1>3, <1>5, <1>8
  <2>2. K \ {x} \subseteq up(x) /\ up(x) \subseteq D
    BY <1>3, <2>1
  <2>3. Cardinality(up(x)) < MaxAgents
    BY <1>3
  <2> HIDE DEF up
  <2>4. IsFiniteSet(up(x)) /\ Cardinality(K \ {x}) <= Cardinality(up(x))
    BY <2>2, FS_Subset
  <2>5. Cardinality(K \ {x}) = Cardinality(K) - 1
    BY <1>6, FS_RemoveElement
  <2>6. Cardinality(K) \in Nat /\ Cardinality(up(x)) \in Nat /\ MaxAgents \in Nat
    BY <1>6, <2>4, FS_CardinalityType, RingsAssumption
  <2> QED  BY <1>6, <2>3, <2>4, <2>5, <2>6 DEF K
<1> QED  BY <1>7, <1>8

-----------------------------------------------------------------------------
(* Types.                                                                  *)

\* Inductive: and hold buckets, of no more agents than the cap.
TypeInv ==
    /\ HonestInv /\ perAgent \in BOOLEAN
    /\ Filled(fine, len)
    /\ Shaped(week, WeekLen) /\ week.newest \in Times /\ Filled(week, WeekLen)
    /\ IsFiniteSet(Tracked) /\ Cardinality(Tracked) <= MaxAgents
    /\ \A p \in Tracked : Filled(agents[p].ring, len)
    /\ known \subseteq Panes /\ now \in Times /\ taken \in 1..MaxSamples
    /\ met \in [Panes -> SUBSET Times] /\ lagging \subseteq Tracked

\* What a snapshot says fits a bucket.
LEMMA ReadingsFit ==
    ASSUME NEW obs \in Observations
    PROVE  /\ WorkspaceReading(obs).transitions \in Count
           /\ \A p \in DOMAIN obs : AgentReading(obs, p).transitions \in Count
           /\ DOMAIN obs \subseteq Panes /\ IsFiniteSet(DOMAIN obs)
<1>1. DOMAIN obs \subseteq Panes /\ IsFiniteSet(DOMAIN obs)
  BY RingsAssumption
<1> DEFINE moved == {p \in DOMAIN obs : obs[p].moved}
<1>2. Cardinality(moved) \in Nat
  BY <1>1, FS_Subset, FS_CardinalityType
<1>3. WorkspaceReading(obs).transitions = Least(Cardinality(moved), MaxCount)
  BY DEF WorkspaceReading
<1> HIDE DEF moved
<1>4. WorkspaceReading(obs).transitions \in Count
  BY <1>2, <1>3, BucketAssumption DEF Least, Count
<1>5. \A p \in DOMAIN obs : AgentReading(obs, p).transitions \in Count
  BY BucketAssumption DEF AgentReading, Count
<1> QED  BY <1>1, <1>4, <1>5

\* The agents after a sample: whatever had them, their slots hold buckets.
LEMMA RecordedFilled ==
    ASSUME NEW have, NEW obs \in Observations, NEW number \in Nat, NEW at \in Nat,
           len \in Nat \ {0}, IsFiniteSet(DOMAIN have),
           \A p \in DOMAIN have : /\ Shaped(have[p].ring, len)
                                  /\ Filled(have[p].ring, len)
    PROVE  LET rows == Recorded(have, obs, number, at)
           IN  /\ DOMAIN rows = DOMAIN have \cup DOMAIN obs
               /\ IsFiniteSet(DOMAIN rows)
               /\ \A p \in DOMAIN rows : Filled(rows[p].ring, len)
<1> DEFINE rows == Recorded(have, obs, number, at)
<1>1. DOMAIN rows = DOMAIN have \cup DOMAIN obs
  BY DEF Recorded
<1>2. IsFiniteSet(DOMAIN rows)
  BY <1>1, ReadingsFit, FS_Union
<1>3. ASSUME NEW p \in DOMAIN rows PROVE Filled(rows[p].ring, len)
  <2>1. CASE p \notin DOMAIN obs
    <3>1. rows[p] = have[p] /\ p \in DOMAIN have
      BY <1>1, <2>1 DEF Recorded
    <3> QED  BY <3>1
  <2>2. CASE p \in DOMAIN obs
    <3> DEFINE before == IF p \in DOMAIN have THEN have[p]
                         ELSE [ring |-> Blank(len, number), seen |-> at]
    <3>1. rows[p].ring = Absorb(Reshape(before.ring, len), number,
                                AgentReading(obs, p))
      BY <2>2 DEF Recorded
    <3>2. Shaped(before.ring, len) /\ Filled(before.ring, len)
      BY BlankAt, BlankFilled
    <3> HIDE DEF before
    <3>3. /\ Shaped(Reshape(before.ring, len), len)
          /\ Filled(Reshape(before.ring, len), len)
      BY <3>2, ReshapeFollows, ReshapeFilled
    <3>4. AgentReading(obs, p).transitions \in Count
      BY <2>2, ReadingsFit
    <3> QED  BY <3>1, <3>3, <3>4, AbsorbFilled
  <2> QED  BY <2>1, <2>2
<1> QED  BY <1>1, <1>2, <1>3

\* The agents that are left, within the cap.
LEMMA SurvivorsTyped ==
    ASSUME NEW rows, NEW at \in Nat, NEW newest, NEW stamp,
           NoneAhead(rows, newest, stamp), DOMAIN rows \subseteq Nat,
           IsFiniteSet(DOMAIN rows), NEW l,
           \A p \in DOMAIN rows : Filled(rows[p].ring, l), NEW b \in BOOLEAN
    PROVE  LET left == IF b THEN Evicted(rows, at) ELSE NoAgents
           IN  /\ IsFiniteSet(DOMAIN left) /\ Cardinality(DOMAIN left) <= MaxAgents
               /\ DOMAIN left \subseteq DOMAIN rows
               /\ \A p \in DOMAIN left : Filled(left[p].ring, l)
<1>1. CASE b
  <2>1. \A p \in DOMAIN rows : rows[p].seen \in Nat
    BY DEF NoneAhead, AgentRecord
  <2>2. /\ IsFiniteSet(DOMAIN Evicted(rows, at))
        /\ Cardinality(DOMAIN Evicted(rows, at)) <= MaxAgents
    BY <2>1, EvictedCap
  <2>3. /\ DOMAIN Evicted(rows, at) \subseteq DOMAIN rows
        /\ \A p \in DOMAIN Evicted(rows, at) : Evicted(rows, at)[p] = rows[p]
    BY DEF Evicted
  <2> QED  BY <1>1, <2>2, <2>3
<1>2. CASE ~b
  <2>1. DOMAIN NoAgents = {}
    BY DEF NoAgents
  <2>2. 0 <= MaxAgents
    BY RingsAssumption
  <2> QED  BY <1>2, <2>1, <2>2, FS_EmptySet
<1> QED  BY <1>1, <1>2

LEMMA TimesDown ==
    ASSUME NEW t \in Times, NEW u \in Nat, u <= t PROVE u \in Times
  BY Settings DEF Times

LEMMA InitTyped == Init => TypeInv
<1> SUFFICES ASSUME Init PROVE TypeInv
  OBVIOUS
<1>1. HonestInv
  BY InitHonest
<1>2. PICK at \in Stamps, obs \in Observations :
         /\ fine = Absorb(Blank(len, at \div size), at \div size,
                          WorkspaceReading(obs))
         /\ week = Absorb(Blank(WeekLen, at \div WeekSize),
                          at \div WeekSize, WorkspaceReading(obs))
         /\ agents = IF perAgent
                     THEN Evicted(Recorded(NoAgents, obs, at \div size, at), at)
                     ELSE NoAgents
         /\ known = DOMAIN obs
         /\ lastSeen = at /\ now = at /\ taken = 1
         /\ met = [p \in Panes |-> {n \in {at \div size} : p \in Tracked}]
  BY DEF Init
<1> DEFINE number == at \div size
           hour == at \div WeekSize
           rows == Recorded(NoAgents, obs, number, at)
<1>3. /\ len \in Nat \ {0} /\ size \in Nat \ {0}
      /\ WeekLen \in Nat \ {0} /\ WeekSize \in Nat \ {0}
      /\ at \in Times /\ at \in Nat /\ number \in Times /\ number \in Nat
      /\ hour \in Times /\ hour \in Nat
  <2>1. /\ len \in Nat \ {0} /\ size \in Nat \ {0} /\ at \in Times
        /\ WeekLen \in Nat \ {0} /\ WeekSize \in Nat \ {0}
    BY <1>1, Settings, RingsAssumption DEF HonestInv, FineInv
  <2> QED  BY <2>1, Settings, NumberInTimes
<1> HIDE DEF number, hour
<1>4. Filled(fine, len)
  BY <1>2, <1>3, BlankAt, BlankFilled, AbsorbFilled, ReadingsFit DEF number
<1>5. Shaped(week, WeekLen) /\ week.newest \in Times /\ Filled(week, WeekLen)
  BY <1>2, <1>3, BlankAt, BlankFilled, AbsorbAbsorbs, AbsorbFilled, ReadingsFit
     DEF hour
<1>6. /\ DOMAIN NoAgents = {} /\ IsFiniteSet({})
      /\ NoneAhead(rows, number, at)
  BY <1>3, NobodyNotAhead, RecordedNotAhead, FS_EmptySet DEF NoAgents
<1>7. /\ DOMAIN rows = DOMAIN obs /\ IsFiniteSet(DOMAIN rows)
      /\ \A p \in DOMAIN rows : Filled(rows[p].ring, len)
  <2>1. /\ IsFiniteSet(DOMAIN NoAgents)
        /\ \A p \in DOMAIN NoAgents : /\ Shaped(NoAgents[p].ring, len)
                                      /\ Filled(NoAgents[p].ring, len)
    BY <1>6
  <2>2. DOMAIN rows = DOMAIN NoAgents \cup DOMAIN obs
    BY <1>3, <2>1, RecordedFilled
  <2> QED  BY <1>3, <1>6, <2>1, <2>2, RecordedFilled
<1>8. DOMAIN rows \subseteq Nat /\ perAgent \in BOOLEAN
  BY <1>7, ReadingsFit, RingsAssumption DEF Init
<1>9. agents = IF perAgent THEN Evicted(rows, at) ELSE NoAgents
  BY <1>2 DEF number
<1> HIDE DEF rows
<1>10. /\ IsFiniteSet(Tracked) /\ Cardinality(Tracked) <= MaxAgents
       /\ \A p \in Tracked : Filled(agents[p].ring, len)
  BY <1>3, <1>6, <1>7, <1>8, <1>9, SurvivorsTyped DEF Tracked
<1>11. /\ known \subseteq Panes /\ now \in Times /\ taken \in 1..MaxSamples
       /\ met \in [Panes -> SUBSET Times]
  BY <1>2, <1>3, ReadingsFit, RingsAssumption DEF number
<1>12. lagging \subseteq Tracked
  BY DEF Init
<1> QED  BY <1>1, <1>4, <1>5, <1>8, <1>10, <1>11, <1>12 DEF TypeInv

LEMMA ObserveTyped ==
    ASSUME TypeInv, NEW at \in Stamps, NEW obs \in Observations,
           Observe(at, obs)
    PROVE  TypeInv'
<1> DEFINE number == at \div size
           hour == at \div WeekSize
           rewound == number < fine.newest
           have == IF rewound THEN RewindAgents(number, at) ELSE agents
           rows == Recorded(have, obs, number, at)
<1>1. HonestInv /\ HonestInv'
  BY ObserveHonest DEF TypeInv
<1>2. /\ fine' = Absorb(fine, number, WorkspaceReading(obs))
      /\ week' = Absorb(week, hour, WorkspaceReading(obs))
      /\ agents' = IF perAgent THEN Evicted(rows, at) ELSE NoAgents
      /\ known' = DOMAIN obs
      /\ now' = at /\ taken < MaxSamples /\ taken' = taken + 1
      /\ met' = [p \in Panes |->
                   IF p \notin DOMAIN agents' THEN {}
                   ELSE {n \in met[p] : n <= number}
                          \cup {n \in {number} : p \in DOMAIN obs}]
      /\ lagging' \subseteq DOMAIN agents'
      /\ len' = len /\ perAgent' = perAgent
  BY DEF Observe, conf
<1>3. /\ len \in Nat \ {0} /\ size \in Nat \ {0}
      /\ WeekLen \in Nat \ {0} /\ WeekSize \in Nat \ {0}
      /\ at \in Times /\ at \in Nat /\ number \in Times /\ number \in Nat
      /\ hour \in Times /\ hour \in Nat
  <2>1. /\ len \in Nat \ {0} /\ size \in Nat \ {0} /\ at \in Times
        /\ WeekLen \in Nat \ {0} /\ WeekSize \in Nat \ {0}
    BY <1>1, Settings, RingsAssumption DEF HonestInv, FineInv
  <2> QED  BY <2>1, Settings, NumberInTimes
<1> HIDE DEF number, hour
<1>4. Filled(fine', len)
  BY <1>1, <1>2, <1>3, AbsorbFilled, ReadingsFit DEF TypeInv, HonestInv, FineInv
<1>5. Shaped(week', WeekLen) /\ week'.newest \in Times /\ Filled(week', WeekLen)
  BY <1>2, <1>3, AbsorbAbsorbs, AbsorbFilled, ReadingsFit DEF TypeInv
<1>6. /\ DOMAIN have = Tracked
      /\ \A p \in Tracked : Shaped(have[p].ring, len) /\ Filled(have[p].ring, len)
  <2>1. \A p \in Tracked :
           Shaped(agents[p].ring, len) /\ Filled(agents[p].ring, len)
    BY <1>1 DEF HonestInv, TypeInv
  <2>2. CASE rewound
    <3>1. \A p \in Tracked : have[p].ring = Rewind(agents[p].ring, number)
      BY <2>2 DEF RewindAgents
    <3> QED  BY <1>3, <2>1, <2>2, <3>1, RewindFilled DEF RewindAgents
  <2>3. CASE ~rewound
    BY <2>1, <2>3 DEF Tracked
  <2> QED  BY <2>2, <2>3
<1>7. NoneAhead(rows, number, lastSeen') /\ lastSeen' \in Nat
  <2>1. /\ lastSeen' = IF rewound THEN at ELSE Most(lastSeen, at)
        /\ AheadInv
    BY <1>1 DEF Observe, HonestInv, number
  <2>2. lastSeen' \in Nat /\ at <= lastSeen'
    BY <1>3, <2>1 DEF Most, AheadInv
  <2>3. NoneAhead(have, number, lastSeen')
    <3>1. CASE rewound
      BY <3>1, <1>3, <2>1, RewindNotAhead
    <3>2. CASE ~rewound
      BY <3>2, <1>3, <2>1 DEF AheadInv, NoneAhead, AgentRecord, RingRecord, Most
    <3> QED  BY <3>1, <3>2
  <2> HIDE DEF have
  <2> QED  BY <1>3, <2>2, <2>3, RecordedNotAhead
<1> HIDE DEF have
<1>8. /\ DOMAIN rows = Tracked \cup DOMAIN obs /\ IsFiniteSet(DOMAIN rows)
      /\ \A p \in DOMAIN rows : Filled(rows[p].ring, len)
  BY <1>3, <1>6, RecordedFilled DEF TypeInv
<1>9. DOMAIN rows \subseteq Nat /\ perAgent \in BOOLEAN
  BY <1>1, <1>8, ReadingsFit, RingsAssumption DEF TypeInv, HonestInv
<1> HIDE DEF rows
<1>10. /\ IsFiniteSet(DOMAIN agents') /\ Cardinality(DOMAIN agents') <= MaxAgents
       /\ \A p \in DOMAIN agents' : Filled(agents'[p].ring, len)
  BY <1>2, <1>3, <1>7, <1>8, <1>9, SurvivorsTyped
<1>11. /\ known' \subseteq Panes /\ now' \in Times
       /\ met' \in [Panes -> SUBSET Times]
  BY <1>2, <1>3, ReadingsFit DEF TypeInv
<1>12. taken' \in 1..MaxSamples
  BY <1>2, RingsAssumption DEF TypeInv
<1>13. Tracked' = DOMAIN agents'
  BY DEF Tracked
<1> QED  BY <1>1, <1>2, <1>4, <1>5, <1>9, <1>10, <1>11, <1>12, <1>13 DEF TypeInv

LEMMA ReloadTyped ==
    ASSUME TypeInv, NEW l \in Lens, NEW s \in Sizes, NEW a \in BOOLEAN,
           NEW others \in BOOLEAN, Reload(l, s, a, others)
    PROVE  TypeInv'
<1>1. HonestInv /\ HonestInv'
  BY ReloadHonest DEF TypeInv
<1>2. /\ len' = l /\ perAgent' = a
      /\ agents' = IF s = size /\ a
                   THEN [p \in Tracked |->
                           [agents[p] EXCEPT !.ring = Reshape(@, l)]]
                   ELSE NoAgents
      /\ met' = [p \in Panes |-> IF p \in DOMAIN agents' THEN met[p] ELSE {}]
      /\ lagging' \subseteq DOMAIN agents'
      /\ UNCHANGED <<week, known, lastSeen, now, taken>>
  BY DEF Reload
<1>3. /\ l \in Nat \ {0} /\ size \in Nat \ {0} /\ s \in Nat \ {0}
      /\ Shaped(fine, len) /\ lastSeen \div s \in Nat
  <2>1. lastSeen \div s \in Times
    BY <1>1, Settings, NumberInTimes DEF HonestInv, FineInv
  <2> QED  BY <1>1, <2>1, Settings DEF HonestInv, FineInv
<1>4. Filled(fine', l)
  <2>1. CASE fine' = Reshape(fine, l)
    BY <1>3, <2>1, ReshapeFilled DEF TypeInv
  <2>2. CASE s > size /\ fine' = Coarsened(fine, s \div size, l)
    <3>1. s \div size \in Nat \ {0}
      BY <1>3, <2>2
    <3> QED  BY <1>3, <2>2, <3>1, CoarsenedFilled DEF TypeInv
  <2>3. CASE fine' = Blank(l, lastSeen \div s)
    BY <1>3, <2>3, BlankFilled
  <2> QED  BY <2>1, <2>2, <2>3 DEF Reload
<1>5. Tracked' = DOMAIN agents' /\ Tracked' \subseteq Tracked
  BY <1>2 DEF Tracked, NoAgents
<1>6. /\ IsFiniteSet(Tracked') /\ Cardinality(Tracked') <= MaxAgents
  <2>1. /\ IsFiniteSet(Tracked') /\ Cardinality(Tracked') <= Cardinality(Tracked)
        /\ Cardinality(Tracked') \in Nat /\ Cardinality(Tracked) \in Nat
    BY <1>5, FS_Subset, FS_CardinalityType DEF TypeInv
  <2> QED  BY <2>1, RingsAssumption DEF TypeInv
<1>7. ASSUME NEW p \in Tracked' PROVE Filled(agents'[p].ring, l)
  <2>1. AgentRecord(agents[p]) /\ Shaped(agents[p].ring, len)
        /\ Filled(agents[p].ring, len)
    BY <1>1, <1>5 DEF TypeInv, HonestInv, AheadInv, NoneAhead, Tracked
  <2>2. agents'[p] = [agents[p] EXCEPT !.ring = Reshape(agents[p].ring, l)]
    BY <1>2, <1>5 DEF NoAgents, Tracked
  <2>3. agents'[p].ring = Reshape(agents[p].ring, l)
    BY <2>1, <2>2 DEF AgentRecord
  <2> QED  BY <1>3, <2>1, <2>3, ReshapeFilled
<1>8. met' \in [Panes -> SUBSET Times]
  BY <1>2 DEF TypeInv
<1> QED  BY <1>1, <1>2, <1>4, <1>5, <1>6, <1>7, <1>8 DEF TypeInv

LEMMA NextTyped == TypeInv /\ [Next]_vars => TypeInv'
<1> SUFFICES ASSUME TypeInv, [Next]_vars PROVE TypeInv'
  OBVIOUS
<1>1. ASSUME NEW at \in Stamps, NEW obs \in Observations, Observe(at, obs)
      PROVE  TypeInv'
  BY <1>1, ObserveTyped
<1>2. ASSUME NEW l \in Lens, NEW s \in Sizes, NEW a \in BOOLEAN,
             NEW others \in BOOLEAN, Reload(l, s, a, others)
      PROVE  TypeInv'
  BY <1>2, ReloadTyped
<1>3. CASE UNCHANGED vars
  <2>1. HonestInv'
    BY <1>3, NextHonest DEF TypeInv
  <2> QED  BY <1>3, <2>1 DEF vars, conf, ghosts, TypeInv, Tracked
<1> QED  BY <1>1, <1>2, <1>3 DEF Next

LEMMA TypeInvTypes == TypeInv => TypeOK
<1> SUFFICES ASSUME TypeInv PROVE TypeOK
  OBVIOUS
<1>1. ASSUME NEW r, NEW l, Shaped(r, l), Filled(r, l), r.newest \in Times
      PROVE  IsRing(r, l)
  <2>1. r.len = l /\ r.buckets = [i \in 0..l-1 |-> r.buckets[i]]
    BY <1>1 DEF Shaped
  <2>2. r.buckets \in [0..l-1 -> Bucket]
    BY <1>1, <2>1 DEF Filled
  <2> QED  BY <1>1, <2>1, <2>2 DEF IsRing
<1>2. \A p \in Tracked : IsRing(agents[p].ring, len) /\ agents[p].seen \in Times
  <2> SUFFICES ASSUME NEW p \in Tracked
               PROVE  IsRing(agents[p].ring, len) /\ agents[p].seen \in Times
    OBVIOUS
  <2>1. /\ Shaped(agents[p].ring, len) /\ Filled(agents[p].ring, len)
        /\ agents[p].ring.newest \in Nat /\ agents[p].ring.newest <= fine.newest
        /\ agents[p].seen \in Nat /\ agents[p].seen <= lastSeen
        /\ fine.newest \in Times /\ lastSeen \in Times
    BY DEF TypeInv, HonestInv, FineInv, AheadInv, NoneAhead, Tracked,
           AgentRecord, RingRecord
  <2>2. agents[p].ring.newest \in Times /\ agents[p].seen \in Times
    BY <2>1, TimesDown
  <2> QED  BY <1>1, <2>1, <2>2
<1>3. IsRing(fine, len) /\ IsRing(week, WeekLen)
  BY <1>1 DEF TypeInv, HonestInv, FineInv
<1> QED  BY <1>2, <1>3 DEF TypeOK, TypeInv, HonestInv, FineInv

\* Every slot of every ring holds a bucket whose counters fit u16, no ring is
\* longer than configured, and the cap on agents holds (evict_agents).
THEOREM TypesHold == Spec => []TypeOK
<1> QED  BY InitTyped, NextTyped, TypeInvTypes, PTL DEF Spec

-----------------------------------------------------------------------------
(* Who an eviction falls on.                                               *)

\* Inductive, and for the samples: nobody's stamp is ahead of theirs.
StayInv == TypeInv /\ SampledAgentsStay

LEMMA ObserveStay ==
    ASSUME StayInv, NEW at \in Stamps, NEW obs \in Observations,
           Observe(at, obs)
    PROVE  SampledAgentsStay'
<1> DEFINE number == at \div size
           rewound == number < fine.newest
           have == IF rewound THEN RewindAgents(number, at) ELSE agents
           rows == Recorded(have, obs, number, at)
<1> SUFFICES ASSUME lastSeen' = now', NEW q \in known' \ Tracked',
                    NEW p \in Tracked' \ known'
             PROVE  agents'[p].seen = now'
  BY DEF SampledAgentsStay
<1>1. /\ agents' = IF perAgent THEN Evicted(rows, at) ELSE NoAgents
      /\ known' = DOMAIN obs /\ now' = at
      /\ lastSeen' = IF rewound THEN at ELSE Most(lastSeen, at)
  BY DEF Observe
<1>2. at \in Nat /\ number \in Nat /\ AheadInv /\ lastSeen' = at
      /\ IsFiniteSet(Tracked) /\ IsFiniteSet(DOMAIN obs) /\ MaxAgents \in Nat
  <2>1. at \in Times /\ size \in Nat \ {0} /\ FineInv /\ AheadInv
    BY Settings DEF StayInv, TypeInv, HonestInv, FineInv
  <2> QED  BY <1>1, <2>1, Settings, NumberInTimes, ReadingsFit, RingsAssumption
           DEF StayInv, TypeInv
<1>3. NoneAhead(rows, number, at)
  <2>1. NoneAhead(have, number, at)
    <3>1. CASE rewound
      BY <3>1, <1>2, RewindNotAhead
    <3>2. CASE ~rewound
      BY <3>2, <1>1, <1>2 DEF AheadInv, NoneAhead, AgentRecord, RingRecord, Most
    <3> QED  BY <3>1, <3>2
  <2> HIDE DEF have
  <2> QED  BY <1>2, <2>1, RecordedNotAhead
<1>4. DOMAIN rows = Tracked \cup DOMAIN obs
  BY DEF Recorded, RewindAgents, Tracked
<1>5. rows[q].seen = at
  <2>1. q \in DOMAIN obs /\ q \in DOMAIN rows
    BY <1>1, <1>4
  <2>2. rows[q].seen \in Nat /\ rows[q].seen <= at
    BY <1>3, <2>1 DEF NoneAhead, AgentRecord
  <2>3. \E before : rows[q].seen = Most(before, at)
    BY <2>1 DEF Recorded
  <2> QED  BY <1>2, <2>2, <2>3 DEF Most
<1> HIDE DEF rows
<1> DEFINE up(x) == {y \in DOMAIN rows : GoesBefore(rows, at, x, y)}
<1>6. /\ perAgent /\ p \in DOMAIN rows /\ agents'[p] = rows[p]
      /\ Cardinality(up(p)) < MaxAgents
      /\ q \in DOMAIN rows /\ ~(Cardinality(up(q)) < MaxAgents)
  BY <1>1, <1>4 DEF Tracked, Evicted, NoAgents
<1>7. rows[p].seen \in Nat /\ rows[p].seen <= at
  BY <1>3, <1>6 DEF NoneAhead, AgentRecord
<1>8. CASE rows[p].seen = at
  BY <1>1, <1>6, <1>8
<1>9. CASE rows[p].seen < at
  <2>1. up(q) \subseteq up(p)
    <3> SUFFICES ASSUME NEW y \in DOMAIN rows, GoesBefore(rows, at, q, y)
                 PROVE  GoesBefore(rows, at, p, y)
      OBVIOUS
    <3>1. rows[y].seen \in Nat /\ rows[y].seen <= at
      BY <1>3 DEF NoneAhead, AgentRecord
    <3> QED  BY <1>2, <1>5, <1>7, <1>9, <3>1 DEF GoesBefore
  <2>2. IsFiniteSet(DOMAIN rows)
    BY <1>2, <1>4, FS_Union
  <2>3. IsFiniteSet(up(p)) /\ IsFiniteSet(up(q))
    BY <2>2, FS_Subset
  <2> HIDE DEF up
  <2>4. Cardinality(up(q)) <= Cardinality(up(p))
    BY <2>1, <2>3, FS_Subset
  <2>5. Cardinality(up(p)) \in Nat /\ Cardinality(up(q)) \in Nat
    BY <2>3, FS_CardinalityType
  <2> QED  BY <1>2, <1>6, <2>4, <2>5
<1> QED  BY <1>2, <1>7, <1>8, <1>9

LEMMA ReloadStay ==
    ASSUME StayInv, NEW l \in Lens, NEW s \in Sizes, NEW a \in BOOLEAN,
           NEW others \in BOOLEAN, Reload(l, s, a, others)
    PROVE  SampledAgentsStay'
<1>1. /\ agents' = IF s = size /\ a
                   THEN [p \in Tracked |->
                           [agents[p] EXCEPT !.ring = Reshape(@, l)]]
                   ELSE NoAgents
      /\ UNCHANGED <<known, lastSeen, now>>
  BY DEF Reload
<1>2. CASE s = size /\ a
  <2>1. ASSUME NEW p \in Tracked PROVE agents'[p].seen = agents[p].seen
    <3>1. agents[p] = [ring |-> agents[p].ring, seen |-> agents[p].seen]
      BY DEF StayInv, TypeInv, HonestInv, AheadInv, NoneAhead, Tracked, AgentRecord
    <3>2. agents'[p] = [agents[p] EXCEPT !.ring = Reshape(agents[p].ring, l)]
      BY <1>1, <1>2
    <3> QED  BY <3>1, <3>2
  <2>2. Tracked' = Tracked
    BY <1>1, <1>2 DEF Tracked
  <2> QED  BY <1>1, <2>1, <2>2 DEF StayInv, SampledAgentsStay
<1>3. CASE ~(s = size /\ a)
  <2>1. Tracked' = {}
    BY <1>1, <1>3 DEF Tracked, NoAgents
  <2> QED  BY <2>1 DEF SampledAgentsStay
<1> QED  BY <1>2, <1>3

LEMMA InitStay == Init => StayInv
<1> SUFFICES ASSUME Init PROVE StayInv
  OBVIOUS
<1>1. TypeInv
  BY InitTyped
<1>2. Tracked \subseteq known
  BY DEF Init, Tracked, Evicted, Recorded, NoAgents
<1> QED  BY <1>1, <1>2 DEF StayInv, SampledAgentsStay

LEMMA NextStay == StayInv /\ [Next]_vars => StayInv'
<1> SUFFICES ASSUME StayInv, [Next]_vars PROVE StayInv'
  OBVIOUS
<1>1. ASSUME NEW at \in Stamps, NEW obs \in Observations, Observe(at, obs)
      PROVE  StayInv'
  BY <1>1, ObserveTyped, ObserveStay DEF StayInv
<1>2. ASSUME NEW l \in Lens, NEW s \in Sizes, NEW a \in BOOLEAN,
             NEW others \in BOOLEAN, Reload(l, s, a, others)
      PROVE  StayInv'
  BY <1>2, ReloadTyped, ReloadStay DEF StayInv
<1>3. CASE UNCHANGED vars
  <2>1. TypeInv'
    BY <1>3, NextTyped DEF StayInv
  <2> QED  BY <1>3, <2>1 DEF vars, conf, ghosts, StayInv, SampledAgentsStay, Tracked
<1> QED  BY <1>1, <1>2, <1>3 DEF Next

\* An agent of the last sample is only evicted for agents with stamps as recent
\* (observe_agents, evict_agents).  This says nothing of a sample the clock
\* stepped back to within a bucket (lastSeen # now), and where stamps are equal
\* the pane id decides.
THEOREM SampledStay == Spec => []SampledAgentsStay
<1>1. StayInv => SampledAgentsStay
  BY DEF StayInv
<1> QED  BY InitStay, NextStay, <1>1, PTL DEF Spec

-----------------------------------------------------------------------------
(* Windows and columns.                                                    *)

\* A rounded share of at most k is at most k.
LEMMA RoundedShare ==
    ASSUME NEW k \in Nat, NEW d \in Nat \ {0}, NEW x \in Nat, x <= k * d
    PROVE  (x + d \div 2) \div d \in Nat /\ (x + d \div 2) \div d <= k
<1> DEFINE half == d \div 2
           y == x + half
           share == y \div d
<1>1. half \in Nat /\ half < d
  OBVIOUS
<1> HIDE DEF half
<1>2. y \in Nat
  BY <1>1
<1> HIDE DEF y
<1>3. share \in Nat /\ y = d * share + (y % d) /\ y % d \in 0..d-1
  BY <1>2, DivMod
<1> HIDE DEF share
<1>4. ASSUME k < share PROVE FALSE
  <2>1. share - k - 1 \in Nat
    BY <1>3, <1>4
  <2>2. PICK j \in Nat : share = k + 1 + j
    <3>1. share = k + 1 + (share - k - 1)
      BY <1>3
    <3> QED  BY <2>1, <3>1
  <2>3. d * share = k * d + d + d * j /\ d * j \in Nat /\ k * d \in Nat
    BY <2>2
  <2> QED  BY <1>1, <1>3, <2>3 DEF y
<1>5. share \in Nat /\ share <= k
  BY <1>3, <1>4
<1> QED  BY <1>5 DEF share, y, half

\* What a bar is drawn from, column k counted from the newest.
LEMMA InColumn ==
    ASSUME NEW r, NEW l, Shaped(r, l), NEW wanted \in Nat, NEW columns \in Nat \ {0},
           NEW per \in Nat \ {0}, NEW k \in 0..columns-1,
           NEW n \in Nat, Observed(At(r, n))
    PROVE  n \in ColumnRange(r, wanted, columns, columns - 1 - k, per)
             <=> n + k * per <= wanted /\ wanted < n + k * per + per
<1> DEFINE back == k * per
           last == wanted - back
<1>1. columns - 1 - (columns - 1 - k) = k /\ back \in Nat
  OBVIOUS
<1>2. ColumnRange(r, wanted, columns, columns - 1 - k, per)
        = IF back > wanted THEN {}
          ELSE Most(Monus(last, per - 1), Monus(r.newest, r.len - 1))
                 .. Least(last, r.newest)
  BY <1>1 DEF ColumnRange
<1>3. InLap(r.newest, l, n) /\ r.len = l /\ r.newest \in Nat /\ l \in Nat \ {0}
  BY GapUnseen, AtIs DEF Shaped
<1> HIDE DEF back
<1>4. CASE back > wanted
  BY <1>1, <1>2, <1>4 DEF back
<1>5. CASE back <= wanted
  <2>1. last \in Nat
    BY <1>1, <1>5
  <2>2. wanted = last + back
    BY <1>1, <1>5
  <2> HIDE DEF last
  <2>3. n \in ColumnRange(r, wanted, columns, columns - 1 - k, per)
          <=> n <= last /\ last < n + per
    BY <1>1, <1>2, <1>3, <1>5, <2>1 DEF Most, Least, Monus, InLap
  <2>4. (n + back <= wanted <=> n <= last)
        /\ (wanted < n + back + per <=> last < n + per)
    BY <1>1, <2>1, <2>2
  <2> QED  BY <2>3, <2>4 DEF back
<1> QED  BY <1>1, <1>4, <1>5

\* The columns of a window are the window.
LEMMA ColumnsTile ==
    ASSUME NEW r, NEW l, Shaped(r, l), NEW wanted \in Nat, NEW columns \in Nat \ {0},
           NEW per \in Nat \ {0}, NEW n \in Nat, Observed(At(r, n))
    PROVE  (\E c \in 0..columns-1 : n \in ColumnRange(r, wanted, columns, c, per))
             <=> n <= wanted /\ wanted < n + columns * per
<1>1. ASSUME NEW c \in 0..columns-1,
             n \in ColumnRange(r, wanted, columns, c, per)
      PROVE  n <= wanted /\ wanted < n + columns * per
  <2> DEFINE k == columns - 1 - c
  <2>1. k \in 0..columns-1 /\ columns - 1 - k = c
    OBVIOUS
  <2> HIDE DEF k
  <2>2. n + k * per <= wanted /\ wanted < n + k * per + per
    BY <1>1, <2>1, InColumn
  <2>3. PICK j \in Nat : columns = k + 1 + j
    <3>1. columns - 1 - k \in Nat /\ columns = k + 1 + (columns - 1 - k)
      BY <2>1
    <3> QED  BY <3>1
  <2>4. columns * per = k * per + per + j * per /\ k * per \in Nat /\ j * per \in Nat
    BY <2>1, <2>3
  <2> QED  BY <2>2, <2>4
<1>2. ASSUME n <= wanted, wanted < n + columns * per
      PROVE  \E c \in 0..columns-1 : n \in ColumnRange(r, wanted, columns, c, per)
  <2> DEFINE k == (wanted - n) \div per
             rest == (wanted - n) % per
  <2>1. k \in Nat /\ rest \in 0..per-1 /\ wanted - n = per * k + rest
    <3>1. wanted - n \in Nat
      BY <1>2
    <3> QED  BY <3>1, DivMod
  <2> HIDE DEF k, rest
  <2>2. k < columns
    <3> SUFFICES ASSUME columns <= k PROVE FALSE
      BY <2>1
    <3>1. PICK j \in Nat : k = columns + j
      <4>1. k - columns \in Nat /\ k = columns + (k - columns)
        BY <2>1
      <4> QED  BY <4>1
    <3>2. per * k = columns * per + per * j /\ per * j \in Nat /\ columns * per \in Nat
      BY <3>1
    <3> QED  BY <1>2, <2>1, <3>2
  <2>3. k * per = per * k /\ k * per \in Nat /\ k \in 0..columns-1
    BY <2>1, <2>2
  <2>4. n + k * per <= wanted /\ wanted < n + k * per + per
    BY <2>1, <2>3
  <2>5. n \in ColumnRange(r, wanted, columns, columns - 1 - k, per)
    BY <2>3, <2>4, InColumn
  <2>6. columns - 1 - k \in 0..columns-1
    BY <2>3
  <2> QED  BY <2>5, <2>6
<1> QED  BY <1>1, <1>2

LEMMA LevelBounded ==
    ASSUME NEW b \in Bucket PROVE Level(b) \in 0..MaxLevel
<1> DEFINE working == Least(b.working, b.samples)
           occupancy == (working * OccupancySteps + b.samples \div 2) \div b.samples
           churn == IF b.transitions = 0 THEN 0 ELSE IF b.transitions <= 2 THEN 1 ELSE 2
<1>1. Level(b) = IF Observed(b) THEN Least(occupancy + churn, MaxLevel) ELSE 0
  BY DEF Level
<1>2. b.samples \in Nat /\ b.working \in Nat
  BY BucketAssumption DEF Bucket, Count
<1>3. ASSUME Observed(b) PROVE occupancy \in Nat
  <2>1. b.samples \in Nat \ {0} /\ working \in Nat /\ working <= b.samples
    BY <1>2, <1>3 DEF Observed, Least
  <2> HIDE DEF working
  <2>2. working * OccupancySteps \in Nat
        /\ working * OccupancySteps <= OccupancySteps * b.samples
        /\ OccupancySteps \in Nat
    BY <2>1 DEF OccupancySteps
  <2> QED  BY <2>1, <2>2, RoundedShare
<1>4. churn \in Nat
  OBVIOUS
<1> HIDE DEF occupancy, churn
<1> QED  BY <1>1, <1>3, <1>4 DEF Least, MaxLevel

\* A column says something exactly when one of its buckets was watched.
LEMMA ColumnSays ==
    ASSUME NEW r, NEW l, Shaped(r, l), Filled(r, l), NEW numbers,
           numbers \subseteq Nat, IsFiniteSet(numbers)
    PROVE  Column(r, numbers) = NoLevel <=> Watched(r, numbers) = {}
<1> DEFINE seen == Watched(r, numbers)
           levels == [n \in seen |-> Level(At(r, n))]
           total == SumFunction(levels)
           count == Cardinality(seen)
<1>1. Column(r, numbers) = IF seen = {} THEN NoLevel
                           ELSE (total + count \div 2) \div count
  BY DEF Column
<1>2. seen \subseteq Nat /\ IsFiniteSet(seen)
  BY FS_Subset DEF Watched
<1> HIDE DEF seen
<1>3. \A n \in seen : Level(At(r, n)) \in 0..MaxLevel
  BY <1>2, AtIsBucket, LevelBounded
<1>4. levels \in [seen -> Nat] /\ \A n \in seen : levels[n] <= MaxLevel
  BY <1>3 DEF MaxLevel
<1> HIDE DEF levels
<1>5. total \in Nat /\ count \in Nat /\ total <= MaxLevel * count
  BY <1>2, <1>4, SumBounded DEF MaxLevel
<1>6. seen # {} => count # 0
  BY <1>2, FS_EmptySet
<1> HIDE DEF total, count
<1>7. ASSUME seen # {} PROVE (total + count \div 2) \div count <= MaxLevel
  BY <1>5, <1>6, <1>7, RoundedShare DEF MaxLevel
<1>8. ASSUME seen # {} PROVE (total + count \div 2) \div count \in Nat
  BY <1>5, <1>6, <1>8, RoundedShare DEF MaxLevel
<1> QED  BY <1>1, <1>7, <1>8 DEF NoLevel, MaxLevel, seen

\* However it is cut, for any number and width of columns.
LEMMA AnyWindowAgrees ==
    ASSUME TypeInv, NEW wanted \in Nat, NEW columns \in Nat \ {0},
           NEW per \in Nat \ {0}
    PROVE  WindowAgrees(wanted, columns, per)
<1> DEFINE range(c) == ColumnRange(fine, wanted, columns, c, per)
           inWindow == {n \in Times : /\ n <= wanted
                                      /\ wanted < n + columns * per
                                      /\ Observed(At(fine, n))}
           figures == BlockedAndWatched(fine, wanted, columns * per, size)
           all == Most(Monus(wanted, columns * per - 1),
                       Monus(fine.newest, fine.len - 1))
                    .. Least(wanted, fine.newest)
           seen == Watched(fine, all)
           blocked == [n \in seen |->
                        (size * Least(At(fine, n).blocked, At(fine, n).samples)
                           + At(fine, n).samples \div 2) \div At(fine, n).samples]
<1>1. /\ Shaped(fine, len) /\ Filled(fine, len) /\ fine.newest \in Nat
      /\ fine.newest \in Times /\ size \in Nat \ {0} /\ fine.len = len
      /\ len \in Nat \ {0}
  BY Settings DEF TypeInv, HonestInv, FineInv, Shaped
<1>2. ASSUME NEW n \in Nat, Observed(At(fine, n))
      PROVE  InLap(fine.newest, len, n) /\ n \in Times
  <2>1. InLap(fine.newest, len, n)
    BY <1>1, <1>2, GapUnseen, AtIs
  <2> QED  BY <1>1, <2>1, TimesDown DEF InLap
<1>3. /\ \A c \in 0..columns-1 : range(c) \subseteq Nat /\ IsFiniteSet(range(c))
  <2> SUFFICES ASSUME NEW c \in 0..columns-1
               PROVE  range(c) \subseteq Nat /\ IsFiniteSet(range(c))
    OBVIOUS
  <2> DEFINE back == (columns - 1 - c) * per
             last == wanted - back
             low == Most(Monus(last, per - 1), Monus(fine.newest, fine.len - 1))
             high == Least(last, fine.newest)
  <2>1. range(c) = IF back > wanted THEN {} ELSE low .. high
    BY DEF ColumnRange
  <2>2. back \in Nat
    <3>1. columns - 1 - c \in Nat
      OBVIOUS
    <3> QED  BY <3>1
  <2> HIDE DEF back
  <2>3. last \in Int
    BY <2>2
  <2> HIDE DEF last
  <2>4. low \in Nat /\ high \in Int
    BY <1>1, <2>3 DEF Most, Monus, Least
  <2> HIDE DEF low, high
  <2>5. IsFiniteSet(low..high) /\ low..high \subseteq Nat
    BY <2>4, FS_Interval
  <2> QED  BY <2>1, <2>5, FS_EmptySet
<1>4. UNION {Watched(fine, range(c)) : c \in 0..columns-1} = inWindow
  <2>1. ASSUME NEW n, n \in inWindow
        PROVE  \E c \in 0..columns-1 : n \in Watched(fine, range(c))
    <3>1. n \in Nat /\ Observed(At(fine, n))
          /\ n <= wanted /\ wanted < n + columns * per
      BY <2>1, Settings
    <3>2. PICK c \in 0..columns-1 : n \in range(c)
      BY <1>1, <3>1, ColumnsTile
    <3> QED  BY <3>1, <3>2 DEF Watched
  <2>2. ASSUME NEW c \in 0..columns-1, NEW n, n \in Watched(fine, range(c))
        PROVE  n \in inWindow
    <3>1. n \in Nat /\ n \in range(c) /\ Observed(At(fine, n))
      BY <1>3, <2>2 DEF Watched
    <3>2. n <= wanted /\ wanted < n + columns * per
      BY <1>1, <3>1, ColumnsTile
    <3> QED  BY <1>2, <3>1, <3>2
  <2> HIDE DEF range, inWindow
  <2> QED  BY <2>1, <2>2
<1>5. seen = inWindow /\ IsFiniteSet(inWindow)
  <2> DEFINE window == columns * per
  <2>1. window \in Nat \ {0}
    OBVIOUS
  <2> DEFINE low == Most(Monus(wanted, window - 1), Monus(fine.newest, fine.len - 1))
             high == Least(wanted, fine.newest)
  <2> HIDE DEF window
  <2>2. ASSUME NEW n \in Nat, InLap(fine.newest, len, n)
        PROVE  n \in low..high <=> n <= wanted /\ wanted < n + window
    BY <1>1, <2>1, <2>2 DEF InLap, Most, Least, Monus
  <2>3. low \in Nat /\ high \in Nat
    BY <1>1, <2>1 DEF Most, Least, Monus
  <2> HIDE DEF low, high
  <2>4. IsFiniteSet(low..high) /\ low..high \subseteq Nat
    BY <2>3, FS_Interval
  <2>5. Watched(fine, low..high) = {n \in Times : /\ n <= wanted /\ wanted < n + window
                                                  /\ Observed(At(fine, n))}
    BY <1>2, <2>2, <2>4, Settings DEF Watched
  <2>6. IsFiniteSet(Watched(fine, low..high))
    BY <2>4, FS_Subset DEF Watched
  <2> QED  BY <2>5, <2>6 DEF low, high, window
<1>6. figures = [blocked |-> SumFunction(blocked), watched |-> size * Cardinality(seen)]
  BY DEF BlockedAndWatched
<1>7. figures.watched = size * Cardinality(inWindow)
  <2> HIDE DEF figures, seen, inWindow, blocked
  <2> QED  BY <1>5, <1>6
<1>8. blocked \in [seen -> Nat] /\ \A n \in seen : blocked[n] <= size
  <2> SUFFICES ASSUME NEW n \in seen
               PROVE  blocked[n] \in Nat /\ blocked[n] <= size
    <3> HIDE DEF seen
    <3> QED  OBVIOUS
  <2> DEFINE samples == At(fine, n).samples
             part == Least(At(fine, n).blocked, samples)
  <2>1. n \in Nat /\ Observed(At(fine, n))
    BY <1>5, Settings
  <2>2. At(fine, n) \in Bucket
    BY <1>1, <2>1, AtIsBucket
  <2>3. samples \in Nat \ {0} /\ part \in Nat /\ part <= samples
    BY <2>1, <2>2, BucketAssumption DEF Bucket, Count, Observed, Least
  <2>4. blocked[n] = (size * part + samples \div 2) \div samples
    <3> HIDE DEF seen
    <3> QED  OBVIOUS
  <2> HIDE DEF samples, part, blocked
  <2>5. size * part \in Nat /\ size * part <= size * samples
    <3>1. PICK j \in Nat : samples = part + j
      <4>1. samples - part \in Nat /\ samples = part + (samples - part)
        BY <2>3
      <4> QED  BY <4>1
    <3>2. size * samples = size * part + size * j /\ size * j \in Nat
          /\ size * part \in Nat
      BY <1>1, <2>3, <3>1
    <3> QED  BY <3>2
  <2> QED  BY <1>1, <2>3, <2>4, <2>5, RoundedShare
<1>9. figures.blocked <= figures.watched
  <2> HIDE DEF seen, inWindow, blocked, figures
  <2>1. SumFunction(blocked) <= size * Cardinality(seen)
    BY <1>1, <1>5, <1>8, SumBounded
  <2> QED  BY <1>6, <2>1
<1>10. figures.watched = 0 <=> inWindow = {}
  <2> HIDE DEF seen, inWindow, figures
  <2>1. Cardinality(inWindow) \in Nat
        /\ (Cardinality(inWindow) = 0 <=> inWindow = {})
    BY <1>5, FS_CardinalityType, FS_EmptySet
  <2> QED  BY <1>1, <1>7, <2>1
<1>11. ASSUME NEW c \in 0..columns-1
       PROVE  Series(fine, wanted, columns, per)[c] = NoLevel
                <=> Watched(fine, range(c)) = {}
  <2>1. Series(fine, wanted, columns, per)[c] = Column(fine, range(c))
    BY DEF Series
  <2> HIDE DEF range
  <2> QED  BY <1>1, <1>3, <2>1, ColumnSays
<1> HIDE DEF range, inWindow, figures
<1>12. inWindow = {} <=> \A c \in 0..columns-1 : Watched(fine, range(c)) = {}
  BY <1>4
<1> QED  BY <1>4, <1>7, <1>9, <1>10, <1>11, <1>12
         DEF WindowAgrees, range, inWindow, figures

\* The bars and the figures beside them are of the same buckets (column_range,
\* series, blocked_and_watched).
THEOREM WindowsAlwaysAgree == Spec => []WindowsAgree
<1>1. TypeInv => WindowsAgree
  BY AnyWindowAgrees, Settings DEF WindowsAgree
<1> QED  BY InitTyped, NextTyped, <1>1, PTL DEF Spec

\* For every window, and not only the ones a run cuts.
THEOREM EveryWindowAgrees ==
    Spec => [](\A wanted \in Nat, columns, per \in Nat \ {0} :
                  WindowAgrees(wanted, columns, per))
<1>1. TypeInv => \A wanted \in Nat, columns, per \in Nat \ {0} :
                    WindowAgrees(wanted, columns, per)
  BY AnyWindowAgrees
<1> QED  BY InitTyped, NextTyped, <1>1, PTL DEF Spec

-----------------------------------------------------------------------------
(* The week has what the fine ring has.                                    *)

\* The numbers of an hour, for buckets of a given size.
Inside(h, s) == {n \in Nat : h * WeekSize <= n * s /\ (n + 1) * s <= (h + 1) * WeekSize}

\* How many samples a ring has of each.
SamplesOf(r, T) == [n \in T |-> At(r, n).samples]

\* An hour of w has what the buckets of r within it have together.
Covered(r, s, w) ==
    \A h \in Nat : Least(SumFunction(SamplesOf(r, Inside(h, s))), MaxCount)
                     <= At(w, h).samples

\* The rings can be as long as the week, and no longer.
WeekIsLonger == \A l \in Lens, s \in Sizes : l * s <= (WeekLen - 1) * WeekSize

\* Inductive: the week covers the fine ring in its lap and out of it.
WeekInv == TypeInv /\ (WeekIsLonger => Covered(fine, size, week))

LEMMA WeekSettings == WeekLen \in Nat \ {0} /\ WeekSize \in Nat \ {0}
  BY RingsAssumption

LEMMA TimesUp ==
    ASSUME NEW a \in Nat, NEW b \in Nat, a <= b, NEW c \in Nat
    PROVE  a * c \in Nat /\ b * c \in Nat /\ a * c <= b * c
<1>1. PICK d \in Nat : b = a + d
  <2>1. b - a \in Nat /\ b = a + (b - a)
    OBVIOUS
  <2> QED  BY <2>1
<1>2. b * c = a * c + d * c /\ d * c \in Nat /\ a * c \in Nat
  BY <1>1
<1> QED  BY <1>1, <1>2

LEMMA InsideFinite ==
    ASSUME NEW h \in Nat, NEW s \in Nat \ {0}
    PROVE  Inside(h, s) \subseteq Nat /\ IsFiniteSet(Inside(h, s))
<1> DEFINE top == (h + 1) * WeekSize
<1>1. top \in Nat
  BY WeekSettings
<1>2. ASSUME NEW n \in Inside(h, s) PROVE n \in Nat /\ n <= top
  <2>1. n \in Nat /\ (n + 1) * s <= top
    BY DEF Inside
  <2> HIDE DEF top
  <2>2. (n + 1) * s = n + n * (s - 1) + s /\ n * (s - 1) \in Nat
    <3>1. s - 1 \in Nat /\ (n + 1) * s = n * s + s /\ n * s = n + n * (s - 1)
      BY <2>1
    <3>2. n * (s - 1) \in Nat
      BY <2>1, <3>1
    <3> QED  BY <2>1, <3>1, <3>2
  <2> QED  BY <1>1, <2>1, <2>2
<1> HIDE DEF top
<1>3. Inside(h, s) \subseteq 0..top
  BY <1>1, <1>2
<1>4. IsFiniteSet(0..top)
  BY <1>1, FS_Interval
<1> QED  BY <1>2, <1>3, <1>4, FS_Subset

\* A time is in the bucket, and in the hour, its quotient names.
LEMMA InBucket ==
    ASSUME NEW at \in Nat, NEW s \in Nat \ {0}
    PROVE  /\ at \div s \in Nat
           /\ (at \div s) * s <= at /\ at < (at \div s + 1) * s
<1> DEFINE q == at \div s
<1>1. q \in Nat /\ at % s \in 0..s-1 /\ at = s * q + (at % s)
  BY DivMod
<1> HIDE DEF q
<1>2. s * q = q * s /\ (q + 1) * s = q * s + s /\ q * s \in Nat
  BY <1>1
<1> QED  BY <1>1, <1>2 DEF q

\* If q buckets are over by a time, its own is q or later.
LEMMA NotBefore ==
    ASSUME NEW at \in Nat, NEW s \in Nat \ {0}, NEW q \in Nat, q * s <= at
    PROVE  q <= at \div s
<1> DEFINE p == at \div s
<1>1. p \in Nat /\ at < (p + 1) * s
  BY InBucket
<1> HIDE DEF p
<1>2. ASSUME p + 1 <= q PROVE FALSE
  BY <1>1, <1>2, TimesUp
<1> QED  BY <1>1, <1>2 DEF p

LEMMA NotAfter ==
    ASSUME NEW at \in Nat, NEW s \in Nat \ {0}, NEW q \in Nat, at < q * s
    PROVE  at \div s < q
<1> DEFINE p == at \div s
<1>1. p \in Nat /\ p * s <= at
  BY InBucket
<1> HIDE DEF p
<1>2. ASSUME q <= p PROVE FALSE
  BY <1>1, <1>2, TimesUp
<1> QED  BY <1>1, <1>2 DEF p

\* The bucket of a sample lies in no other hour than the sample.
LEMMA OwnHour ==
    ASSUME NEW at \in Nat, NEW s \in Nat \ {0}, NEW h \in Nat,
           at \div s \in Inside(h, s)
    PROVE  h = at \div WeekSize
<1> DEFINE n == at \div s
           H == at \div WeekSize
<1>1. n \in Nat /\ n * s <= at /\ at < (n + 1) * s
  BY InBucket
<1>2. H \in Nat
  BY WeekSettings, InBucket
<1>3. h * WeekSize <= n * s /\ (n + 1) * s <= (h + 1) * WeekSize
  BY DEF Inside
<1> HIDE DEF n
<1>4. h * WeekSize <= at /\ at < (h + 1) * WeekSize
  <2>1. h * WeekSize \in Nat /\ (h + 1) * WeekSize \in Nat
        /\ n * s \in Nat /\ (n + 1) * s \in Nat
    BY <1>1, WeekSettings
  <2> QED  BY <1>1, <1>3, <2>1
<1>5. h <= H
  BY <1>4, WeekSettings, NotBefore
<1>6. H < h + 1
  <2>1. h + 1 \in Nat
    OBVIOUS
  <2>2. \A q \in Nat : at < q * WeekSize => H < q
    BY WeekSettings, NotAfter
  <2> HIDE DEF H
  <2> QED  BY <1>4, <2>1, <2>2
<1> HIDE DEF H
<1>7. h = H
  BY <1>2, <1>5, <1>6
<1> QED  BY <1>7 DEF H

\* What a ring shows right after a sample lies within the week.
LEMMA ShownInWeek ==
    ASSUME NEW at \in Nat, NEW s \in Nat \ {0}, NEW l \in Nat \ {0},
           l * s <= (WeekLen - 1) * WeekSize, NEW n \in Nat,
           InLap(at \div s, l, n), NEW h \in Nat, n \in Inside(h, s)
    PROVE  InLap(at \div WeekSize, WeekLen, h)
<1> DEFINE N == at \div s
           H == at \div WeekSize
<1>1. N \in Nat /\ N * s <= at /\ at < (N + 1) * s
  BY InBucket
<1>2. n <= N /\ N + 1 <= n + l
  BY <1>1 DEF InLap
<1>3. h * WeekSize <= n * s /\ (n + 1) * s <= (h + 1) * WeekSize
  BY DEF Inside
<1> HIDE DEF N
<1>4. h <= H
  <2>1. n * s \in Nat /\ n * s <= N * s /\ N * s \in Nat
    BY <1>1, <1>2, TimesUp
  <2>2. h * WeekSize \in Nat /\ h * WeekSize <= at
    BY <1>1, <1>3, <2>1, WeekSettings
  <2> QED  BY <2>2, WeekSettings, NotBefore
<1>5. H < h + WeekLen
  <2>1. (N + 1) * s <= (n + l) * s
    BY <1>1, <1>2, TimesUp
  <2>2. (n + l) * s = n * s + l * s /\ (n + 1) * s = n * s + s
        /\ n * s \in Nat /\ l * s \in Nat /\ (N + 1) * s \in Nat
    BY <1>1
  <2>3. /\ (h + 1) * WeekSize = h * WeekSize + WeekSize
        /\ (WeekLen - 1) * WeekSize = WeekLen * WeekSize - WeekSize
        /\ (h + WeekLen) * WeekSize = h * WeekSize + WeekLen * WeekSize
        /\ h * WeekSize \in Nat /\ WeekLen * WeekSize \in Nat
    BY WeekSettings
  <2>4. at < (h + WeekLen) * WeekSize
    BY <1>1, <1>3, <2>1, <2>2, <2>3, WeekSettings
  <2>5. h + WeekLen \in Nat
    BY WeekSettings
  <2>6. \A q \in Nat : at < q * WeekSize => H < q
    BY WeekSettings, NotAfter
  <2> HIDE DEF H
  <2> QED  BY <2>4, <2>5, <2>6
<1> QED  BY <1>4, <1>5 DEF InLap

LEMMA SamplesAre ==
    ASSUME NEW r, NEW l, Shaped(r, l), Filled(r, l), NEW T, T \subseteq Nat
    PROVE  SamplesOf(r, T) \in [T -> Nat]
<1> SUFFICES ASSUME NEW n \in T PROVE At(r, n).samples \in Nat
  BY DEF SamplesOf
<1>1. At(r, n) \in Bucket
  BY AtIsBucket
<1> QED  BY <1>1, BucketAssumption DEF Bucket, Count

\* The buckets of an hour, one sample later at most.
LEMMA SumOneMore ==
    ASSUME NEW S, IsFiniteSet(S), NEW f \in [S -> Nat], NEW g \in [S -> Nat],
           NEW x, \A n \in S : g[n] <= IF n = x THEN f[n] + 1 ELSE f[n]
    PROVE  /\ SumFunction(f) \in Nat /\ SumFunction(g) \in Nat
           /\ SumFunction(g) <= SumFunction(f) + 1
           /\ x \notin S => SumFunction(g) <= SumFunction(f)
<1>1. PICK sum : IsSum(sum, S, f) /\ SumFunction(f) = sum[S]
  BY SumIs
<1>2. PICK other : IsSum(other, S, g) /\ SumFunction(g) = other[S]
  BY SumIs
<1>3. sum[S] \in Nat /\ other[S] \in Nat
  BY <1>1, <1>2 DEF IsSum
<1>4. CASE x \notin S
  <2>1. \A T \in SUBSET S : other[T \cap S] <= sum[T]
    BY <1>1, <1>2, <1>4, SumMonotone
  <2>2. other[S \cap S] <= sum[S] /\ S \cap S = S
    BY <2>1
  <2> QED  BY <1>1, <1>2, <1>3, <1>4, <2>2
<1>5. CASE x \in S
  <2> DEFINE W == S \ {x}
             ff == [n \in W |-> f[n]]
             gg == [n \in W |-> g[n]]
  <2>1. /\ sum[S] = f[x] + sum[W] /\ other[S] = g[x] + other[W]
        /\ f[x] \in Nat /\ g[x] \in Nat /\ g[x] <= f[x] + 1
        /\ sum[W] \in Nat /\ other[W] \in Nat
    BY <1>1, <1>2, <1>5 DEF IsSum
  <2>2. other[W] <= sum[W]
    <3> DEFINE C == {T \in SUBSET W : other[T] <= sum[T]}
    <3>1. ASSUME NEW T \in SUBSET W, \A n \in T : T \ {n} \in C
          PROVE  T \in C
      <4>1. CASE T = {}
        <5>1. other[T] = 0 /\ sum[T] = 0
          BY <1>1, <1>2, <4>1 DEF IsSum
        <5> QED  BY <5>1
      <4>2. CASE T # {}
        <5>1. PICK n \in T : TRUE
          BY <4>2
        <5>2. sum[T] = f[n] + sum[T \ {n}] /\ other[T] = g[n] + other[T \ {n}]
              /\ sum[T \ {n}] \in Nat /\ other[T \ {n}] \in Nat
          BY <1>1, <1>2, <5>1 DEF IsSum
        <5>3. f[n] \in Nat /\ g[n] \in Nat /\ g[n] <= f[n]
          BY <5>1
        <5>4. other[T \ {n}] <= sum[T \ {n}]
          BY <3>1, <5>1
        <5> QED  BY <5>2, <5>3, <5>4
      <4> QED  BY <4>1, <4>2
    <3> HIDE DEF C
    <3>2. IsFiniteSet(W)
      BY FS_Subset
    <3>3. \A T \in SUBSET W : T \in C
      BY <3>1, <3>2, Descent
    <3>4. W \in C
      BY <3>3
    <3> QED  BY <3>4 DEF C
  <2> HIDE DEF W
  <2> QED  BY <1>1, <1>2, <1>3, <1>5, <2>1, <2>2
<1> QED  BY <1>4, <1>5

LEMMA AddedSamples ==
    ASSUME NEW b \in Bucket, NEW reading
    PROVE  Added(b, reading).samples = Plus(b.samples, 1)
  BY DEF Added, Join, Bucket

\* A ring that shows nothing is covered by any.
LEMMA NothingCovered ==
    ASSUME NEW r, NEW s \in Nat \ {0}, NEW w, NEW k, Shaped(w, k), Filled(w, k),
           \A n \in Nat : At(r, n) = Gap
    PROVE  Covered(r, s, w)
<1> SUFFICES ASSUME NEW h \in Nat
             PROVE  Least(SumFunction(SamplesOf(r, Inside(h, s))), MaxCount)
                      <= At(w, h).samples
  BY DEF Covered
<1> DEFINE S == Inside(h, s)
           f == SamplesOf(r, S)
<1>1. S \subseteq Nat /\ IsFiniteSet(S)
  BY InsideFinite
<1> HIDE DEF S
<1>2. f \in [S -> Nat] /\ \A n \in S : f[n] <= 0
  BY <1>1 DEF SamplesOf, Gap
<1> HIDE DEF f
<1>3. SumFunction(f) \in Nat /\ Cardinality(S) \in Nat
      /\ SumFunction(f) <= 0 * Cardinality(S)
  BY <1>1, <1>2, SumBounded
<1>4. SumFunction(f) = 0
  BY <1>3
<1>5. At(w, h).samples \in Nat
  BY AtIsBucket, BucketAssumption DEF Bucket, Count
<1> QED  BY <1>4, <1>5, BucketAssumption DEF Least, f, S

\* A sample goes to both rings.
LEMMA AbsorbCovered ==
    ASSUME NEW r, NEW l, Shaped(r, l), Filled(r, l), NEW s \in Nat \ {0},
           NEW w, Shaped(w, WeekLen), Filled(w, WeekLen), Covered(r, s, w),
           l * s <= (WeekLen - 1) * WeekSize, NEW at \in Nat, NEW reading,
           reading.transitions \in Count
    PROVE  Covered(Absorb(r, at \div s, reading), s,
                   Absorb(w, at \div WeekSize, reading))
<1> DEFINE N == at \div s
           H == at \div WeekSize
           q == Absorb(r, N, reading)
           v == Absorb(w, H, reading)
<1>1. N \in Nat /\ H \in Nat /\ l \in Nat \ {0}
  BY WeekSettings, InBucket DEF Shaped
<1>2. /\ Shaped(q, l) /\ Filled(q, l) /\ AbsorbsInto(q, r, l, N, reading)
      /\ Shaped(v, WeekLen) /\ Filled(v, WeekLen)
      /\ AbsorbsInto(v, w, WeekLen, H, reading)
  <2> HIDE DEF N, H
  <2> QED  BY <1>1, AbsorbAbsorbs, AbsorbFilled
<1> SUFFICES ASSUME NEW h \in Nat
             PROVE  Least(SumFunction(SamplesOf(q, Inside(h, s))), MaxCount)
                      <= At(v, h).samples
  BY DEF Covered
<1> DEFINE S == Inside(h, s)
           f == SamplesOf(r, S)
           g == SamplesOf(q, S)
<1>3. S \subseteq Nat /\ IsFiniteSet(S)
  BY InsideFinite
<1>4. N \in S => h = H
  BY OwnHour
<1>5. \A n \in S : InLap(N, l, n) => InLap(H, WeekLen, h)
  BY <1>1, <1>3, ShownInWeek
<1> HIDE DEF N, H, q, v, S
<1>6. f \in [S -> Nat] /\ g \in [S -> Nat]
  BY <1>2, <1>3, SamplesAre
<1>7. \A n \in S : /\ f[n] = At(r, n).samples /\ g[n] = At(q, n).samples
                   /\ At(r, n) \in Bucket
  BY <1>3, AtIsBucket DEF SamplesOf
<1>8. Least(SumFunction(f), MaxCount) <= At(w, h).samples
  BY DEF Covered, f, S
<1>9. At(w, h) \in Bucket /\ At(v, h) \in Bucket
  BY <1>2, AtIsBucket
<1>10. At(w, h).samples \in Nat /\ At(v, h).samples \in Nat /\ MaxCount \in Nat \ {0}
  BY <1>9, BucketAssumption DEF Bucket, Count
<1> HIDE DEF f, g
<1>11. \A n \in S : g[n] <= IF n = N THEN f[n] + 1 ELSE f[n]
  <2> SUFFICES ASSUME NEW n \in S
               PROVE  g[n] <= IF n = N THEN f[n] + 1 ELSE f[n]
    OBVIOUS
  <2>1. n \in Nat /\ f[n] \in Nat
    BY <1>3, <1>6
  <2>2. CASE n = N
    <3>1. At(q, n) = Added(At(r, n), reading)
      BY <1>2, <2>1, <2>2 DEF AbsorbsInto
    <3>2. g[n] = Plus(f[n], 1)
      BY <1>7, <3>1, AddedSamples
    <3> QED  BY <1>10, <2>1, <2>2, <3>2 DEF Plus, Least
  <2>3. CASE n # N /\ InLap(N, l, n)
    <3>1. At(q, n) = At(r, n)
      BY <1>2, <2>1, <2>3 DEF AbsorbsInto
    <3> QED  BY <1>7, <2>1, <2>3, <3>1
  <2>4. CASE n # N /\ ~InLap(N, l, n)
    <3>1. At(q, n) = Gap
      BY <1>2, <2>1, <2>4 DEF AbsorbsInto
    <3>2. g[n] = 0
      BY <1>7, <3>1 DEF Gap
    <3> QED  BY <2>1, <2>4, <3>2
  <2> QED  BY <2>2, <2>3, <2>4
<1>12. /\ SumFunction(f) \in Nat /\ SumFunction(g) \in Nat
       /\ SumFunction(g) <= SumFunction(f) + 1
       /\ N \notin S => SumFunction(g) <= SumFunction(f)
  BY <1>3, <1>6, <1>11, SumOneMore
<1> SUFFICES Least(SumFunction(g), MaxCount) <= At(v, h).samples
  BY DEF g, S
<1> DEFINE F == SumFunction(f)
           G == SumFunction(g)
           was == At(w, h).samples
           is == At(v, h).samples
<1>13. CASE h = H
  <2>1. At(v, h) = Added(At(w, h), reading)
    BY <1>2, <1>13 DEF AbsorbsInto
  <2>2. is = Plus(was, 1)
    BY <1>9, <2>1, AddedSamples
  <2> HIDE DEF F, G, was, is
  <2>3. F \in Nat /\ G \in Nat /\ G <= F + 1
    BY <1>12 DEF F, G
  <2>4. was \in Nat /\ is \in Nat /\ Least(F, MaxCount) <= was
    BY <1>8, <1>10 DEF F, was, is
  <2>5. Least(G, MaxCount) <= is
    BY <1>10, <2>2, <2>3, <2>4 DEF Plus, Least
  <2> QED  BY <2>5 DEF G, is
<1>14. CASE h # H /\ InLap(H, WeekLen, h)
  <2>1. is = was
    BY <1>2, <1>14 DEF AbsorbsInto
  <2> HIDE DEF F, G, was, is
  <2>2. F \in Nat /\ G \in Nat /\ G <= F
    BY <1>4, <1>12, <1>14 DEF F, G
  <2>3. was \in Nat /\ Least(F, MaxCount) <= was
    BY <1>8, <1>10 DEF F, was
  <2>4. Least(G, MaxCount) <= is
    BY <1>10, <2>1, <2>2, <2>3 DEF Least
  <2> QED  BY <2>4 DEF G, is
<1>15. CASE h # H /\ ~InLap(H, WeekLen, h)
  <2>1. \A n \in S : g[n] <= 0
    <3> SUFFICES ASSUME NEW n \in S PROVE g[n] <= 0
      OBVIOUS
    <3>1. n \in Nat /\ n # N /\ ~InLap(N, l, n)
      BY <1>3, <1>4, <1>5, <1>15
    <3>2. At(q, n) = Gap
      BY <1>2, <3>1 DEF AbsorbsInto
    <3> QED  BY <1>7, <3>2 DEF Gap
  <2>2. Cardinality(S) \in Nat /\ G <= 0 * Cardinality(S)
    BY <1>3, <1>6, <2>1, SumBounded
  <2>3. G \in Nat /\ is \in Nat
    BY <1>10, <1>12
  <2> HIDE DEF F, G, was, is
  <2>4. Least(G, MaxCount) <= is
    BY <1>10, <2>2, <2>3 DEF Least
  <2> QED  BY <2>4 DEF G, is
<1> QED  BY <1>13, <1>14, <1>15

\* A ring that shows no more of any bucket is covered as well.
LEMMA LessCovered ==
    ASSUME NEW r, NEW l, Shaped(r, l), Filled(r, l),
           NEW q, NEW k, Shaped(q, k), Filled(q, k), NEW s \in Nat \ {0},
           NEW w, NEW j, Shaped(w, j), Filled(w, j), Covered(r, s, w),
           \A n \in Nat : At(q, n) \in {At(r, n), Gap}
    PROVE  Covered(q, s, w)
<1> SUFFICES ASSUME NEW h \in Nat
             PROVE  Least(SumFunction(SamplesOf(q, Inside(h, s))), MaxCount)
                      <= At(w, h).samples
  BY DEF Covered
<1> DEFINE S == Inside(h, s)
           f == SamplesOf(r, S)
           g == SamplesOf(q, S)
<1>1. S \subseteq Nat /\ IsFiniteSet(S)
  BY InsideFinite
<1>2. Least(SumFunction(f), MaxCount) <= At(w, h).samples
  BY DEF Covered
<1> HIDE DEF S
<1>3. f \in [S -> Nat] /\ g \in [S -> Nat]
  BY <1>1, SamplesAre
<1>4. \A n \in S : g[n] <= f[n]
  <2> SUFFICES ASSUME NEW n \in S PROVE g[n] <= f[n]
    OBVIOUS
  <2>1. g[n] = At(q, n).samples /\ f[n] = At(r, n).samples
    BY DEF SamplesOf
  <2>2. At(q, n).samples \in {At(r, n).samples, 0} /\ f[n] \in Nat
    BY <1>1, <1>3 DEF Gap
  <2> HIDE DEF f, g
  <2> QED  BY <2>1, <2>2
<1>5. At(w, h).samples \in Nat
  BY AtIsBucket, BucketAssumption DEF Bucket, Count
<1> HIDE DEF f, g
<1>6. /\ SumFunction(f) \in Nat /\ SumFunction(g) \in Nat
      /\ SumFunction(g) <= SumFunction(f)
  <2>1. \A n \in S : g[n] <= IF n = S THEN f[n] + 1 ELSE f[n]
    BY <1>3, <1>4
  <2>2. PICK x : x \notin S
    <3>1. -1 \notin S
      BY <1>1
    <3> QED  BY <3>1
  <2>3. \A n \in S : g[n] <= IF n = x THEN f[n] + 1 ELSE f[n]
    BY <1>4, <2>2
  <2> QED  BY <1>1, <1>3, <2>2, <2>3, SumOneMore
<1> QED  BY <1>2, <1>5, <1>6, BucketAssumption DEF Least, f, g, S

\* The buckets of a group, those past the newest included.
Members(m, factor) == {n \in Nat : m * factor <= n /\ n < (m + 1) * factor}

LEMMA GroupMembers ==
    ASSUME NEW r, r.newest \in Nat, NEW factor \in Nat \ {0}, NEW m \in Nat
    PROVE  DOMAIN Group(r, factor, m) \subseteq Members(m, factor)
<1> DEFINE low == m * factor
           top == Least(low + factor - 1, r.newest)
<1>1. low \in Nat /\ top \in Nat /\ top <= low + factor - 1
      /\ (m + 1) * factor = low + factor
  BY DEF Least
<1>2. Group(r, factor, m) = [n \in low..top |-> At(r, n)]
  BY DEF Group
<1> HIDE DEF low, top
<1>3. low..top \subseteq {n \in Nat : low <= n /\ n < low + factor}
  BY <1>1
<1>4. {n \in Nat : low <= n /\ n < low + factor} = Members(m, factor)
  BY <1>1 DEF Members, low
<1> QED  BY <1>2, <1>3, <1>4

LEMMA MembersApart ==
    ASSUME NEW factor \in Nat \ {0}, NEW m \in Nat, NEW n \in Nat, m # n
    PROVE  Members(m, factor) \cap Members(n, factor) = {}
<1> SUFFICES ASSUME NEW x \in Nat, m * factor <= x, x < (m + 1) * factor,
                    n * factor <= x, x < (n + 1) * factor
             PROVE  FALSE
  BY DEF Members
<1>1. CASE m + 1 <= n
  <2>1. (m + 1) * factor <= n * factor /\ n * factor \in Nat
        /\ (m + 1) * factor \in Nat
    BY <1>1, TimesUp
  <2> QED  BY <2>1
<1>2. CASE n + 1 <= m
  <2>1. (n + 1) * factor <= m * factor /\ m * factor \in Nat
        /\ (n + 1) * factor \in Nat
    BY <1>2, TimesUp
  <2> QED  BY <2>1
<1> QED  BY <1>1, <1>2

LEMMA MembersInside ==
    ASSUME NEW factor \in Nat \ {0}, NEW s \in Nat \ {0}, NEW h \in Nat,
           NEW m \in Inside(h, s * factor)
    PROVE  Members(m, factor) \subseteq Inside(h, s)
<1> DEFINE low == m * factor
           wide == s * factor
<1>1. m \in Nat /\ h * WeekSize <= m * wide /\ (m + 1) * wide <= (h + 1) * WeekSize
  BY DEF Inside
<1>2. m * wide = low * s /\ (m + 1) * wide = (low + factor) * s
      /\ low \in Nat /\ (m + 1) * factor = low + factor
  BY <1>1
<1> HIDE DEF low, wide
<1>3. ASSUME NEW n \in Nat, low <= n, n < low + factor
      PROVE  n \in Inside(h, s)
  <2>1. low * s \in Nat /\ n * s \in Nat /\ low * s <= n * s
    BY <1>2, <1>3, TimesUp
  <2>2. (n + 1) * s \in Nat /\ (low + factor) * s \in Nat
        /\ (n + 1) * s <= (low + factor) * s
    BY <1>2, <1>3, TimesUp
  <2>3. h * WeekSize \in Nat /\ (h + 1) * WeekSize \in Nat
    BY WeekSettings
  <2>4. h * WeekSize <= n * s
    BY <1>1, <1>2, <2>1, <2>3
  <2>5. (n + 1) * s <= (h + 1) * WeekSize
    BY <1>1, <1>2, <2>2, <2>3
  <2> QED  BY <2>4, <2>5 DEF Inside
<1> QED  BY <1>2, <1>3 DEF Members, low

\* Folding buckets adds no samples to an hour.
LEMMA CoarsenedCovered ==
    ASSUME NEW r, NEW k, Shaped(r, k), Filled(r, k), NEW s \in Nat \ {0},
           NEW w, NEW j, Shaped(w, j), Filled(w, j), Covered(r, s, w),
           NEW factor \in Nat \ {0}, NEW l \in Nat \ {0}
    PROVE  Covered(Coarsened(r, factor, l), s * factor, w)
<1> DEFINE q == Coarsened(r, factor, l)
           newest == r.newest \div factor
<1>1. r.newest \in Nat
  BY DEF Shaped
<1>2. /\ Shaped(q, l) /\ Filled(q, l)
      /\ \A m \in Nat : At(q, m) \in {Folded(Group(r, factor, m)), Gap}
  BY <1>1, CoarsenedAt, CoarsenedFilled
<1> SUFFICES ASSUME NEW h \in Nat
             PROVE  Least(SumFunction(SamplesOf(q, Inside(h, s * factor))), MaxCount)
                      <= At(w, h).samples
  BY DEF Covered
<1> DEFINE R == Inside(h, s * factor)
           S == Inside(h, s)
           f == SamplesOf(r, S)
           g == SamplesOf(q, R)
           members == [m \in R |-> DOMAIN Group(r, factor, m)]
<1>3. S \subseteq Nat /\ IsFiniteSet(S)
  BY InsideFinite
<1>4. R \subseteq Nat /\ IsFiniteSet(R)
  <2>1. s * factor \in Nat \ {0}
    OBVIOUS
  <2> QED  BY <2>1, InsideFinite
<1>5. \A m \in R : Members(m, factor) \subseteq S
  BY MembersInside
<1>6. Least(SumFunction(f), MaxCount) <= At(w, h).samples
  BY DEF Covered
<1> HIDE DEF q, R, S
<1>7. f \in [S -> Nat] /\ g \in [R -> Nat]
  BY <1>2, <1>3, <1>4, SamplesAre
<1>8. PICK sum : IsSum(sum, S, f) /\ SumFunction(f) = sum[S]
  BY <1>3, <1>7, SumIs
<1>9. PICK other : IsSum(other, R, g) /\ SumFunction(g) = other[R]
  BY <1>4, <1>7, SumIs
<1>10. ASSUME NEW m \in R
       PROVE  members[m] \in SUBSET S /\ g[m] <= sum[members[m]]
  <2> DEFINE group == Group(r, factor, m)
  <2>1. /\ m \in Nat /\ DOMAIN group \subseteq S /\ IsFiniteSet(DOMAIN group)
        /\ \A n \in DOMAIN group : group[n] = At(r, n)
    BY <1>1, <1>4, <1>5, GroupMembers, GroupIsBuckets
  <2>2. g[m] = At(q, m).samples /\ At(q, m) \in {Folded(group), Gap}
    BY <1>2, <2>1 DEF SamplesOf
  <2>3. members[m] = DOMAIN group
    OBVIOUS
  <2> HIDE DEF group, members, g
  <2>4. \A n \in DOMAIN group : group[n] \in Bucket /\ f[n] = group[n].samples
    BY <1>3, <2>1, AtIsBucket DEF SamplesOf
  <2> HIDE DEF f
  <2>5. Folded(group).samples <= sum[DOMAIN group]
    BY <1>7, <1>8, <2>1, <2>4, FoldedSamples
  <2>6. sum[DOMAIN group] \in Nat
    BY <1>8, <2>1 DEF IsSum
  <2> QED  BY <2>1, <2>2, <2>3, <2>5, <2>6 DEF Gap
<1>11. \A m, n \in R : m # n => members[m] \cap members[n] = {}
  <2> SUFFICES ASSUME NEW m \in R, NEW n \in R, m # n
               PROVE  members[m] \cap members[n] = {}
    OBVIOUS
  <2>1. members[m] \subseteq Members(m, factor)
        /\ members[n] \subseteq Members(n, factor)
    BY <1>1, <1>4, GroupMembers
  <2>2. Members(m, factor) \cap Members(n, factor) = {}
    BY <1>4, MembersApart
  <2> QED  BY <2>1, <2>2
<1> HIDE DEF f, g, members
<1>12. other[R] <= sum[S]
  BY <1>3, <1>4, <1>7, <1>8, <1>9, <1>10, <1>11, SumGrouped
<1>13. other[R] \in Nat /\ sum[S] \in Nat
  BY <1>8, <1>9 DEF IsSum
<1>14. At(w, h).samples \in Nat
  BY AtIsBucket, BucketAssumption DEF Bucket, Count
<1>15. Least(SumFunction(g), MaxCount) <= At(w, h).samples
  BY <1>6, <1>8, <1>9, <1>12, <1>13, <1>14, BucketAssumption DEF Least
<1> QED  BY <1>15 DEF g, q, R

LEMMA InitCovers == Init => WeekInv
<1> SUFFICES ASSUME Init PROVE WeekInv
  OBVIOUS
<1>1. TypeInv
  BY InitTyped
<1> SUFFICES ASSUME WeekIsLonger PROVE Covered(fine, size, week)
  BY <1>1 DEF WeekInv
<1>2. PICK at \in Stamps, obs \in Observations :
         /\ fine = Absorb(Blank(len, at \div size), at \div size,
                          WorkspaceReading(obs))
         /\ week = Absorb(Blank(WeekLen, at \div WeekSize),
                          at \div WeekSize, WorkspaceReading(obs))
  BY DEF Init
<1>3. /\ len \in Nat \ {0} /\ size \in Nat \ {0} /\ at \in Nat
      /\ len * size <= (WeekLen - 1) * WeekSize
      /\ at \div size \in Nat /\ at \div WeekSize \in Nat
  <2>1. len \in Lens /\ size \in Sizes /\ at \in Times
    BY <1>1, Settings DEF TypeInv, HonestInv, FineInv
  <2>2. len \in Nat \ {0} /\ size \in Nat \ {0} /\ at \in Nat
    BY <2>1, Settings
  <2> QED  BY <2>1, <2>2, InBucket, WeekSettings DEF WeekIsLonger
<1> DEFINE r == Blank(len, at \div size)
           w == Blank(WeekLen, at \div WeekSize)
<1>4. /\ Shaped(r, len) /\ Filled(r, len) /\ \A n \in Nat : At(r, n) = Gap
      /\ Shaped(w, WeekLen) /\ Filled(w, WeekLen)
  BY <1>3, WeekSettings, BlankAt, BlankFilled
<1>5. WorkspaceReading(obs).transitions \in Count
  BY ReadingsFit
<1>6. fine = Absorb(r, at \div size, WorkspaceReading(obs))
      /\ week = Absorb(w, at \div WeekSize, WorkspaceReading(obs))
  BY <1>2
<1> HIDE DEF r, w
<1>7. Covered(r, size, w)
  BY <1>3, <1>4, NothingCovered
<1> QED  BY <1>3, <1>4, <1>5, <1>6, <1>7, AbsorbCovered

LEMMA ObserveCovers ==
    ASSUME WeekInv, NEW at \in Stamps, NEW obs \in Observations,
           Observe(at, obs)
    PROVE  WeekInv'
<1>1. TypeInv /\ TypeInv'
  BY ObserveTyped DEF WeekInv
<1>2. /\ fine' = Absorb(fine, at \div size, WorkspaceReading(obs))
      /\ week' = Absorb(week, at \div WeekSize, WorkspaceReading(obs))
      /\ size' = size
  BY DEF Observe, conf
<1>3. WorkspaceReading(obs).transitions \in Count
  BY ReadingsFit
<1>4. /\ Shaped(fine, len) /\ Filled(fine, len)
      /\ Shaped(week, WeekLen) /\ Filled(week, WeekLen)
      /\ len \in Lens /\ size \in Sizes /\ at \in Nat /\ size \in Nat \ {0}
  BY <1>1, Settings DEF TypeInv, HonestInv, FineInv
<1>5. ASSUME WeekIsLonger PROVE Covered(fine', size', week')
  <2>1. len * size <= (WeekLen - 1) * WeekSize /\ Covered(fine, size, week)
    BY <1>4, <1>5 DEF WeekIsLonger, WeekInv
  <2> QED  BY <1>2, <1>3, <1>4, <2>1, AbsorbCovered
<1> QED  BY <1>1, <1>5 DEF WeekInv, WeekIsLonger

LEMMA ReloadCovers ==
    ASSUME WeekInv, NEW l \in Lens, NEW s \in Sizes, NEW a \in BOOLEAN,
           NEW others \in BOOLEAN, Reload(l, s, a, others)
    PROVE  WeekInv'
<1>1. TypeInv /\ TypeInv'
  BY ReloadTyped DEF WeekInv
<1>2. size' = s /\ week' = week
  BY DEF Reload
<1>3. /\ Shaped(fine, len) /\ Filled(fine, len)
      /\ Shaped(week, WeekLen) /\ Filled(week, WeekLen)
      /\ l \in Nat \ {0} /\ size \in Nat \ {0} /\ s \in Nat \ {0}
      /\ lastSeen \div s \in Nat
  <2>1. lastSeen \in Nat /\ l \in Nat \ {0} /\ size \in Nat \ {0} /\ s \in Nat \ {0}
    BY <1>1, Settings DEF TypeInv, HonestInv, FineInv
  <2> QED  BY <1>1, <2>1, InBucket DEF TypeInv, HonestInv, FineInv
<1>4. ASSUME Covered(fine, size, week) PROVE Covered(fine', s, week)
  <2>1. CASE s = size /\ fine' = Reshape(fine, l)
    <3>1. Shaped(fine', l) /\ Filled(fine', l) /\ Follows(fine', fine, l)
      BY <1>3, <2>1, ReshapeFollows, ReshapeFilled
    <3>2. \A n \in Nat : At(fine', n) \in {At(fine, n), Gap}
      BY <3>1 DEF Follows
    <3>3. Covered(fine, s, week)
      BY <1>4, <2>1
    <3> QED  BY <1>3, <3>1, <3>2, <3>3, LessCovered
  <2>2. CASE s > size /\ s % size = 0 /\ fine' = Coarsened(fine, s \div size, l)
    <3> DEFINE factor == s \div size
    <3>1. factor \in Nat \ {0} /\ s = size * factor
      <4>1. factor \in Nat /\ s = size * factor + (s % size)
        BY <1>3, DivMod
      <4> HIDE DEF factor
      <4>2. s = size * factor
        BY <1>3, <2>2, <4>1
      <4> QED  BY <1>3, <4>1, <4>2
    <3>2. fine' = Coarsened(fine, factor, l)
      BY <2>2
    <3> HIDE DEF factor
    <3> QED  BY <1>3, <1>4, <3>1, <3>2, CoarsenedCovered
  <2>3. CASE fine' = Blank(l, lastSeen \div s)
    <3>1. \A n \in Nat : At(fine', n) = Gap
      BY <1>3, <2>3, BlankAt
    <3> QED  BY <1>3, <3>1, NothingCovered
  <2> QED  BY <2>1, <2>2, <2>3 DEF Reload
<1> QED  BY <1>1, <1>2, <1>4 DEF WeekInv, WeekIsLonger

LEMMA NextCovers == WeekInv /\ [Next]_vars => WeekInv'
<1> SUFFICES ASSUME WeekInv, [Next]_vars PROVE WeekInv'
  OBVIOUS
<1>1. ASSUME NEW at \in Stamps, NEW obs \in Observations, Observe(at, obs)
      PROVE  WeekInv'
  BY <1>1, ObserveCovers
<1>2. ASSUME NEW l \in Lens, NEW s \in Sizes, NEW a \in BOOLEAN,
             NEW others \in BOOLEAN, Reload(l, s, a, others)
      PROVE  WeekInv'
  BY <1>2, ReloadCovers
<1>3. CASE UNCHANGED vars
  <2>1. TypeInv'
    BY <1>3, NextTyped DEF WeekInv
  <2> QED  BY <1>3, <2>1 DEF vars, conf, WeekInv, WeekIsLonger
<1> QED  BY <1>1, <1>2, <1>3 DEF Next

LEMMA WeekInvCovers == WeekInv => WeekCoversFine
<1> SUFFICES ASSUME WeekInv, WeekIsLonger, NEW h \in Lap(week)
             PROVE  LET within == {n \in Lap(fine) :
                                     /\ h * WeekSize <= n * size
                                     /\ (n + 1) * size <= (h + 1) * WeekSize}
                    IN  Least(SumFunction([n \in within |-> At(fine, n).samples]),
                              MaxCount) <= At(week, h).samples
  BY DEF WeekCoversFine, WeekIsLonger
<1> DEFINE within == {n \in Lap(fine) : /\ h * WeekSize <= n * size
                                        /\ (n + 1) * size <= (h + 1) * WeekSize}
           S == Inside(h, size)
           f == SamplesOf(fine, S)
           g == SamplesOf(fine, within)
<1>1. /\ Shaped(fine, len) /\ Filled(fine, len) /\ size \in Nat \ {0}
      /\ Shaped(week, WeekLen) /\ Filled(week, WeekLen)
      /\ Covered(fine, size, week)
  BY Settings DEF WeekInv, TypeInv, HonestInv, FineInv
<1>2. Lap(fine) \subseteq Nat /\ Lap(week) \subseteq Nat
  <2>1. \A r, l : Shaped(r, l) => Lap(r) \subseteq Nat
    BY DEF Shaped, Lap, Monus
  <2> QED  BY <1>1, <2>1
<1>3. h \in Nat /\ within \subseteq S
  BY <1>2 DEF Inside
<1>4. S \subseteq Nat /\ IsFiniteSet(S) /\ IsFiniteSet(within)
  BY <1>1, <1>3, InsideFinite, FS_Subset
<1>5. Least(SumFunction(f), MaxCount) <= At(week, h).samples
  BY <1>1, <1>3 DEF Covered
<1>6. g = [n \in within |-> At(fine, n).samples]
  BY DEF SamplesOf
<1> HIDE DEF within, S
<1>7. f \in [S -> Nat] /\ g \in [within -> Nat]
  BY <1>1, <1>3, <1>4, SamplesAre
<1>8. \A n \in within \cap S : g[n] <= f[n]
  <2>1. \A n \in within \cap S : g[n] = f[n] /\ f[n] \in Nat
    BY <1>7 DEF SamplesOf
  <2> HIDE DEF f, g
  <2> QED  BY <2>1
<1> HIDE DEF f, g
<1>9. PICK sum : IsSum(sum, S, f) /\ SumFunction(f) = sum[S]
  BY <1>4, <1>7, SumIs
<1>10. PICK other : IsSum(other, within, g) /\ SumFunction(g) = other[within]
  BY <1>4, <1>7, SumIs
<1>11. other[within] <= sum[S]
  <2>1. \A T \in SUBSET S : other[T \cap within] <= sum[T]
    BY <1>4, <1>7, <1>8, <1>9, <1>10, SumMonotone
  <2>2. S \cap within = within
    BY <1>3
  <2>3. other[S \cap within] <= sum[S]
    BY <2>1
  <2> QED  BY <2>2, <2>3
<1>12. other[within] \in Nat /\ sum[S] \in Nat /\ At(week, h).samples \in Nat
  BY <1>1, <1>3, <1>9, <1>10, AtIsBucket, BucketAssumption
     DEF IsSum, Bucket, Count
<1>13. Least(SumFunction(g), MaxCount) <= At(week, h).samples
  BY <1>5, <1>9, <1>10, <1>11, <1>12, BucketAssumption DEF Least
<1> QED  BY <1>6, <1>13 DEF within

\* An hour of the week ring has what the fine buckets within it have together:
\* neither a late clock, nor a shorter ring, nor a fold takes more from one than
\* from the other (observe, normalise).
THEOREM WeekCovers == Spec => []WeekCoversFine
<1> QED  BY InitCovers, NextCovers, WeekInvCovers, PTL DEF Spec
=============================================================================
