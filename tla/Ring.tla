-------------------------------- MODULE Ring --------------------------------
(***************************************************************************)
(* A ring of buckets and what is read off it (src/src/history.rs, RingRef  *)
(* and RingMut).  A ring is its length, its buckets, each at the slot its  *)
(* absolute number modulo the length names, and the newest number.         *)
(***************************************************************************)
EXTENDS Buckets

Blank(len, newest) ==
    [len |-> len, newest |-> newest, buckets |-> [i \in 0..len-1 |-> Gap]]

\* The numbers whose slot holds their own bucket and not another lap's.
Lap(r) == Monus(r.newest, r.len - 1)..r.newest

\* slot, bucket.
At(r, n) == IF n \in Lap(r) THEN r.buckets[n % r.len] ELSE Gap

\* A ring with a given bucket for every number of its lap.
Laid(len, newest, given) ==
    LET mine(i) == {n \in Lap(Blank(len, newest)) : n % len = i}
    IN  [len |-> len, newest |-> newest,
         buckets |-> [i \in 0..len-1 |->
            IF mine(i) = {} THEN Gap ELSE given[CHOOSE n \in mine(i) : TRUE]]]

-----------------------------------------------------------------------------
(* What changes a ring.                                                    *)

\* The buckets, without what is at the slots of numbers.
Cleared(r, numbers) ==
    [i \in 0..r.len-1 |->
        IF \E n \in numbers : n % r.len = i THEN Gap ELSE r.buckets[i]]

\* Mutant: what the last lap left in the slots passed over stays.
AdvanceDirty(r, number) == [r EXCEPT !.newest = number]

\* number is newer: the slots passed over, one lap of them at most, are gaps.
Advance(r, number) ==
    [len |-> r.len, newest |-> number,
     buckets |-> Cleared(r, {n \in r.newest+1..number : number < n + r.len})]

\* Mutant: the bucket the clock is in now goes with those ahead of it.
RewindTooFar(r, number) ==
    [len |-> r.len, newest |-> number,
     buckets |-> Cleared(r, {n \in number..r.newest : r.newest < n + r.len})]

\* number takes the anchor: every bucket ahead of it is dropped.
Rewind(r, number) ==
    [len |-> r.len, newest |-> number,
     buckets |-> Cleared(r, {n \in number+1..r.newest : r.newest < n + r.len})]

\* One reading, after the anchor moved to meet it.
Absorb(r, number, reading) ==
    LET met == IF number < r.newest THEN Rewind(r, number)
               ELSE IF number > r.newest THEN Advance(r, number) ELSE r
    IN  [len |-> r.len, newest |-> number,
         buckets |-> [met.buckets EXCEPT ![number % r.len] = Added(@, reading)]]

\* Mutant: the buckets stay at the slots of the old length.
ReshapeInPlace(r, len) ==
    [r EXCEPT !.len = len,
              !.buckets = [i \in 0..len-1 |->
                             IF i < r.len THEN r.buckets[i] ELSE Gap]]

\* Another length: each bucket goes where its number belongs now.
Reshape(r, len) ==
    IF r.len = len THEN r ELSE Laid(len, r.newest, [n \in 0..r.newest |-> At(r, n)])

\* The recorded buckets that make one bucket factor times as wide.  Those past
\* the newest are the future, not missed.
Group(r, factor, number) ==
    [n \in number*factor .. Least(number*factor + factor - 1, r.newest) |->
        At(r, n)]

\* Another bucket size: factor buckets become one.
Coarsened(r, factor, len) ==
    LET newest == r.newest \div factor
    IN  Laid(len, newest,
             [number \in 0..newest |-> Folded(Group(r, factor, number))])

Holds(r) == \E n \in Lap(r) : Observed(At(r, n))

-----------------------------------------------------------------------------
(* What is read off it.  Columns are counted from 0, the oldest.           *)

\* Mutant: the lap measured back from the column and not from the newest.
ColumnFromLast(r, wanted, columns, column, per) ==
    LET last == wanted - (columns - 1 - column) * per
    IN  IF (columns - 1 - column) * per > wanted THEN {}
        ELSE Most(Monus(last, per - 1), Monus(last, r.len - 1))
                .. Least(last, r.newest)

\* column_range: the numbers of a column, within the live lap.
ColumnRange(r, wanted, columns, column, per) ==
    LET last == wanted - (columns - 1 - column) * per
    IN  IF (columns - 1 - column) * per > wanted THEN {}
        ELSE Most(Monus(last, per - 1), Monus(r.newest, r.len - 1))
                .. Least(last, r.newest)

Watched(r, numbers) == {n \in numbers : Observed(At(r, n))}

NoLevel == MaxLevel + 1

\* The mean of the observed, rounded; no level if there are none.
Column(r, numbers) ==
    LET seen == Watched(r, numbers)
        total == SumFunction([n \in seen |-> Level(At(r, n))])
        count == Cardinality(seen)
    IN  IF seen = {} THEN NoLevel ELSE (total + count \div 2) \div count

Series(r, wanted, columns, per) ==
    [c \in 0..columns-1 |-> Column(r, ColumnRange(r, wanted, columns, c, per))]

\* Blocked and watched seconds of a window that ends at wanted.
BlockedAndWatched(r, wanted, window, seconds) ==
    LET seen == Watched(r, Most(Monus(wanted, window - 1),
                                Monus(r.newest, r.len - 1))
                               .. Least(wanted, r.newest))
        blocked == [n \in seen |->
            (seconds * Least(At(r, n).blocked, At(r, n).samples)
                + At(r, n).samples \div 2) \div At(r, n).samples]
    IN  [blocked |-> SumFunction(blocked),
         watched |-> seconds * Cardinality(seen)]
=============================================================================
