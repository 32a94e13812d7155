------------------------------ MODULE Buckets ------------------------------
(***************************************************************************)
(* One bucket of observations (src/src/history.rs): four counters that     *)
(* stop at u16::MAX.  A bucket without samples is a gap: nobody watched.   *)
(***************************************************************************)
EXTENDS Naturals, FiniteSets, Functions

CONSTANT MaxCount   \* u16::MAX

ASSUME BucketAssumption == MaxCount \in Nat \ {0}

Count == 0..MaxCount
Bucket == [samples : Count, working : Count, blocked : Count,
           transitions : Count]

\* What one sample says of a workspace or an agent.
Reading == [working : BOOLEAN, blocked : BOOLEAN, transitions : Count]

Gap == [samples |-> 0, working |-> 0, blocked |-> 0, transitions |-> 0]
Observed(b) == b.samples > 0

Least(x, y) == IF x < y THEN x ELSE y
Most(x, y) == IF x > y THEN x ELSE y
Monus(x, y) == IF x > y THEN x - y ELSE 0

\* saturating_add on u16.
Plus(x, y) == Least(x + y, MaxCount)

\* Fieldwise: how a fold adds two buckets.
Join(a, b) == [f \in DOMAIN a |-> Plus(a[f], b[f])]

\* One more sample.
Added(b, r) ==
    Join(b, [samples |-> 1,
             working |-> IF r.working THEN 1 ELSE 0,
             blocked |-> IF r.blocked THEN 1 ELSE 0,
             transitions |-> r.transitions])

OccupancySteps == 6
MaxLevel == 8

\* The height of a bar: six steps of occupancy, rounded, two of churn.
Level(b) ==
    LET working == Least(b.working, b.samples)
        occupancy == (working * OccupancySteps + b.samples \div 2)
                         \div b.samples
        churn == IF b.transitions = 0 THEN 0
                 ELSE IF b.transitions <= 2 THEN 1 ELSE 2
    IN  IF Observed(b) THEN Least(occupancy + churn, MaxLevel) ELSE 0

\* What the buckets of a group say together.  One that is missing makes a gap
\* of the whole.
Folded(group) ==
    IF \E n \in DOMAIN group : ~Observed(group[n]) THEN Gap
    ELSE FoldFunction(Join, Gap, group)
=============================================================================
