------------------------------ MODULE Timeline ------------------------------
(***************************************************************************)
(* What a ring promises, without slots and laps: for every bucket number   *)
(* what was recorded for it, or a gap.  The newest span numbers are kept.  *)
(***************************************************************************)
EXTENDS Buckets

CONSTANTS Numbers,   \* bucket numbers
          Readings,  \* what one sample can say
          Spans,     \* how many buckets may be kept
          Factors,   \* by how much buckets may widen
          Slack      \* how late a sample may be and still be only late

VARIABLES newest, span, seen
vars == <<newest, span, seen>>

\* Everything outside the newest l numbers up to n is forgotten.
Kept(known, n, l) ==
    [m \in Numbers |-> IF m <= n /\ n < m + l THEN known[m] ELSE Gap]

Init ==
    /\ newest \in Numbers /\ span \in Spans
    /\ \E r \in Readings :
         seen = [m \in Numbers |-> IF m = newest THEN Added(Gap, r) ELSE Gap]

\* A sample at n.  One that is only late is not recorded; one that is older
\* than that says that the newest were never true.
Observe(n) ==
    LET before == Kept(seen, n, span)
    IN  /\ newest' = n
        /\ n >= newest \/ n + Slack < newest
        /\ \E r \in Readings : seen' = [before EXCEPT ![n] = Added(@, r)]
        /\ UNCHANGED span

Relength(l) ==
    /\ span' = l
    /\ seen' = Kept(seen, newest, l)
    /\ UNCHANGED newest

\* Buckets factor times as wide, those watched from end to end.
Widen(factor, l) ==
    LET group(m) == [n \in m*factor .. Least(m*factor + factor - 1, newest) |->
                       seen[n]]
    IN  /\ span' = l
        /\ newest' = newest \div factor
        /\ seen' = Kept([m \in 0..newest \div factor |-> Folded(group(m))],
                        newest \div factor, l)

\* Buckets that cannot be compared with the old ones.
Restart(n, l) ==
    /\ newest' = n /\ span' = l
    /\ seen' = [m \in Numbers |-> Gap]

Next ==
    \/ \E n \in Numbers : Observe(n)
    \/ \E l \in Spans : \/ Relength(l)
                        \/ \E f \in Factors : Widen(f, l)
                        \/ \E n \in Numbers : Restart(n, l)

Spec == Init /\ [][Next]_vars
=============================================================================
