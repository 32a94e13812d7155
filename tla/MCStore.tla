------------------------------- MODULE MCStore -------------------------------
(* A small instance of Store: two ids, two labels, two checkouts, samples of *)
(* up to two workspaces, two sessions and a clock of four ticks.             *)
EXTENDS Store, TLC

CONSTANTS a, b, p, q

Obs == {[id |-> 1, label |-> a, path |-> p], [id |-> 2, label |-> a, path |-> p],
        [id |-> 1, label |-> a, path |-> q], [id |-> 2, label |-> b, path |-> q],
        [id |-> 1, label |-> a, path |-> NoPath]}

\* Both orders of two workspaces, and a sample that names one id twice.
SmallSnapshots ==
    {<<>>} \cup {<<x>> : x \in Obs}
    \cup {s \in Obs \X Obs : s[1].id # s[2].id}
    \cup {<<[id |-> 1, label |-> a, path |-> p],
            [id |-> 1, label |-> a, path |-> q]>>}
    \cup {<<[id |-> 1, label |-> a, path |-> q],
            [id |-> 2, label |-> b, path |-> p],
            [id |-> 3, label |-> b, path |-> q]>>}

Found(i, l, w, s) ==
    [id |-> i, label |-> l, path |-> w, session |-> s, seen |-> 1,
     from |-> {}, was |-> {}, took |-> 0, old |-> TRUE]

\* No file, one from before sessions, and a damaged one.
SmallFiles ==
    {<<>>, <<Found(1, a, NoPath, None)>>,
     <<Found(1, a, p, 1), Found(2, b, p, 1), Found(1, b, q, 1)>>}
=============================================================================
