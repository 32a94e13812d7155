------------------------------ MODULE MCRings ------------------------------
EXTENDS Rings, TLC

Agent(state, moved) == [state |-> state, moved |-> moved]

MCObservations ==
    {[p \in {} |-> 0],
     1 :> Agent("working", FALSE), 1 :> Agent("blocked", TRUE),
     2 :> Agent("working", FALSE),
     1 :> Agent("working", TRUE) @@ 2 :> Agent("blocked", FALSE)}
=============================================================================
