------------------------------- MODULE Rings -------------------------------
(***************************************************************************)
(* The rings of one tracked workspace (src/src/history.rs,                 *)
(* WorkspaceHistory): the fine ring, the week ring and a ring per agent,   *)
(* under a wall clock that may jump either way, and reloads of the file    *)
(* with another configuration.                                             *)
(***************************************************************************)
EXTENDS Ring

CONSTANTS
    Panes,      \* pane ids of agents, numbers for their order
    MaxAgents,  \* MAX_AGENTS_PER_WORKSPACE
    Lens,       \* values of retention_buckets
    Sizes,      \* values of bucket_seconds
    WeekLen,    \* WEEK_RETENTION_BUCKETS
    WeekSize,   \* WEEK_BUCKET_SECONDS
    Slack,      \* REANCHOR_AFTER_BUCKETS
    Observations, \* what a sample may say of the agents: for the panes it
                  \* has, the state and whether state_change_seq moved
    Stamps,     \* bound: the times a sample may be stamped with
    Horizon,    \* the latest of them
    MaxSamples  \* bound: how many samples are recorded

ASSUME RingsAssumption ==
    /\ Panes \subseteq Nat /\ MaxAgents \in Nat \ {0}
    /\ Lens \subseteq Nat \ {0} /\ Sizes \subseteq Nat \ {0}
    /\ WeekLen \in Nat \ {0} /\ WeekSize \in Nat \ {0}
    /\ Slack \in Nat /\ MaxSamples \in Nat \ {0}
    /\ Horizon \in Nat /\ Stamps \subseteq 0..Horizon
    /\ \A obs \in Observations :
         /\ DOMAIN obs \subseteq Panes /\ IsFiniteSet(DOMAIN obs)
         /\ \A p \in DOMAIN obs :
              obs[p] \in [state : {"working", "blocked", "idle"}, moved : BOOLEAN]

VARIABLES
    len, size, perAgent,  \* the configuration in force
    fine, week,           \* the two rings of the workspace
    agents,               \* the agents with a ring: the ring, last_seen
    known,                \* panes with a recorded state_change_seq
    lastSeen,             \* last_seen
    now,                  \* ghost: the time of the last recorded sample
    taken,                \* ghost: how many samples were recorded
    met,                  \* ghost: the buckets an agent was observed in
    lagging               \* ghost: agents behind a sample that rewound

conf == <<len, size, perAgent>>
ghosts == <<now, taken, met, lagging>>
vars == <<conf, fine, week, agents, known, lastSeen, ghosts>>

Times == 0..Horizon
Tracked == DOMAIN agents

-----------------------------------------------------------------------------
(* Observations.                                                           *)

\* A pane seen for the first time has not moved.
Plausible(obs) == \A p \in DOMAIN obs : obs[p].moved => p \in known

AgentReading(obs, p) ==
    [working |-> obs[p].state = "working",
     blocked |-> obs[p].state = "blocked",
     transitions |-> IF obs[p].moved THEN 1 ELSE 0]

WorkspaceReading(obs) ==
    [working |-> \E p \in DOMAIN obs : obs[p].state = "working",
     blocked |-> \E p \in DOMAIN obs : obs[p].state = "blocked",
     transitions |-> Least(Cardinality({p \in DOMAIN obs : obs[p].moved}),
                           MaxCount)]

-----------------------------------------------------------------------------
(* Agents.                                                                 *)

NoAgents == [p \in {} |-> 0]

\* Mutant: the correction stops at the workspace's own rings.
RewindNoAgent(number, at) == agents

\* Mutant: the rings are corrected and the stamps beside them are not.
RewindNoStamp(number, at) ==
    [p \in Tracked |-> [agents[p] EXCEPT !.ring = Rewind(@, number)]]

\* rewind: every agent's ring and stamp meet the corrected clock.
RewindAgents(number, at) ==
    [p \in Tracked |->
        [ring |-> Rewind(agents[p].ring, number),
         seen |-> Least(agents[p].seen, at)]]

\* observe_agents, up to the eviction; have is what the rewind left.
Recorded(have, obs, number, at) ==
    [p \in DOMAIN have \cup DOMAIN obs |->
        IF p \notin DOMAIN obs THEN have[p]
        ELSE LET before == IF p \in DOMAIN have THEN have[p]
                           ELSE [ring |-> Blank(len, number), seen |-> at]
             IN  [ring |-> Absorb(Reshape(before.ring, len), number,
                                  AgentReading(obs, p)),
                  seen |-> Most(before.seen, at)]]

\* Mutant: the most recently seen first.
GoesRecentFirst(have, at, p, q) ==
    \/ have[p].seen > have[q].seen
    \/ have[p].seen = have[q].seen /\ p < q

\* The order of eviction: stamps from the future, then old ones, then by id.
GoesBefore(have, at, p, q) ==
    LET future(x) == have[x].seen > at
    IN  \/ future(p) /\ ~future(q)
        \/ /\ future(p) = future(q)
           /\ \/ have[p].seen < have[q].seen
              \/ have[p].seen = have[q].seen /\ p < q

\* Mutant: the cap is one agent late.
EvictedLate(have, at) ==
    [p \in {x \in DOMAIN have :
              Cardinality({y \in DOMAIN have : GoesBefore(have, at, x, y)})
                <= MaxAgents} |-> have[p]]

\* evict_agents: those that go before fewer than the cap stay.
Evicted(have, at) ==
    [p \in {x \in DOMAIN have :
              Cardinality({y \in DOMAIN have : GoesBefore(have, at, x, y)})
                < MaxAgents} |-> have[p]]

-----------------------------------------------------------------------------
\* new, and the observation that introduced the entry.
Init ==
    /\ len \in Lens /\ size \in Sizes /\ perAgent \in BOOLEAN
    /\ \E at \in Stamps, obs \in Observations :
         /\ \A p \in DOMAIN obs : ~obs[p].moved
         /\ fine = Absorb(Blank(len, at \div size), at \div size,
                          WorkspaceReading(obs))
         /\ week = Absorb(Blank(WeekLen, at \div WeekSize),
                          at \div WeekSize, WorkspaceReading(obs))
         /\ agents = IF perAgent
                     THEN Evicted(Recorded(NoAgents, obs, at \div size, at), at)
                     ELSE NoAgents
         /\ known = DOMAIN obs
         /\ lastSeen = at /\ now = at /\ taken = 1
         /\ met = [p \in Panes |-> {n \in {at \div size} : p \in Tracked}]
    /\ lagging = {}

\* A sample so little behind the newest bucket is only late, and dropped.
Late(number) == number < fine.newest /\ fine.newest <= number + Slack

\* observe, of a sample that is not dropped.
Observe(at, obs) ==
    LET number == at \div size
        rewound == number < fine.newest
        have == IF rewound THEN RewindAgents(number, at) ELSE agents
    IN  /\ taken < MaxSamples /\ taken' = taken + 1
        /\ ~Late(number) /\ Plausible(obs)
        /\ fine' = Absorb(fine, number, WorkspaceReading(obs))
        /\ week' = Absorb(week, at \div WeekSize, WorkspaceReading(obs))
        /\ agents' = IF perAgent
                     THEN Evicted(Recorded(have, obs, number, at), at)
                     ELSE NoAgents
        /\ known' = DOMAIN obs
        /\ lastSeen' = IF rewound THEN at ELSE Most(lastSeen, at)
        /\ now' = at
        /\ met' = [p \in Panes |->
                     IF p \notin DOMAIN agents' THEN {}
                     ELSE {n \in met[p] : n <= number}
                            \cup {n \in {number} : p \in DOMAIN obs}]
        /\ lagging' = {p \in DOMAIN agents' \cap Tracked :
                         \/ p \in lagging
                         \/ rewound /\ agents[p].ring.newest < number}
        /\ UNCHANGED conf

\* Another process reads the file with another configuration: load_from and
\* normalise.  others is whether a fold left something of other workspaces.
Reload(l, s, a, others) ==
    LET factor == s \div size
        folds == s > size /\ s % size = 0
        folded == Coarsened(fine, factor, l)
        survives == folds /\ (others \/ Holds(folded))
    IN  /\ <<l, s, a>> # conf
        /\ len' = l /\ size' = s /\ perAgent' = a
        /\ fine' = IF s = size THEN Reshape(fine, l)
                   ELSE IF survives THEN folded
                   ELSE Blank(l, lastSeen \div s)
        /\ agents' = IF s = size /\ a
                     THEN [p \in Tracked |->
                             [agents[p] EXCEPT !.ring = Reshape(@, l)]]
                     ELSE NoAgents
        /\ met' = [p \in Panes |-> IF p \in DOMAIN agents' THEN met[p] ELSE {}]
        /\ lagging' = lagging \cap DOMAIN agents'
        /\ UNCHANGED <<week, known, lastSeen, now, taken>>

Next ==
    \/ \E at \in Stamps, obs \in Observations : Observe(at, obs)
    \/ \E l \in Lens, s \in Sizes, a, others \in BOOLEAN :
         Reload(l, s, a, others)

Spec == Init /\ [][Next]_vars

-----------------------------------------------------------------------------
(* Properties.                                                             *)

\* Types; no ring is ever longer than it is configured to be, nor more rings
\* than the cap.
IsRing(r, l) ==
    /\ r.len = l /\ r.newest \in Times
    /\ r.buckets \in [0..l-1 -> Bucket]

TypeOK ==
    /\ len \in Lens /\ size \in Sizes /\ perAgent \in BOOLEAN
    /\ IsRing(fine, len) /\ IsRing(week, WeekLen)
    /\ Tracked \subseteq Panes /\ Cardinality(Tracked) <= MaxAgents
    /\ \A p \in Tracked : IsRing(agents[p].ring, len) /\ agents[p].seen \in Times
    /\ known \subseteq Panes
    /\ lastSeen \in Times /\ now \in Times /\ taken \in 1..MaxSamples
    /\ met \in [Panes -> SUBSET Times] /\ lagging \subseteq Tracked

\* What the fine ring shows of each bucket number is what was recorded for
\* that very number since the clock was last right, through laps, gaps,
\* corrections, other lengths and other bucket sizes.
Recording == INSTANCE Timeline WITH
    Numbers <- Times, Spans <- Lens,
    Factors <- {s \div t : s, t \in Sizes} \ {0, 1},
    Readings <- {WorkspaceReading(obs) : obs \in Observations},
    newest <- fine.newest, span <- fine.len,
    seen <- [n \in Times |-> At(fine, n)]

FineIsTimeline == Recording!Spec

\* However a window is cut into columns, and wherever it ends, the columns
\* and the figures beside them describe the same buckets: those of the window
\* that were watched, each once, and never more blocked than watched time.
WindowAgrees(wanted, columns, per) ==
    LET range(c) == ColumnRange(fine, wanted, columns, c, per)
        inWindow == {n \in Times : /\ n <= wanted
                                   /\ wanted < n + columns * per
                                   /\ Observed(At(fine, n))}
        figures == BlockedAndWatched(fine, wanted, columns * per, size)
    IN  /\ UNION {Watched(fine, range(c)) : c \in 0..columns-1} = inWindow
        /\ figures.watched = size * Cardinality(inWindow)
        /\ figures.blocked <= figures.watched
        /\ figures.watched = 0 <=>
             \A c \in 0..columns-1 :
                Series(fine, wanted, columns, per)[c] = NoLevel

\* So do all the windows of up to two columns (series, blocked_and_watched).
WindowsAgree ==
    \A wanted \in Stamps, columns \in 1..2, per \in 1..3 :
        WindowAgrees(wanted, columns, per)

\* The row of an agent has no bar for a time nobody watched that agent, except
\* as AgentRowTruth below is refuted (rewind of every agent's ring).
RowTruth(p) ==
    \A n \in Times : Observed(At(agents[p].ring, n)) => n \in met[p]
AgentRowHonest == \A p \in Tracked \ lagging : RowTruth(p)

\* The week ring has seen every sample the fine ring has: an hour has no fewer
\* samples than the buckets within it together.
WeekCoversFine ==
    (\A l \in Lens, s \in Sizes : l * s <= (WeekLen - 1) * WeekSize) =>
    \A h \in Lap(week) :
        LET within == {n \in Lap(fine) : /\ h * WeekSize <= n * size
                                         /\ (n + 1) * size <= (h + 1) * WeekSize}
        IN  Least(SumFunction([n \in within |-> At(fine, n).samples]), MaxCount)
              <= At(week, h).samples

\* Wherever the clock has been, no ring or stamp of an agent is ahead of the
\* workspace's own: nothing is left in the future for the clock to reach again.
NoRingAhead ==
    \A p \in Tracked : /\ agents[p].ring.newest <= fine.newest
                       /\ agents[p].seen <= lastSeen

\* The cap never falls on an agent of the last sample while one that was not in
\* it stays, unless that one's stamp is as recent: it was seen that second, or
\* a correction took its stamp back to it.  Where a clock has stepped back
\* within a bucket (lastSeen # now) the code promises less.
SampledAgentsStay ==
    lastSeen = now /\ known \ Tracked # {} =>
        \A p \in Tracked \ known : agents[p].seen = now

\* The row of an agent has no bar for a time nobody watched that agent.
AgentRowTruth == \A p \in Tracked : RowTruth(p)
=============================================================================
