-------------------------------- MODULE Store --------------------------------
(***************************************************************************)
(* Whose series an observation continues (src/src/history.rs, History) and *)
(* which herdr session a sample is attributed to (src/src/herdr.rs).       *)
(*                                                                         *)
(* herdr may stop and start again between any two steps of a sample; each  *)
(* start is a new session.  A snapshot may say anything its parser lets    *)
(* through: ids swapped, reused or repeated, checkouts shared or not       *)
(* reported.  The rings themselves are Rings.tla's; here an entry has the  *)
(* keys it is found by, its stamp, and ghosts of what was folded into it.  *)
(***************************************************************************)
EXTENDS Naturals, FiniteSets, Sequences, SequencesExt

CONSTANTS
    Ids,          \* workspace ids, numbers for their order
    Labels, Paths,
    NoPath,       \* no checkout path
    Snapshots,    \* the observation sequences a sample may consist of
    Files,        \* the entry sequences a process may find on disk
    Caps,         \* values of max_workspaces
    Width,        \* bucket_seconds
    Slack,        \* REANCHOR_AFTER_BUCKETS
    Stamps,       \* bound: the times a sample may be stamped with
    Horizon,      \* the latest of them
    MaxSessions   \* bound: how often herdr is started

None == 0         \* no session could be established

Observation == [id : Ids, label : Labels, path : Paths \cup {NoPath}]
Sessions == 1..MaxSessions
Entry == [id : Ids, label : Labels, path : Paths \cup {NoPath},
          session : Sessions \cup {None}, seen : 0..Horizon,
          from : SUBSET Sessions, \* ghost: the servers it was observed at
          was : SUBSET Paths,     \* ghost: the checkouts it was recorded under
                                  \* since it last gave its key up
          took : Nat,             \* ghost: how much of the last sample it took
          old : BOOLEAN]          \* ghost: it was there before the last sample

ASSUME StoreAssumption ==
    /\ Ids \subseteq Nat /\ Slack \in Nat /\ Width \in Nat \ {0}
    /\ Horizon \in Nat /\ Stamps \subseteq 0..Horizon
    /\ NoPath \notin Paths /\ MaxSessions \in Nat \ {0}
    /\ Caps \subseteq Nat \ {0}
    /\ \A s \in Snapshots : s \in Seq(Observation)
    /\ \A f \in Files :
         /\ f \in Seq(Entry)
         /\ \A i \in DOMAIN f : /\ f[i].from = {} /\ f[i].was = {}
                                /\ f[i].took = 0 /\ f[i].old

VARIABLES
    server,    \* the herdr started last
    up,        \* it has its socket bound
    call,      \* the sample being taken: the mark read before it, who answered
    cap,       \* max_workspaces of the running sampler
    entries,   \* History.workspaces
    lost,      \* ghost: of the entries evicted by the last sample, whether
               \* they took it, their stamp, whether it is ahead of the clock
    gave       \* ghost: the entries, by their place before the last sample,
               \* that it could make give their key up

herdr == <<server, up>>
store == <<entries, cap, lost, gave>>
vars == <<herdr, call, store>>

-----------------------------------------------------------------------------
(* Identity of one observation within its sample.                          *)

\* claims_one_id
ClaimsOneId(o, sample) ==
    Cardinality({i \in DOMAIN sample : sample[i].id = o.id}) = 1

\* durable_key: a path two workspaces of the sample share is no key.
DurableKey(o, sample) ==
    IF Cardinality({i \in DOMAIN sample : sample[i].path = o.path}) = 1
    THEN o.path ELSE NoPath

\* position(): the first index of S, or 0.
FirstOf(S) == IF S = {} THEN 0 ELSE CHOOSE i \in S : \A j \in S : i <= j

\* Mutant: an id and a label are proof enough.
LocateByName(es, o, durable, session) ==
    FirstOf({i \in DOMAIN es : /\ es[i].session = session
                               /\ es[i].id = o.id /\ es[i].label = o.label})

\* Mutant: an unknown checkout falls back to the name, key or no key.
LocateLoosely(es, o, durable, session) ==
    LET mine == {i \in DOMAIN es : es[i].session = session}
        keyed == {i \in mine : es[i].path = durable /\ durable # NoPath}
        named == {i \in mine : es[i].id = o.id /\ es[i].label = o.label}
    IN  IF keyed # {} THEN FirstOf(keyed) ELSE FirstOf(named)

\* locate
Locate(es, o, durable, session) ==
    LET mine == {i \in DOMAIN es : es[i].session = session}
        named == {i \in mine : es[i].id = o.id /\ es[i].label = o.label}
        keyed == {i \in mine : es[i].path = durable}
    IN  IF durable = NoPath THEN FirstOf(named)
        ELSE IF keyed # {} THEN FirstOf(keyed)
        ELSE FirstOf({i \in named : es[i].path = NoPath})

\* What a sample can take off the record: it names the entry by id and label,
\* but under a checkout that it has twice.
GivenUp(es, sample, session) ==
    {i \in DOMAIN es :
        /\ es[i].session = session
        /\ \E k \in DOMAIN sample :
              /\ ClaimsOneId(sample[k], sample)
              /\ es[i].id = sample[k].id /\ es[i].label = sample[k].label
              /\ DurableKey(sample[k], sample) = NoPath
              /\ sample[k].path # NoPath}

\* retain: what is at the places kept, in its order.
Retained(es, kept) ==
    LET place(i) == Cardinality({j \in kept : j <= i})
    IN  [k \in 1..Cardinality(kept) |-> es[CHOOSE i \in kept : place(i) = k]]

-----------------------------------------------------------------------------
(* record: one sample into the store.                                      *)

\* new
NewEntry(o, durable, session, at) ==
    [id |-> o.id, label |-> o.label, path |-> durable, session |-> session,
     seen |-> at, from |-> {}, was |-> {}, took |-> 0, old |-> FALSE]

\* record_workspace, on the entry that was located.
Restamped(e, o, durable) ==
    [e EXCEPT !.id = o.id, !.label = o.label,
              !.path = IF durable # NoPath THEN durable
                       ELSE IF o.path # NoPath THEN NoPath ELSE @,
              !.was = IF durable = NoPath /\ o.path # NoPath THEN {} ELSE @]

\* observe: a little late is dropped, too far behind meets the clock.  The
\* newest bucket is always the one of last_seen.
Observed(e, durable, at, answered) ==
    LET now == at \div Width
        newest == e.seen \div Width
    IN  IF now < newest /\ newest <= now + Slack
        THEN [e EXCEPT !.took = @ + 1]
        ELSE [e EXCEPT !.seen = IF now < newest \/ @ < at THEN at ELSE @,
                       !.took = @ + 1,
                       !.from = IF e.session = None THEN {}
                                ELSE @ \cup {answered},
                       !.was = IF durable = NoPath THEN @
                               ELSE @ \cup {durable}]

\* record_workspace; es is the store so far.
RecordWorkspace(es, o, sample, session, at, answered) ==
    LET durable == DurableKey(o, sample)
        i == Locate(es, o, durable, session)
    IN  IF i = 0
        THEN Append(es, Observed(NewEntry(o, durable, session, at), durable,
                                 at, answered))
        ELSE [es EXCEPT ![i] = Observed(Restamped(@, o, durable), durable, at,
                                        answered)]

Live(e) == e.took > 0

\* Mutant: a displaced id is left in the store.
DropNothing(es, session) == es

\* drop_reused_ids: an id this sample proved to be another workspace's.
DropReused(es, session) ==
    LET claimed == {es[i].id : i \in {j \in DOMAIN es : Live(es[j])}}
    IN  Retained(es, {i \in DOMAIN es : \/ Live(es[i])
                                       \/ es[i].session # session
                                       \/ es[i].id \notin claimed})

\* Mutant: whoever was seen longest ago, whatever the clock says.
GoesByStamp(d, e, at) ==
    \/ d.seen < e.seen
    \/ d.seen = e.seen /\ d.id < e.id
    \/ d.seen = e.seen /\ d.id = e.id /\ d.session < e.session

\* evict's order: a stamp ahead of the clock first, then the oldest.
GoesFirst(d, e, at) ==
    LET ahead(x) == x.seen > at
        ties == /\ ahead(d) = ahead(e) /\ d.seen = e.seen
    IN  \/ ahead(d) /\ ~ahead(e)
        \/ ahead(d) = ahead(e) /\ d.seen < e.seen
        \/ ties /\ d.id < e.id
        \/ ties /\ d.id = e.id /\ d.session < e.session

Stays(es, e, c, at) ==
    Cardinality({j \in DOMAIN es : GoesFirst(e, es[j], at)}) < c

\* Mutant: the cap is one entry late.
EvictedLate(es, c, at) ==
    Retained(es, {i \in DOMAIN es :
        Cardinality({j \in DOMAIN es : GoesFirst(es[i], es[j], at)}) <= c})

\* evict
Evicted(es, c, at) ==
    Retained(es, {i \in DOMAIN es : Stays(es, es[i], c, at)})

\* The samples before this one are the past.
Settled(es) == [i \in DOMAIN es |-> [es[i] EXCEPT !.took = 0, !.old = TRUE]]

\* record's loop, over the observations in their order.
Folded(es, sample, session, at, answered) ==
    LET fold(acc, o) ==
            IF ClaimsOneId(o, sample)
            THEN RecordWorkspace(acc, o, sample, session, at, answered)
            ELSE acc
    IN  FoldLeft(fold, Settled(es), sample)

\* record
Recorded(es, sample, session, at, answered) ==
    DropReused(Folded(es, sample, session, at, answered), session)

Clashes(kept, e) ==
    \E i \in DOMAIN kept :
       /\ kept[i].session = e.session
       /\ kept[i].id = e.id \/ (e.path # NoPath /\ kept[i].path = e.path)

\* normalise: the first holder of an id, and of a path, in each session.
FirstHolders(es) ==
    LET keep(kept, e) == IF Clashes(kept, e) THEN kept ELSE Append(kept, e)
    IN  FoldLeft(keep, <<>>, es)

Normalised(es, c) == Evicted(FirstHolders(es), c, Horizon)

-----------------------------------------------------------------------------
(* The sampler and herdr.                                                  *)

Idle == [phase |-> "idle", before |-> None, answered |-> None]

Init ==
    /\ server = 1 /\ up \in BOOLEAN
    /\ call = Idle /\ lost = {} /\ gave = {}
    /\ cap \in Caps
    /\ \E f \in Files : entries = Normalised(f, cap)

\* session_mark: device, inode and birth time tell every start apart.
SessionMark == IF up THEN server ELSE None

HerdrStops ==
    /\ up
    /\ up' = FALSE
    /\ UNCHANGED <<server, call, store>>

HerdrStarts ==
    /\ ~up /\ server < MaxSessions
    /\ up' = TRUE /\ server' = server + 1
    /\ UNCHANGED <<call, store>>

\* sample: the mark, before the request.
MarkBefore ==
    /\ call.phase = "idle"
    /\ call' = [phase |-> "marked", before |-> SessionMark, answered |-> None]
    /\ UNCHANGED <<herdr, store>>

\* The request is idempotent: a transport failure is retried, on whatever
\* server is there by then.
Ask ==
    /\ call.phase \in {"marked", "asked"} /\ up
    /\ call' = [phase |-> "asked", before |-> call.before,
                answered |-> server]
    /\ UNCHANGED <<herdr, store>>

\* No server, an error, or an answer that reduce_snapshot refuses whole.
AskFails ==
    /\ call.phase \in {"marked", "asked"}
    /\ call' = Idle
    /\ UNCHANGED <<herdr, store>>

\* Mutant: the mark that was read first will do.
AttributedBefore == call.before

\* sample: the mark is kept when it is the same after the answer.
Attributed == IF SessionMark = call.before THEN call.before ELSE None

Record(sample, at) ==
    /\ call.phase = "asked"
    /\ \E full \in {Recorded(entries, sample, Attributed, at, call.answered)} :
         /\ entries' = Evicted(full, cap, at)
         /\ lost' = {[live |-> Live(full[i]), seen |-> full[i].seen,
                        ahead |-> full[i].seen > at]
                       : i \in {j \in DOMAIN full :
                                   ~Stays(full, full[j], cap, at)}}
    /\ gave' = GivenUp(entries, sample, Attributed)
    /\ call' = Idle
    /\ UNCHANGED <<herdr, cap>>

\* The sampler restarts, perhaps with another cap: load_from.
Reload(c) ==
    /\ cap' = c /\ entries' = Normalised(Settled(entries), c)
    /\ call' = Idle /\ lost' = {} /\ gave' = {}
    /\ UNCHANGED herdr

Next ==
    \/ HerdrStops \/ HerdrStarts
    \/ MarkBefore \/ Ask \/ AskFails
    \/ \E s \in Snapshots, at \in Stamps : Record(s, at)
    \/ \E c \in Caps : Reload(c)

Spec == Init /\ [][Next]_vars

-----------------------------------------------------------------------------
(* Properties.                                                             *)

\* Types; the store is never over its cap.
TypeOK ==
    /\ server \in Sessions /\ up \in BOOLEAN
    /\ call \in [phase : {"idle", "marked", "asked"},
                 before : Sessions \cup {None},
                 answered : Sessions \cup {None}]
    /\ cap \in Caps
    /\ entries \in Seq(Entry) /\ Len(entries) <= cap
    /\ lost \subseteq [live : BOOLEAN, seen : 0..Horizon, ahead : BOOLEAN]
    /\ gave \subseteq Nat

\* An entry attributed to a session holds nothing another server said, however
\* often herdr restarts around a sample (sample, locate).
OneSession ==
    \A i \in DOMAIN entries :
        entries[i].session # None
        => entries[i].from \subseteq {entries[i].session}

\* An entry holds the minutes of one checkout, as long as no sample made it
\* give its key up (locate, durable_key).
OneCheckout ==
    \A i \in DOMAIN entries : Cardinality(entries[i].was) <= 1

\* Within a session an id belongs to one entry, and so does a checkout: the id
\* is where a badge is pushed (drop_reused_ids, claims_one_id, normalise).
OneHandle ==
    \A i, j \in DOMAIN entries :
        /\ i # j /\ entries[i].session = entries[j].session
        => /\ entries[i].id # entries[j].id
           /\ entries[i].path = NoPath \/ entries[i].path # entries[j].path

\* The cap falls on finished series before it falls on one sampled now: of
\* the others only one stamped this very second may stay, unless the clock
\* stepped back a little under the one sampled (evict).
FinishedGoFirst ==
    \A v \in lost : v.live /\ ~v.ahead
    => \A i \in DOMAIN entries : Live(entries[i]) \/ entries[i].seen = v.seen

\* A checkout on record is continued by the next sample of its session that
\* names it, under whatever id: never replaced by a new series, not when two
\* workspaces swap ids (record, drop_reused_ids); unless that very sample has
\* the entry's id and label under a checkout it reports twice.
SeriesContinues ==
    [][\A i \in DOMAIN entries \ gave', j \in DOMAIN entries' :
         /\ entries[i].path # NoPath /\ entries'[j].path = entries[i].path
         /\ entries'[j].session = entries[i].session
         => entries'[j].old \/ entries' = entries]_vars

\* An entry takes at most one workspace of a sample (record: identity is
\* resolved against the whole sample).
OneObservationEach == \A i \in DOMAIN entries : entries[i].took <= 1

=============================================================================
