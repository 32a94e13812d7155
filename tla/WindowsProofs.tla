---------------------------- MODULE WindowsProofs ----------------------------
(***************************************************************************)
(* What the clamps and the windows promise, for every setting a file or a  *)
(* command line can hold.                                                  *)
(***************************************************************************)
EXTENDS Windows, TLAPS

(* Division rounds down, by less than the divisor. *)
LEMMA DivBounds ==
  ASSUME NEW a \in Nat, NEW b \in Nat, b > 0
  PROVE  /\ a \div b \in Nat
         /\ (a \div b) * b <= a
         /\ a < (a \div b) * b + b
BY Z3

(* Rounding up covers what is divided. *)
LEMMA CeilBounds ==
  ASSUME NEW a \in Nat, NEW b \in Nat, b > 0
  PROVE  /\ CeilDiv(a, b) \in Nat
         /\ a <= CeilDiv(a, b) * b
         /\ CeilDiv(a, b) * b < a + b
<1>1. a + b - 1 \in Nat
  OBVIOUS
<1>2. /\ CeilDiv(a, b) \in Nat
      /\ CeilDiv(a, b) * b <= a + b - 1
      /\ a + b - 1 < CeilDiv(a, b) * b + b
  BY <1>1, DivBounds DEF CeilDiv
<1>. DEFINE p == CeilDiv(a, b) * b
<1>3. p \in Nat
  BY <1>2
<1>. HIDE DEF p
<1>4. p <= a + b - 1 /\ a + b - 1 < p + b
  BY <1>2 DEF p
<1>5. a <= p /\ p < a + b
  BY <1>3, <1>4
<1>. QED BY <1>2, <1>5 DEF p

(* A clamped setting lies between its limits. *)
LEMMA ClampBetween ==
  ASSUME NEW x \in Nat, NEW low \in Nat, NEW high \in Nat, low <= high
  PROVE  /\ Clamp(x, low, high) \in Nat
         /\ low <= Clamp(x, low, high)
         /\ Clamp(x, low, high) <= high
BY DEF Clamp, Least, Most

(* What a workspace costs is at least its week ring and never the ceiling. *)
LEMMA WorkspaceCost ==
  ASSUME NEW r \in Nat, 8 <= r, r <= 10000, NEW agents \in BOOLEAN
  PROVE  /\ PerWorkspace(r, agents) \in Nat
         /\ PerWorkspace(r, agents) >= 1
         /\ PerWorkspace(r, agents) <= MAX_TOTAL_BUCKETS
<1>. USE DEF MAX_TOTAL_BUCKETS, WEEK_RETENTION_BUCKETS, MAX_AGENTS_PER_WORKSPACE
<1>2. CASE agents
  <2>1. PerWorkspace(r, agents) = r + 168 + r * 4
    BY <1>2 DEF PerWorkspace
  <2>. QED BY <2>1
<1>3. CASE ~agents
  <2>1. PerWorkspace(r, agents) = r + 168 + 0
    BY <1>3 DEF PerWorkspace
  <2>. QED BY <2>1
<1>. QED BY <1>2, <1>3

(* What is affordable is afforded: never none, never over the ceiling. *)
LEMMA AffordableBounds ==
  ASSUME NEW per \in Nat, NEW asked \in Nat,
         per >= 1, per <= MAX_TOTAL_BUCKETS, asked >= 1
  PROVE  /\ Affordable(per, asked) \in Nat
         /\ Affordable(per, asked) >= 1
         /\ per * Affordable(per, asked) <= MAX_TOTAL_BUCKETS
<1>. DEFINE M == MAX_TOTAL_BUCKETS
            q == M \div per
<1>1. M \in Nat
  BY DEF MAX_TOTAL_BUCKETS
<1>2. q \in Nat /\ q * per <= M /\ M < q * per + per
  BY <1>1, DivBounds
<1>. HIDE DEF q, M
<1>3. q >= 1
  <2>1. CASE q = 0
    <3>1. q * per = 0
      BY <2>1
    <3>. QED BY <1>1, <1>2, <3>1 DEF M
  <2>. QED BY <2>1, <1>2
<1>4. Most(per, 1) = per /\ Most(q, 1) = q
  BY <1>2, <1>3 DEF Most
<1>5. CASE per * asked > M
  <2>1. Affordable(per, asked) = q
    BY <1>4, <1>5 DEF Affordable, M, q
  <2>2. per * q = q * per
    BY <1>2
  <2>. QED BY <2>1, <2>2, <1>2, <1>3 DEF M
<1>6. CASE ~(per * asked > M)
  <2>1. Affordable(per, asked) = asked
    BY <1>6 DEF Affordable, M
  <2>2. per * asked \in Nat
    OBVIOUS
  <2>3. per * asked <= M
    BY <2>2, <1>1, <1>6
  <2>. QED BY <2>1, <2>3 DEF M
<1>. QED BY <1>5, <1>6

(* What clamp makes of the settings are numbers within their limits. *)
LEMMA ClampedNumbers ==
  ASSUME NEW c \in Config
  PROVE  /\ Clamped(c).interval \in Nat
         /\ 1 <= Clamped(c).interval /\ Clamped(c).interval <= 3600
         /\ Clamped(c).badge_columns \in Nat /\ 1 <= Clamped(c).badge_columns
         /\ Clamped(c).retention_buckets \in Nat
         /\ 8 <= Clamped(c).retention_buckets
         /\ Clamped(c).retention_buckets <= 10000
         /\ Clamped(c).bucket_seconds \in Nat /\ 1 <= Clamped(c).bucket_seconds
         /\ Clamped(c).badge_window_minutes \in Nat
<1>1. /\ c.interval \in Nat
      /\ c.badge_columns \in Nat
      /\ c.retention_buckets \in Nat
      /\ c.bucket_seconds \in Nat
      /\ c.badge_window_minutes \in Nat
  BY DEF Config
<1>2. /\ Clamped(c).interval = Clamp(c.interval, 1, 3600)
      /\ Clamped(c).badge_columns = Clamp(c.badge_columns, 1, 64)
      /\ Clamped(c).retention_buckets = Clamp(c.retention_buckets, 8, 10000)
      /\ Clamped(c).bucket_seconds = Clamp(c.bucket_seconds, 10, 3600)
      /\ Clamped(c).badge_window_minutes = Clamp(c.badge_window_minutes, 1, 1440)
  BY DEF Clamped, MAX_INTERVAL_SECONDS, MAX_BADGE_COLUMNS,
         MIN_RETENTION_BUCKETS, MAX_RETENTION_BUCKETS, MIN_BUCKET_SECONDS,
         MAX_BUCKET_SECONDS, MAX_BADGE_WINDOW_MINUTES
<1>. DEFINE Within(x, low, high) == x \in Nat /\ low <= x /\ x <= high
<1>3. \A x \in Nat : /\ Within(Clamp(x, 1, 3600), 1, 3600)
                     /\ Within(Clamp(x, 1, 64), 1, 64)
                     /\ Within(Clamp(x, 8, 10000), 8, 10000)
                     /\ Within(Clamp(x, 10, 3600), 10, 3600)
                     /\ Within(Clamp(x, 1, 1440), 1, 1440)
  BY DEF Clamp, Least, Most
<1>4. /\ Within(Clamped(c).interval, 1, 3600)
      /\ Within(Clamped(c).badge_columns, 1, 64)
      /\ Within(Clamped(c).retention_buckets, 8, 10000)
      /\ Within(Clamped(c).bucket_seconds, 10, 3600)
      /\ Within(Clamped(c).badge_window_minutes, 1, 1440)
  <2>. HIDE DEF Within
  <2>1. Within(Clamped(c).interval, 1, 3600)
    BY <1>1, <1>2, <1>3
  <2>2. Within(Clamped(c).badge_columns, 1, 64)
    BY <1>1, <1>2, <1>3
  <2>3. Within(Clamped(c).retention_buckets, 8, 10000)
    BY <1>1, <1>2, <1>3
  <2>4. Within(Clamped(c).bucket_seconds, 10, 3600)
    BY <1>1, <1>2, <1>3
  <2>5. Within(Clamped(c).badge_window_minutes, 1, 1440)
    BY <1>1, <1>2, <1>3
  <2>. QED BY <2>1, <2>2, <2>3, <2>4, <2>5
<1>5. 1 <= Clamped(c).bucket_seconds
  BY <1>4
<1>. QED BY <1>4, <1>5

(* clamp: the history file is bounded by construction.  Whatever the       *)
(* settings, at least one workspace is tracked, and all the rings of all   *)
(* the workspaces tracked stay under MAX_TOTAL_BUCKETS.                    *)
THEOREM StorageBounded ==
  \A c \in Config :
    LET d == Clamped(c)
    IN /\ d.max_workspaces >= 1
       /\ PerWorkspace(d.retention_buckets, d.per_agent_series) * d.max_workspaces
            <= MAX_TOTAL_BUCKETS
<1>. SUFFICES ASSUME NEW c \in Config
              PROVE  LET d == Clamped(c)
                     IN /\ d.max_workspaces >= 1
                        /\ PerWorkspace(d.retention_buckets, d.per_agent_series)
                             * d.max_workspaces <= MAX_TOTAL_BUCKETS
  OBVIOUS
<1>. DEFINE r == Clamp(c.retention_buckets, MIN_RETENTION_BUCKETS,
                       MAX_RETENTION_BUCKETS)
            per == PerWorkspace(r, c.per_agent_series)
            asked == Clamp(c.max_workspaces, 1, MAX_MAX_WORKSPACES)
<1>1. /\ c.retention_buckets \in Nat
      /\ c.max_workspaces \in Nat
      /\ c.per_agent_series \in BOOLEAN
  BY DEF Config
<1>2. r \in Nat /\ 8 <= r /\ r <= 10000
  <2>1. Clamped(c).retention_buckets = r
    BY DEF Clamped
  <2>. QED BY <2>1, ClampedNumbers
<1>3. asked \in Nat /\ asked >= 1
  BY <1>1 DEF Clamp, Least, Most, MAX_MAX_WORKSPACES
<1>4. per \in Nat /\ per >= 1 /\ per <= MAX_TOTAL_BUCKETS
  BY <1>1, <1>2, WorkspaceCost
<1>5. /\ Clamped(c).max_workspaces = Affordable(per, asked)
      /\ Clamped(c).retention_buckets = r
      /\ Clamped(c).per_agent_series = c.per_agent_series
  BY DEF Clamped
<1>. HIDE DEF per, asked
<1>6. /\ Affordable(per, asked) >= 1
      /\ per * Affordable(per, asked) <= MAX_TOTAL_BUCKETS
  BY <1>3, <1>4, AffordableBounds
<1>. QED BY <1>5, <1>6 DEF per

(* ttl_ms: a badge outlives three sampling cycles exactly, and herdr never *)
(* refuses it: the clamps leave the ceiling of the TTL unused.             *)
THEOREM TtlIsThreeCycles ==
  \A c \in Config :
    LET d == Clamped(c)
    IN Ttl(d) = d.interval * 3000 /\ 1 <= Ttl(d) /\ Ttl(d) <= MAX_TTL_MS
<1>. SUFFICES ASSUME NEW c \in Config
              PROVE  LET d == Clamped(c)
                     IN Ttl(d) = d.interval * 3000 /\ 1 <= Ttl(d) /\ Ttl(d) <= MAX_TTL_MS
  OBVIOUS
<1>. DEFINE i == Clamped(c).interval
<1>1. i \in Nat /\ 1 <= i /\ i <= 3600
  BY ClampedNumbers
<1>. HIDE DEF i
<1>2. MAX_TTL_MS \in Nat /\ MAX_TTL_MS >= 10800000
  BY SMT DEF MAX_TTL_MS
<1>3. i * 3000 \in Nat /\ 1 <= i * 3000 /\ i * 3000 <= 10800000
  BY <1>1
<1>4. Clamp(i * 3000, 1, MAX_TTL_MS) = i * 3000 /\ i * 3000 <= MAX_TTL_MS
  BY <1>2, <1>3, SMT DEF Clamp, Least, Most
<1>5. Ttl(Clamped(c)) = Clamp(i * 3000, 1, MAX_TTL_MS)
  BY DEF Ttl, i
<1>. QED BY <1>3, <1>4, <1>5 DEF i

(* buckets_per_badge_column: a badge never asks for more history than the  *)
(* ring holds, as long as it has no more columns than the ring has         *)
(* buckets.                                                                *)
THEOREM BadgeWithinRing ==
  \A c \in Config :
    LET d == Clamped(c)
    IN d.badge_columns <= d.retention_buckets =>
         /\ BadgeColumn(d) >= 1
         /\ BadgeColumn(d) * d.badge_columns <= d.retention_buckets
<1>. SUFFICES ASSUME NEW c \in Config,
                     Clamped(c).badge_columns <= Clamped(c).retention_buckets
              PROVE  /\ BadgeColumn(Clamped(c)) >= 1
                     /\ BadgeColumn(Clamped(c)) * Clamped(c).badge_columns
                          <= Clamped(c).retention_buckets
  OBVIOUS
<1>. DEFINE d == Clamped(c)
            n == d.badge_columns
            r == d.retention_buckets
            q == r \div n
            w == ((d.badge_window_minutes * 60) \div d.bucket_seconds) \div n
<1>1. /\ n \in Nat /\ n >= 1
      /\ r \in Nat
      /\ d.bucket_seconds \in Nat /\ d.bucket_seconds >= 1
      /\ d.badge_window_minutes \in Nat
  BY ClampedNumbers
<1>2. q \in Nat /\ q * n <= r /\ r < q * n + n
  BY <1>1, DivBounds
<1>3. (d.badge_window_minutes * 60) \div d.bucket_seconds \in Nat
  BY <1>1, DivBounds
<1>4. w \in Nat
  BY <1>1, <1>3, DivBounds
<1>5. BadgeColumn(d) = Clamp(w, 1, Most(q, 1))
  BY <1>1 DEF BadgeColumn, Most
<1>6. n <= r
  OBVIOUS
<1>. HIDE DEF d, n, r, q, w
<1>7. q >= 1
  <2>1. CASE q = 0
    <3>1. q * n = 0
      BY <1>1, <2>1
    <3>. QED BY <1>1, <1>2, <1>6, <3>1
  <2>. QED BY <2>1, <1>2
<1>8. BadgeColumn(d) \in Nat /\ BadgeColumn(d) \in 1 .. q
  BY <1>2, <1>4, <1>5, <1>7 DEF Clamp, Least, Most
<1>9. BadgeColumn(d) * n <= q * n
  BY <1>1, <1>2, <1>8, Z3
<1>10. BadgeColumn(d) * n \in Nat /\ q * n \in Nat
  BY <1>1, <1>2, <1>8
<1>11. BadgeColumn(d) * n <= r
  BY <1>1, <1>2, <1>9, <1>10
<1>. QED BY <1>8, <1>11 DEF d, n, r

(* pane_window: the narrowed window is never wider than the ring, so no    *)
(* column is drawn that the ring has no slot for, and it leaves out less   *)
(* than one column of what was asked.                                      *)
THEOREM PaneWithinRing ==
  ASSUME NEW retention \in Nat, NEW full \in Nat, NEW buckets \in 1 .. retention
  PROVE  LET w == PaneWindow(buckets, retention, full)
         IN /\ w.columns >= 1
            /\ w.buckets_per_column >= 1
            /\ Span(w) <= retention
            /\ buckets < Span(w) + w.buckets_per_column
<1>. DEFINE f == Most(full, 1)
            per == CeilDiv(buckets, f)
            need == CeilDiv(buckets, per)
            room == retention \div per
<1>1. f \in Nat /\ f >= 1
  BY DEF Most
<1>2. buckets \in Nat /\ buckets >= 1 /\ buckets <= retention
  OBVIOUS
<1>. HIDE DEF f
<1>3. per \in Nat /\ buckets <= per * f /\ per * f < buckets + f
  BY <1>1, <1>2, CeilBounds
<1>. HIDE DEF per
<1>4. per >= 1
  <2>1. CASE per = 0
    <3>1. per * f = 0
      BY <1>1, <2>1
    <3>. QED BY <1>2, <1>3, <3>1
  <2>. QED BY <2>1, <1>3
<1>5. need \in Nat /\ buckets <= need * per /\ need * per < buckets + per
  BY <1>2, <1>3, <1>4, CeilBounds
<1>6. room \in Nat /\ room * per <= retention /\ retention < room * per + per
  BY <1>3, <1>4, DivBounds
<1>. HIDE DEF need, room
<1>7. need >= 1
  <2>1. CASE need = 0
    <3>1. need * per = 0
      BY <1>3, <2>1
    <3>. QED BY <1>2, <1>5, <3>1
  <2>. QED BY <2>1, <1>5
<1>8. per <= retention
  <2>1. per <= buckets
    <3>1. per * f \in Nat /\ per * f >= per + f - 1
      BY <1>1, <1>3, <1>4, Z3
    <3>. QED BY <1>1, <1>2, <1>3, <3>1
  <2>. QED BY <2>1, <1>2, <1>3
<1>9. room >= 1
  <2>1. CASE room = 0
    <3>1. room * per = 0
      BY <1>3, <2>1
    <3>. QED BY <1>3, <1>6, <1>8, <3>1
  <2>. QED BY <2>1, <1>6
<1>. DEFINE w == PaneWindow(buckets, retention, full)
<1>10. /\ w.buckets_per_column = per
       /\ w.columns = Least(need, room)
  BY <1>3, <1>4, <1>5, <1>6, <1>7, <1>9 DEF PaneWindow, Most, Least, per, f, need, room
<1>. HIDE DEF w
<1>11. Span(w) = Least(need, room) * per
  BY <1>10 DEF Span
<1>12. need * per \in Nat /\ room * per \in Nat
  BY <1>3, <1>5, <1>6
<1>13. CASE need < room
  <2>1. need * per <= room * per
    BY <1>3, <1>5, <1>6, <1>13, Z3
  <2>2. Span(w) = need * per
    BY <1>11, <1>13 DEF Least
  <2>3. Span(w) <= retention /\ buckets < Span(w) + per
    BY <2>1, <2>2, <1>2, <1>3, <1>4, <1>5, <1>6, <1>12
  <2>. QED BY <2>3, <1>4, <1>7, <1>10, <1>13 DEF Least, w
<1>14. CASE ~(need < room)
  <2>1. Span(w) = room * per
    BY <1>11, <1>14 DEF Least
  <2>2. Span(w) <= retention /\ buckets < Span(w) + per
    BY <2>1, <1>2, <1>3, <1>4, <1>6, <1>12
  <2>. QED BY <2>2, <1>4, <1>9, <1>10, <1>14 DEF Least, w
<1>. QED BY <1>13, <1>14

(* --since: however far back is asked of a ring of any size, what is drawn *)
(* stays inside the ring and is at least one column.                       *)
THEOREM SinceWithinRing ==
  ASSUME NEW retention \in Nat \ {0}, NEW width \in Nat \ {0},
         NEW full \in Nat, NEW since \in Nat
  PROVE  LET w == PaneWindow(Asked(since, width, retention), retention, full)
         IN w.columns >= 1 /\ Span(w) <= retention
<1>1. retention * width \in Nat
  OBVIOUS
<1>2. Most(Least(since, retention * width), width) \in Nat
  BY <1>1 DEF Most, Least
<1>3. CeilDiv(Most(Least(since, retention * width), width), width) \in Nat
  BY <1>2, CeilBounds
<1>4. Asked(since, width, retention) \in 1 .. retention
  BY <1>3 DEF Asked, Most, Least
<1>. QED BY <1>4, PaneWithinRing

(* The windows nobody narrowed: the fine pane fits any ring that holds a   *)
(* bucket, and the week's is the week's ring exactly.                      *)
THEOREM FullWindowsFit ==
  /\ \A retention \in Nat \ {0} :
       /\ FineWindow(retention).columns >= 1
       /\ Span(FineWindow(retention)) <= retention
  /\ Span(WeekWindow) = WEEK_RETENTION_BUCKETS
<1>1. ASSUME NEW r \in Nat \ {0}
      PROVE  FineWindow(r).columns >= 1 /\ Span(FineWindow(r)) <= r
  <2>. DEFINE n == Most(Least(PANE_COLUMNS, r), 1)
              q == r \div n
  <2>1. n \in Nat /\ n >= 1 /\ n <= r
    BY DEF Most, Least, PANE_COLUMNS
  <2>. HIDE DEF n
  <2>2. q \in Nat /\ q * n <= r /\ r < q * n + n
    BY <2>1, DivBounds
  <2>3. FineWindow(r).columns = n /\ FineWindow(r).buckets_per_column = Most(q, 1)
    BY DEF FineWindow, n
  <2>. HIDE DEF q
  <2>4. q >= 1
    <3>1. CASE q = 0
      <4>1. q * n = 0
        BY <2>1, <3>1
      <4>. QED BY <2>1, <2>2, <4>1
    <3>. QED BY <3>1, <2>2
  <2>5. Most(q, 1) = q
    BY <2>2, <2>4 DEF Most
  <2>6. n * q = q * n
    BY <2>1, <2>2
  <2>. QED BY <2>1, <2>2, <2>3, <2>5, <2>6 DEF Span
<1>2. Span(WeekWindow) = WEEK_RETENTION_BUCKETS
  BY DEF Span, WeekWindow, WEEK_COLUMNS, WEEK_BUCKETS_PER_COLUMN,
         WEEK_RETENTION_BUCKETS
<1>. QED BY <1>1, <1>2
=============================================================================
