------------------------------- MODULE Windows -------------------------------
(***************************************************************************)
(* The numbers the sampler and the panes run on: what clamp makes of the   *)
(* settings (config.rs), how much history a badge and a pane ask the rings *)
(* for (config.rs, render.rs).  Numbers of u64 and usize: after the clamp  *)
(* no product below comes near saturating.                                 *)
(***************************************************************************)
EXTENDS Naturals

MAX_INTERVAL_SECONDS     == 3600
MAX_TTL_MS               == 86400000
MIN_BUCKET_SECONDS       == 10
MAX_BUCKET_SECONDS       == 3600
MIN_RETENTION_BUCKETS    == 8
MAX_RETENTION_BUCKETS    == 10000
MAX_BADGE_COLUMNS        == 64
MAX_BADGE_WINDOW_MINUTES == 1440
MAX_MAX_WORKSPACES       == 512
MAX_AGENTS_PER_WORKSPACE == 4
MAX_TOTAL_BUCKETS        == 65536
WEEK_BUCKET_SECONDS      == 3600
WEEK_RETENTION_BUCKETS   == 168
WEEK_COLUMNS             == 28
WEEK_BUCKETS_PER_COLUMN  == 6
PANE_COLUMNS             == 32

Config ==
  [interval : Nat, bucket_seconds : Nat, retention_buckets : Nat,
   badge_columns : Nat, badge_window_minutes : Nat, max_workspaces : Nat,
   per_agent_series : BOOLEAN]

Least(x, y) == IF x < y THEN x ELSE y
Most(x, y)  == IF x < y THEN y ELSE x
Clamp(x, low, high) == Least(Most(x, low), high)
CeilDiv(x, y) == (x + y - 1) \div y

(* What a workspace costs: its fine ring, the week, and a ring per agent.  *)
PerWorkspace(retention, agents) ==
  retention + WEEK_RETENTION_BUCKETS
    + (IF agents THEN retention * MAX_AGENTS_PER_WORKSPACE ELSE 0)

(* The workspaces that can be afforded of those asked for. *)
Affordable(per, asked) ==
  IF per * asked > MAX_TOTAL_BUCKETS
    THEN Most(MAX_TOTAL_BUCKETS \div Most(per, 1), 1) ELSE asked

(* clamp *)
Clamped(c) ==
  LET retention == Clamp(c.retention_buckets, MIN_RETENTION_BUCKETS,
                         MAX_RETENTION_BUCKETS)
  IN [interval |-> Clamp(c.interval, 1, MAX_INTERVAL_SECONDS),
      bucket_seconds |->
        Clamp(c.bucket_seconds, MIN_BUCKET_SECONDS, MAX_BUCKET_SECONDS),
      retention_buckets |-> retention,
      badge_columns |-> Clamp(c.badge_columns, 1, MAX_BADGE_COLUMNS),
      badge_window_minutes |->
        Clamp(c.badge_window_minutes, 1, MAX_BADGE_WINDOW_MINUTES),
      max_workspaces |->
        Affordable(PerWorkspace(retention, c.per_agent_series),
                   Clamp(c.max_workspaces, 1, MAX_MAX_WORKSPACES)),
      per_agent_series |-> c.per_agent_series]

(* ttl_ms, of a badge push. *)
Ttl(c) == Clamp(c.interval * 3000, 1, MAX_TTL_MS)

(* buckets_per_badge_column *)
BadgeColumn(c) ==
  LET columns == Most(c.badge_columns, 1)
      wanted  == ((c.badge_window_minutes * 60) \div Most(c.bucket_seconds, 1))
                   \div columns
  IN Clamp(wanted, 1, Most(c.retention_buckets \div columns, 1))

(* The buckets --since asks for: no more than the ring retains, no less    *)
(* than one.                                                               *)
Asked(since, width, retention) ==
  Least(Most(CeilDiv(Most(Least(since, retention * width), width), width), 1),
        Most(retention, 1))

(* pane_window, narrowed to `buckets` of the ring: the columns widen first,*)
(* and then only as many are drawn as the ring fills.                      *)
PaneWindow(buckets, retention, full) ==
  LET per == Most(CeilDiv(buckets, Most(full, 1)), 1)
  IN [columns |-> Most(Least(CeilDiv(buckets, per), Most(retention \div per, 1)), 1),
      buckets_per_column |-> per]

(* fine_window and week_window: the geometry nobody narrowed. *)
FineWindow(retention) ==
  LET columns == Most(Least(PANE_COLUMNS, retention), 1)
  IN [columns |-> columns, buckets_per_column |-> Most(retention \div columns, 1)]

WeekWindow == [columns |-> WEEK_COLUMNS,
               buckets_per_column |-> WEEK_BUCKETS_PER_COLUMN]

Span(w) == w.columns * w.buckets_per_column
=============================================================================
