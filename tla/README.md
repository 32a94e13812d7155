# A verification project for herdr-pulse

`pulse` samples what herdr's workspaces are doing, keeps a bounded history of it
in one JSON file, and shows a badge per workspace. One command line tool does
everything: verbs that run for a moment (`--enable`, `--disable`, `--toggle`,
`--restore`, `--forget`, `--supervise`, `--unsupervise`, `--setup`, the views),
and one long-lived sampler per herdr socket (`--daemon`). Nothing coordinates
these processes but files: flocks, markers, a pid, a unit file, the history.
That is what is modelled here, in TLA+, checked with TLC and, for the
properties that matter most, proved with TLAPS.

## 1. The system

| Part | Source | State | Operations | Talks to |
|---|---|---|---|---|
| Lifecycle | `src/src/daemon.rs` | control.lock, owner.lock, enabled, sampler.pid, stop marker; the sampler's two threads | enable, disable, toggle, restore, forget_history, spawn_detached, run_daemon, the signal thread | supervisor, history file, herdr |
| Supervisor | `src/src/supervise.rs` | unit file, start-at-login registration, the running unit | install, remove, start, stop, restore_start_at_login | systemd or launchd, lifecycle |
| Badges | `daemon.rs`, `herdr.rs` | map of lit badges under a mutex; tokens on herdr's screen with a TTL | badge_plan, batch, push, shutdown, sweep | herdr over its socket |
| Rings | `src/src/history.rs` | per workspace and agent: columns of counters addressed by bucket number mod length | advance, rewind, absorb, reshape, coarsen, series | store |
| Store | `history.rs` | workspaces with id, checkout, session, last seen | record, locate, drop_reused_ids, evict, normalise, activity | rings, herdr samples |
| Persistence | `history.rs`, `private_fs.rs` | history.json and its temporary file | save_to, load_from, forget_in | sampler, views, `--forget` |
| Setup | `src/src/setup.rs` | herdr's config, the transaction file, backups | run_setup, finish_setup_reload, run_rollback | herdr |
| Namespace | `src/src/config.rs` | default.socket | SessionPaths, stable_default_classification, clamp | everything |
| herdr client | `src/src/herdr.rs` | one connection | sample (session mark on both sides), report_tokens | herdr |
| Model, views | `model.rs`, `render.rs` | none | tones, sparklines | - |

### What is hard, part by part

* **Lifecycle and supervisor.** Verbs overlap; a verb gives CONTROL up before it
  has finished (`await_started`) or gives up waiting (`STOP_TIMEOUT`); OWNER is
  inherited through fork, so it has two holders for a while; a pid outlives its
  process; the supervisor restarts what a verb has just stopped; SIGTERM can
  arrive at any step of a sampler, from the user, from a verb that will restart
  it, or from outside. Correct means: one history writer; the process that is
  signalled is the owner; a verb that returned Ok has done what it says;
  deleted history stays deleted; the stop marker tells the truth.
* **Badges.** Main thread and signal thread share the map; a request may fail
  or time out after herdr applied it. Correct means: no badge is left lit after
  a shutdown that could reach herdr, at most one tone per workspace in the map,
  and what the map forgets expires.
* **Rings.** Old laps, skipped buckets, a clock that goes back, changes of
  length and resolution. Correct means: a bucket shows what was recorded for
  that very bucket number, or nothing.
* **Store.** Ids are reused and swapped by herdr, checkouts may be ambiguous,
  sessions split. Correct means: one workspace's past never becomes another's.
* **Persistence.** A kill between write and rename, readers at any moment.
  Correct means: a reader sees a whole generation, forgotten history is gone.
* **Setup.** A crash between any two steps, edits by the user in between, two
  runs at once. Correct means: rollback restores the user's file, or refuses.

The hazards, each at its line and with the properties that cover it, are listed
in `PROJECT.json`; those without a property say why.

## 2. The modules

| Module | What it models | Abstract specification | Proved |
|---|---|---|---|
| `Lifecycle` | daemon.rs, supervise.rs: verbs, samplers, supervisor | - | all its safety properties |
| `Badges` | push, shutdown, sweep, batch, TTL; opens Lifecycle's `Push`, `Shutdown`, `Sweep` | - | all its invariants |
| `Rings` over `Ring`, `Buckets` | the rings of one workspace | `Timeline` | all its properties, the refinement too |
| `Store` | a sample and the entries it lands on; the session mark | - | all its properties, and that attribution is honest |
| `Setup` | run_setup, run_rollback, file by file | - | all its properties |
| `StateRoot` | stable_default_classification, and save_to, load_from, forget_in inside the root it protects; opens Lifecycle's `Save`, `Delete` | `Namespace` | all its properties |
| `Windows` | clamp, the badge's and the panes' windows: operators, no state | - | its bounds |

They meet at named steps: a `Push` of Lifecycle is `Badges`' StartPush to
EndPush, its `Save` is `StateRoot`'s SaveCreate to SaveRename, an `Observe` of
`Rings` is the inside of `Store`'s `Observed`, and what `StateRoot` calls
`owner` is what Lifecycle proves of OWNER and CONTROL. They are not composed
into one state space: each pair shares one or two bits.

Every safety property and every action property that a run checks is also a
theorem; left to TLC are liveness and what the runs refute (section 9).

Every model is written so that it can be proved about: no RECURSIVE operator,
constants with their assumptions, one action per step.

## 3. Lifecycle

`Lifecycle.tla` models one socket namespace. `Cmd` is a set of slots for CLI
processes, `Daemon` a set of pids for samplers; `Verbs` and `Env` say what an
instance may do. The code correspondence, definition by definition, is the
`map` of `PROJECT.json`; in outline:

* **Locks.** `control` is the holder of control.lock, which every verb waits
  for. `owner` is the *set* of processes with a descriptor of the locked owner
  file: `{c}` in the parent before fork, `{c, d}` after it, `{d}` once the
  parent closed its own. The lock is free when the set is empty. A process
  that dies leaves both.
* **A CLI process** is a program counter `pc[c]`, a `verb`, the pid it read or
  forked (`tgt`), one remembered Boolean (`was`: `was_live` in
  `forget_history`, `was_enabled` in `install`) and the readiness pipe
  (`ready`). Verbs share steps as the Rust functions share callees; where they
  differ, the next label depends on the verb (`FirstStep`, `AfterStop`,
  `AfterDelete`). `late` is an Ok that followed an expired `STOP_TIMEOUT`.
* **A sampler** is the location `st[d]` of its main thread and `sig[d]` of its
  signal thread, plus the history it holds (`mem[d]`). Up to `arm` the default
  disposition of SIGTERM kills it; after that the signal thread flags, records
  the reason, clears badges, removes the pid and exits. A panic writes the
  marker, then unwinding releases OWNER, then the process dies, and the signal
  thread may do anything meanwhile. That is a build that unwinds: the release
  profile has `panic = "abort"` (`src/Cargo.toml:27`), where the process dies
  as the hook returns. `Unwind` and `Unwound` allow what the shipped binary
  does, both at once, and more.
* **The supervisor** is the unit file, whether it is registered for login,
  whether it is active, and its main process. An active unit without a process
  is started, whatever the last one exited with (Restart=always). launchd is
  taken to behave as systemd does.
* **Data.** The history is `absent`, `current` or `forgotten` (recorded before
  the last `--forget`); all badges are one bit `lit`. `by` is a ghost that
  says who asked for the stop being handled, and whether he gave up waiting.
  `off` is another: a `--disable` (or a `--toggle` that disables) has returned
  Ok, and no verb has asked for a sampler since (`Mark`, `Write`).

Simplifications that a reader should know of: the mutex between `push` and
`shutdown` is one atomic `Push` (`Badges` opens it); failures of opening
locks, reading markers and removing files are left out, those of fork, pid
publication, systemctl, herdr connections, save and deletion are in; sampling
errors only skip a cycle, which here is the sampler not taking its step;
arguments are valid; the exit status of `--forget` after a failed deletion is
not told apart; a pid is reused only once its process is gone and reaped.

### Properties

| Property | Says |
|---|---|
| `TypeOK` | every variable has its type |
| `SingleWriter` | never two samplers past the gate; none while `--forget` deletes |
| `NoResurrection` | what `--forget` deleted is never saved back |
| `StopTargetsOwner` | a verb about to signal holds the pid of the owner, if there is one |
| `ReadyMeansPublished` | a child that reported readiness is the one the pid file names |
| `DisableIsLastWord` | `--disable` that waited its sampler out leaves nothing lit and nobody to light it |
| `EnableDelivers` | `--enable` that settles on Ok leaves an owner, published or already on its way out |
| `NoInheritedEpitaph` | a running sampler carries no earlier stop marker |
| `OwnedOnlyWhenWanted` | a namespace gets an owner only while enabled |
| `UserStopIsNotTerminated` | a stop the user waits for is recorded as his |
| `VerbsReturn` | every verb returns |
| `SupervisedComesBack` | an active unit in an enabled namespace runs again and again |
| `EnableNeverPassesDisable` | `--enable` never takes the sampler a `--disable` is stopping for a running one, unless that `--disable` gave up waiting |
| `RollbackKeepsDisable` | refuted: undoing a failed `--supervise` never enables a namespace that a `--disable` has returned Ok for since (`off`) |

### Runs

Two verbs and two pids are the smallest instance with every race of interest:
verb against verb, a stopping sampler against its successor, a foreign sampler
against a detached child, a reused pid. A third verb only queues for CONTROL.
CLI slots and pids are symmetric. Environment kinds are split over runs because
together they multiply states without meeting.

| Run | Instance | Shows |
|---|---|---|
| `lifecycle_detached` | 2 of enable, disable, toggle, restore, forget; 2 pids, no unit; kill, crash, signal, I/O failures, both timeouts, foreground | the safety properties without a supervisor |
| `lifecycle_supervised` | 2 of enable, disable, forget, supervise, unsupervise; 2 pids; platform failures, both timeouts, reboot | what verbs promise, what an owner needs, what a stop marker says, with and without the unit |
| `lifecycle_live` | 1 verb, 1 pid, all verbs; both timeouts, panic | liveness |
| `lifecycle_rollback` | 2 of enable, supervise, disable; slow start | a violation |

`SingleWriter` and `NoResurrection` are checked without the unit and proved with
it. `lifecycle_supervised` leaves out the faults that let a start fail after the
gate (`io`), which refute `NoInheritedEpitaph` (see below), and kills and foreign
signals, which may end a sampler between its readiness and the verb's return.

Bounds: `Foreground` never takes the last free pid of the instance, otherwise
the model would run out of processes, which a machine does not. Nothing else
is capped: all data is finite. A process slot that returned is used again, so
runs have no end and deadlock is checked, which says something only where no
`Reboot` can end the wait: in `lifecycle_detached` and `lifecycle_live`.

### Fairness

`FairSpec` assumes that a CLI process runs (weak fairness of its steps), that
flock lets every waiter through in the end (strong fairness of the three
acquisitions), that a sampler that has started gets through its boot and its
end, and that the supervisor restarts an active unit and kills one that does
not stop. Nothing is assumed of a running sampler's two threads, since herdr
may keep both waiting; that is what `VerbsReturn` is about: with a sampler that
never reacts, only `DrainTimeout` and the supervisor's kill end the wait. No
fault is fair, so nothing relies on one happening.

### Where the code and its documents differ

* **a failed install overrides a disable** (`lifecycle_rollback`). `install`
  notes `was_enabled`, releases CONTROL to wait for the sampler, and restores
  the note when the wait fails. In the run's trace the namespace was enabled
  before; a `--disable` runs from its start to its Ok while `install` waits, and
  the rollback then puts the marker back. `off` is what makes this a lost
  `--disable`: a verb's own `Write` clears it, so it is set in `Revert` only by
  a `--disable` that returned after that `Write`.

Two more are exceptions of the properties rather than runs of their own:

* **enable passes disable.** `daemon.rs:20-21` says the control flock keeps
  enable from passing disable in the stopping window. After `STOP_TIMEOUT` a
  non-strict stop returns Ok and CONTROL is released with OWNER still held;
  `--enable` then finds OWNER held and reports success for a sampler that is
  about to exit. The namespace stays enabled and nothing runs. The same
  `--enable` may put the marker back before the stop is recorded, which then
  reads `terminated`. `by[d] = "left"` marks such a stop.
* **a stop marker lands on a successor.** `run` owns the OwnerGuard, so a start
  that fails in `run` (`ArmFails`) has released OWNER before `run_daemon`
  records the failure. A successor may have cleared the marker and be running
  by then, contrary to `daemon.rs:275-276`.

Seen while modelling, without a run: `--forget` and `--supervise` stop the
sampler with the enabled marker set, so it records `terminated`; `stop_report`
does not look at a leftover pid file although its comment names one as
evidence; `--forget` restarts a sampler that was disabled but still stopping.

## 4. Badges

`Badges.tla` takes one namespace's sampler from its start to its end, again and
again, and looks at the screen. Whether a sampler may start is Lifecycle's
business; here CONTROL is only the guard of `Begin`.

* **The screen** is, per workspace and token, the number of sampling intervals
  the token has left; `Merge` is herdr's merge patch: what is not named stays,
  what is set gets a new TTL. The text of a badge is not modelled: a badge is
  its token, and an empty text is `None`.
* **The main thread** is `main`: due, in a push, napping, parked. `StartPush`
  is the lock, the second look at `stopping` and the plan; `ReportBadge` one
  round trip; `EndPush` the assignment of the new map and the drop of the
  guard. Every assignment of tones to workspaces is a possible sample. A
  workspace outside the session or out of the sample is one that wants `None`.
  `plan_for` and `batch` together are `PatchFor` of each workspace in `Planned`.
* **The signal thread** is `sigt`; `StartShutdown`, `ClearOne`, `EndShutdown`
  are `shutdown`, and `Exit` takes both threads.
* **--disable** is `sweeper`: signal, wait, list the workspaces, sweep them.
  `settled` notes that the sampler was gone when it listed.
* **A report** is `Confirmed`, finds the workspace closed (`NotFound`), or is
  `Failed`: then herdr did nothing, or applied it and the answer was lost, or
  still has it on the wire (`Arrive`). `Faults` says which reports may fail.
  `clean` is a ghost: no report but to a closed workspace failed, and nobody
  was killed, since a sampler started under a dark screen.

Workspaces are reported in any order (the code sorts, nothing depends on it),
and an activity names a workspace once, which is the store's promise. A panic
inside a push is taken as a `Kill`. herdr restarting clears its screen and is
left out.

| Property | Says |
|---|---|
| `TypeOK` | types, and the guard is held exactly while `push` or `shutdown` run |
| `OneBadge` | no workspace shows two tokens, while all was confirmed |
| `ScreenIsMap` | with the guard free, what is on the screen is in the map |
| `ExitIsDark` | a clean sampler that exited left nothing lit |
| `DisableIsDark` | a confirmed sweep of a settled namespace left nothing lit, whatever went wrong before |
| `ExitLeavesNothing` | refuted: the same as `ExitIsDark` where reports of a push may fail |

`badges_all` checks the first five with every fault on: two workspaces, so that
one waits for its report while the other flips; two tokens, the least that can
flip; a TTL of 2 intervals (`Ttl`), so that a refresh differs from a leftover;
one late request (`MaxLate`). The code has three tokens and a TTL of three
intervals; the theorems cover every number. Workspaces and tokens are symmetric.

`badges_forgotten` allows nothing but unconfirmed reports of a push.
The comment in `push` says that what `shutdown` clears is exactly what is on
screen, and the header lists SIGKILL, a rejected clear and the giving up of
`--disable` as the only exceptions. There is a fourth: a report of `push` that
fails leaves the old token lit, or the new one if only the answer was lost, and
the map forgets the workspace. A shutdown before the next good cycle, with
every clear confirmed, leaves it on the screen until its TTL.

## 5. Rings

`Rings.tla` is one `WorkspaceHistory` of the store: the fine ring, the week ring
and a ring per agent, what a sample does to all of them and what reading the
file with another configuration makes of them. It is built on two modules of
operators: `Buckets` (a bucket of saturating counters, its level, a fold) and
`Ring` (slots, advance, rewind, absorb, reshape, coarsen, and the readings
`series` and `blocked_and_watched`).

* **A ring** is its length, the newest number and a bucket per slot; a number
  outside the live lap reads as a gap (`At`), as in `slot`.
* **Observe** is all of `observe`: the two buckets of slack (`Late`), the
  correction of every ring when a sample is further behind, the three kinds of
  `absorb`, the agents' cap and the stamps. A sample that is dropped changes
  nothing and is no step. The clock is free: every sample may be stamped with
  any of `Stamps`, in any order.
* **Reload** is `load_from` and `normalise` in a process with another
  configuration: another length is a reshape, a whole multiple of the bucket
  size is a fold, anything else keeps the week only. Whether a fold left
  anything in *other* workspaces decides with `keep_only_week`, and is an input
  (`others`). An unreadable file starts an empty store and is not a step here.
* **Ghosts.** `met` is the set of buckets an agent was sampled in, `lagging` the
  agents that were behind a sample that rewound, `now` the last sample's time.

State names and `state_since`, labels, sessions and paths are the store's; a
pane reported twice in one snapshot is taken once, as the code takes it.

`Timeline` is what the fine ring promises, with no slots and no laps: for each
bucket number what was recorded for it, or a gap. It may record at a number,
forget what is older than the span or newer than a corrected clock, become
wider by folds that were watched from end to end, or start again. `Rings`
implements it with `seen[n] = At(fine, n)`.

| Property | Says |
|---|---|
| `TypeOK` | types, lengths as configured, agents within their cap |
| `FineIsTimeline` | the fine ring implements `Timeline` |
| `WindowsAgree` | columns, however cut, and blocked and watched seconds describe the same buckets: the watched ones of the window, each once |
| `AgentRowHonest` | an agent's row has bars only where that agent was sampled, `lagging` agents excepted |
| `WeekCoversFine` | no hour has fewer samples than the minutes in it, while the longest fine ring is shorter than the week ring |
| `NoRingAhead` | no agent's ring or stamp is ahead of the workspace's |
| `SampledAgentsStay` | the cap spares the agents of the last sample, where the stamps are not ahead of it and the absent one's is older |
| `AgentRowTruth` | refuted: `AgentRowHonest` without the exception |

`rings` has lengths 2 and 3, so that laps overlap, bucket sizes 1 and 2 (a fold,
a split), a week of three hours of three seconds, so that buckets straddle
hours, one bucket of slack, a cap of one agent out of two, times up to 9, which
laps every ring, and counters that saturate at 2. `MaxSamples` is 4, with any
number of reloads between them: a jump, its correction, and a sample on either
side. `MCObservations` has five samples: nobody, either agent, both, with and
without a transition. The system stops at `MaxSamples`, so deadlock is not
checked.

`rings_agent`: `WorkspaceHistory::rewind` rewinds the ring of every agent, since
one that is away must not keep bars in the future. For an agent whose ring is
*behind* the corrected clock `RingMut::rewind` clears nothing and moves the
anchor forward: the buckets it passes over, which `advance` would clear, hold an
earlier lap, and its row shows them as bars in minutes nobody watched it. The
other half of the same correction, the agent that is ahead, is right and is what
`AgentRowHonest` checks.

Seen while modelling, without a run: where the clock steps back within one
bucket nothing rewinds, the agents just sampled keep a `last_seen` later than
the sample, and `evict_agents` takes them for relics of a wrong clock and evicts
them first; after a correction an absent agent's stamp is equal to the sampled
one's, and the pane id decides. `SampledAgentsStay` excepts both.

## 6. Store

`Store.tla` is the whole history file at the grain of entries: which entry each
workspace of a sample lands on, what it is restamped with, who is dropped and
who is evicted. An entry's rings are `Rings`'; here it remembers, as ghosts, the
servers it was observed at (`from`), the checkouts it was recorded under since
it last gave its key up (`was`), how much of the last sample it took (`took`),
and whether it is older than that sample (`old`). `gave` are the entries that
the last sample could make give their key up: it has their id and label, under a
checkout that it reports twice.

* **A sample** is a sequence of observations (id, label, checkout or none).
  `Record` is all of `record`: contradicted ids skipped, the durable key, then
  `locate`, restamp or a new entry, and `observe` for each observation in order;
  `drop_reused_ids` and `evict` for the sample. `took > 0` is `live`.
* **Around it** are `MarkBefore`, `Ask`, `AskFails` and the second mark, which
  `Record` reads: herdr may stop, start again, or answer a retry of the request
  (`Ask` again) anywhere in between. A server and its mark are one number.
* **Reload** is `load_from` and `normalise` with another cap. `Files` are files
  that may be found at the start: none, one from before sessions and paths, and
  a damaged one with a repeated id and a repeated path.

| Property | Says |
|---|---|
| `TypeOK` | types; never over the cap |
| `OneSession` | an attributed entry holds nothing another server said |
| `OneCheckout` | an entry holds the minutes of one checkout, since it last gave its key up |
| `OneHandle` | in a session no two entries share an id or a checkout |
| `SeriesContinues` | a checkout on record is never replaced by a new series, ids swapped or not, the entries in `gave` excepted |
| `FinishedGoFirst` | the cap falls on what is not in the sample first |
| `OneObservationEach` | refuted: no entry takes two workspaces of one sample |

`store` has three ids, two labels, checkouts, sessions and caps (1 and 2), every
sample of up to two of five observations in either order, one that names an id
twice and one in which a third workspace shares a checkout, and a clock with
stamps inside and outside one bucket of slack: the least in which ids swap, a
path becomes ambiguous, an id passes to another workspace and the cap bites. Ids
are ordered, so there is no symmetry.

`store_double` has the same instance. Without a durable key `locate` falls back
to id and label whatever path the entry holds (`None => find(&named)`). The
run's trace is a reused id: a checkout on record is reported under a new id, and
beside it a workspace with no checkout has its old id and label. If that one
comes first it is folded into the checkout's entry, and so is the checkout
itself when its turn comes; if it comes second the entry has its new id by then
and the other starts a series. Two workspaces share a series, or do not, by the
order of the snapshot, which the comments and the test of the swap say is
settled for the whole sample. The same fallback is why `SeriesContinues` excepts
`gave`: if two workspaces swap
ids and a third one shares the checkout of one of them, the shared checkout is
no key, the fallback names the other's entry and takes the path off it, and the
checkout on record starts a new series when its own observation comes later in
the snapshot, and goes on when it comes earlier. src/CHANGELOG.md:176-181 says that
a workspace renumbered, or one of two that swap ids, keeps its history.

Exceptions that the properties make, which a reader should know of:
`OneCheckout` counts from the last time the entry gave its key up, because
`record_workspace` takes an ambiguous path off the entry and `locate` lets a
*different* checkout under the same id and label adopt an entry without a path,
which the comment of `locate` calls the wrong answer this module refuses.
`FinishedGoFirst` excepts a live entry whose stamp is ahead of the sample (the
clock stepped back by less than the slack) and ties within one second, which
the id decides.

## 7. Setup

`Setup.tla` is `--setup` and `--setup-rollback` over herdr's config.toml, its
backup and the metadata file: a process per command, one step per file
operation, any number of commands at once (nothing locks), the user editing the
config or deleting the recovery files, herdr accepting, rejecting or not to be
found. `Stops` ends a command between any two steps: a kill, or an error, after
the operation took effect or before. A config is the user's text and the token
entries in it: none, exactly what `plan_edit` adds, or others. Some texts
(`NoRow`) have a section without a row, which `plan_edit` refuses. Line endings
and layout are taken to survive the edit.

| Property | Says |
|---|---|
| `TypeOK` | types: what is written to the config is always a config |
| `UserTextKept` | the config holds the text the user last wrote, if he did not write while a command ran |
| `Recoverable` | tokens that setup put in have a backup that a rollback can load and restore |
| `PendingUntilShown` | a transaction says reloaded only if herdr has loaded this config |
| `BackupKept` | a backup is never replaced by another |

`setup` runs two commands, so that any pair races, and three texts, one of them
without a row; commands and the two other texts are symmetric. `Recoverable`
and `PendingUntilShown` are promised to one command at a time and are checked
up to the first overlap (`crowded`): with two, a rollback can remove the
transaction under a setup that then installs, and leave tokens without a backup.

Two more limits of the code that the properties except: an edit between a
command's read and its atomic replace is lost, since the replace does not look
again (`edited`; the module's header says rollback refuses if anything changed);
and metadata whose write failed after it took effect stays without its backup,
which later commands refuse to touch until the user deletes it. A herdr that
restarts while a command runs is left out (it reads the config by itself), and
corrupt metadata, or another version's, ends a command as `Stops` does.

## 8. StateRoot and Windows

`StateRoot.tla` is the state directory that the default socket has for itself
and the two protocols on its files. Processes resolve their socket
(`stable_default_classification`: look, lock, look again, claim by a temporary
and a rename, or refuse) with an environment that calls it the default or not,
as a command or as a daemon, which may not claim. Those that are told the root
is theirs load, save and forget its history: the temporary, its bytes, the
rename, in steps; a file is what was meant to be in it and whether it is whole.
`Ends` kills anybody anywhere. Older state of nobody's (`Legacy`) may be there
from the start. That one process at a time has the history is taken from
Lifecycle (`owner`). Power loss is not modelled: `write_all` claims no flush.

`Namespace` says what this amounts to: the default is undecided, then decided
once; every process is told whether its socket is the default. `StateRoot`
implements it with the marker's content as `default`, and with "in the root" as
the answer.

| Property | Says |
|---|---|
| `DecidedOnce` | StateRoot implements `Namespace` |
| `OneTenant` | what is in the root, on disk or in memory, whole or partial, is of the marker's socket or older than it |
| `WholeFiles` | history.json and default.socket are complete whenever they exist |
| `ForgottenStaysGone` | deleted history is never loaded or saved again, wherever a save or a `--forget` died |

`state_root` has three processes (one claims, one is refused, one is told), two
sockets and one `--forget` (`MaxEra`), enough for a temporary of before it to
meet a load after it. Known limit: a socket that was told "not the default"
before there was a marker, with an empty root, may later be claimed as default
under another HOME; its first history is then in its own directory.

`Windows.tla` holds the numbers: `clamp`, `ttl_ms`, `buckets_per_badge_column`
and the panes' windows. It has no state and no run: its numbers are too large to
enumerate, and proofs cover every setting (section 9). One exception came out of
them: `BadgeWithinRing` needs at most as many badge columns as the ring has
buckets. `clamp` lets `retention_buckets` be 8 and `badge_columns` 64; a badge
then asks for one bucket per column, 64, of a ring of 8, although the comment of
`buckets_per_badge_column` says it "can never ask for more history than the ring
is able to hold". The test of that name uses the default retention only.

## 9. Proofs

`LifecycleProofs.tla` proves, for any sets of processes, any verbs and faults,
from the two assumptions of `Lifecycle` (pids, slots and `Nil` are distinct,
the instance picks from the known verbs and faults):

* `TypeCorrect`: `Spec => []TypeOK`.
* `OneWriter`: `Spec => []SingleWriter`.
* `ForgottenStaysForgotten`: `Spec => []NoResurrection`.

`SingleWriter` speaks of program locations and is not inductive: nothing in it
keeps two samplers from being one step before. The invariant `IInv` adds

* `LockInv`: who stands at a location that needs CONTROL has it;
* `OwnerInv`: who holds OWNER, location by location, at most one sampler, with
  a CLI process only while that waits for the child it forked, and nobody where
  a CLI process saw OWNER free and still has CONTROL;
* `MemInv`: only a sampler with its handler installed holds history, and one
  that holds forgotten history has already unwound, so it cannot save.

`OwnerInv`'s last part is the argument of the code in one line: what was seen
under CONTROL is still true, because only a CONTROL holder adds to OWNER. The
proof has one step per action. Leaves that set a Boolean variable are split,
since the SMT backend does not see that a truth value is in BOOLEAN and Zenon
does.

`LifecyclePromises.tla` proves the other eight properties on three more
invariants, each inductive on top of `IInv`:

* `Route`: a verb is at a location of its own path, and where it is says what
  the enabled marker is, which only a CONTROL holder writes.
* `Named`: the pid file names whoever owns the namespace and has published, and
  nobody else while there is an owner; a spawning parent waits on its own child.
* `Word`: a stop the user waits for (`by`) has a verb that waits for it, and an
  Ok of `--disable` is still true when it is given.

`StopHitsOwner` (`StopTargetsOwner`), `ReadyIsPublished`
(`ReadyMeansPublished`), `DisableSettles` (`DisableIsLastWord`),
`OwnedWhenWanted` (`OwnedOnlyWhenWanted`) and `EnableStopsShort`
(`EnableNeverPassesDisable`) hold with every verb and every fault. Three need a
hypothesis on the faults of the instance, each because TLC refutes the property
without it:

* `UserStopIsTheUsers` (`UserStopIsNotTerminated`): no `panic`. Unwinding frees
  OWNER while the signal thread still has the stop to write down; an `--enable`
  may put the marker back before it does. This needs a build that unwinds: in
  a release build, which aborts, OWNER and the signal thread go together.
* `EpitaphIsItsOwn` (`NoInheritedEpitaph`): no `panic` and no `io`, whose marker
  is written after OWNER changed hands (section 3; for `panic` this again
  needs a build that unwinds).
* `EnableMeansRunning` (`EnableDelivers`): none of `Sudden` (kill, crash, signal,
  panic, io), which end a sampler, or leave a half-started one, at any step
  between readiness and the verb's return.

So that `Word` can be said, the ghost `by` tells a `--disable` that gave up
(`GiveUp`, after `STOP_TIMEOUT` or a crash of the verb) from one that waits.

`BadgesProofs.tla` proves, for any workspaces, tokens, TTL, faults and number of
late requests, `TypeCorrect`, `NeverTwoBadges` (`OneBadge`), `MapIsComplete`
(`ScreenIsMap`), `ShutdownIsLast` (`ExitIsDark`) and `SweepIsEnough`
(`DisableIsDark`), from `BadgeAssumption`: `None` is no token and a TTL is
positive. The invariant names, at every moment, the one token a workspace may
show (`Known`): the new map's once `push` has reported it, none once `shutdown`
has cleared it, else the old map's. That it is inductive rests on the patches
under way having been planned from a map nobody changes meanwhile (`PlanInv`),
which is what the mutex is for, and on nobody pushing once the signal thread is
through (`StopInv`), which is what the second look at `stopping` is for.
`SweepInv` says the same of the sweep without `clean`.

`RingsProofs.tla` proves every property of `Rings`, for any lengths, bucket
sizes, agents, slack and order of samples and reloads, from `RingsAssumption`
(lengths, sizes, caps and `MaxSamples` are positive, a snapshot is finite) and
`BucketAssumption`:

* `FineRingIsTimeline`, the refinement: each operation of `Ring` has a lemma that
  says what it leaves at *every* bucket number (`At`), so that slots and laps
  are gone from there on; `Observe` and `Reload` then are steps of `Timeline`.
  It rests on two numbers less than a lap apart never sharing a slot.
* `NothingAhead` (`NoRingAhead`): after a correction every agent is exactly at
  the sample's bucket.
* `AgentRowsAreHonest` (`AgentRowHonest`): `HonestInv` says for each agent that
  what its ring shows is in `met`, or that it is `lagging`.
* `TypesHold` and `SampledStay` (`SampledAgentsStay`, with its exceptions): the
  cap keeps the agents that fewer than the cap outlive, an order that is total
  on pane ids.
* `WindowsAlwaysAgree` (`WindowsAgree`), and `EveryWindowAgrees` for every
  window, not only those the run cuts: columns partition the window, so that
  sums and maxima over columns are those over its buckets.
* `WeekCovers` (`WeekCoversFine`): an hour's count is at least the sum, saturated,
  of the buckets within it. The sum is over a set of buckets that a sample
  changes in one place, a rewind only shrinks and a fold regroups.

`SetupProofs.tla` proves every property of `Setup`, for any number of commands
and any texts. `Sound` is what every step needs: what stands at a location has
read what the location's writes will use. `TextHeld` says that all texts a
running command holds, and the recovery files while setup's edit is in place,
have the user's text; it is what makes `UserTextKept` inductive with any number
of commands. `Calm` describes the three files at each location of a single
command, for `Recoverable` and `PendingUntilShown`, which say nothing once two
commands have overlapped (`crowded`) or the user wrote while one ran (`edited`).
`BackupNeverReplaced` needs
no invariant: the one step that creates a backup needs the name to be free.

`StateRootProofs.tla` proves every property of `StateRoot`, for any processes,
sockets and number of forgets, from `NoneIsNobody`. The invariant says who holds
the lock at which location, that between its second look and its rename a
claimer sees no marker and the temporary is its own, that everybody in the root
has the marker's socket, and of what age the files and memories are.
`NamespaceImplemented` then maps each step to a step of `Namespace` or a
stutter.

`StoreProofs.tla` proves every property of `Store`, for any ids, checkouts,
caps and number of restarts of herdr, any snapshot and any file, from
`StoreAssumption` (snapshots and files have their types, the ghosts of a file
are empty, herdr starts at least once, a cap is positive: `evict` uses
`max_workspaces.max(1)`). `MarksSuffice` is why a sample that is attributed at
all is attributed to the server that answered it: server starts are ordered, the
answer lies between the two marks, and equal marks leave one possibility. The
store's invariant is `StoreInv`:

* `Apart` is `OneHandle`; `Fits` says of an entry alone that it was recorded
  under no checkout but its key, and holds nothing of another server.
* `Underway` is the invariant of `record`'s loop: who took none of the first k
  observations is as he was; who took some is up to date and has the id of one
  of those, no two the same; and a checkout of this session stays in its entry,
  unless the entry is in `gave`. In the middle of a sample ids may be shared
  with an entry not yet reached, which is the swap; `ApartAfterDrop` says that
  `drop_reused_ids` takes away exactly what is left of that.
* `FinishedFirst` needs that the order of `evict` is transitive and that a live
  entry's stamp is never behind the sample.

The loop is a `FoldLeft`. A theorem by induction takes an operator, which the
provers cannot instantiate, so `Descent` states induction over the subsets of a
finite set with a *set* for the hypothesis, from the well-foundedness of strict
inclusion; `FoldExists` then gives the recursive function that the fold is
defined by, and `UpTo` carries `Underway` along it. `retain` and `evict` are
stated by the places they keep (`Retained`), for the same reason.

`WindowsProofs.tla` proves, for every setting that a file or command line can
hold: `StorageBounded` (all rings of all tracked workspaces stay under
MAX_TOTAL_BUCKETS, and at least one is tracked), `TtlIsThreeCycles`,
`BadgeWithinRing` (see above), `PaneWithinRing` and `SinceWithinRing` (a window
narrowed by `--since` has at least one column, lies in the ring, and leaves out
less than a column of what was asked), and `FullWindowsFit`. They rest on two
lemmas about rounding down and up.

Only model-checked: the liveness properties (`VerbsReturn`,
`SupervisedComesBack`), which the prover does not handle, and the four
properties that runs refute, which have no proof.

## 10. Not modelled

Drawing (sparklines, tones, tables, JSON), formatting of units and markers,
parsing of the configuration file and the arguments, socket framing, the
client library's timeouts, desktop notifications, file permissions: pure
functions of what is modelled, or I/O without a state of their own. `tools/` and
the tests are not part of the program.

Hazards without a property: that `--forget` and `--supervise` leave `terminated`
behind if the restart fails, that `--forget` restarts a sampler that was
disabled but still stopping, and that a second stop may fail with no readable
pid. The model has these behaviours; no document says what was intended.
An edit that falls between the comparison and the replacement of herdr's config
is lost (`setup.rs:467`), as section 7 says. The ends of the configuration's
clamps are proved about rather than run (section 8).
