------------------------------ MODULE Lifecycle ------------------------------
(***************************************************************************)
(* The sampler lifecycle of one socket namespace: the verbs of             *)
(* src/src/daemon.rs and src/src/supervise.rs (one CLI process each), the  *)
(* sampler processes they start, and the platform supervisor.              *)
(*                                                                         *)
(* What is shared is on disk: two flocks (CONTROL, taken blocking by every *)
(* verb, and OWNER, held for a sampler's whole life and inherited through  *)
(* fork), the enabled marker, the pid file, the stop marker, the unit file *)
(* and the history file.  A process may die between any two steps; the     *)
(* kernel then drops its locks and nothing else.                           *)
(*                                                                         *)
(* One action is one visible step.  Steps that nobody can see between      *)
(* (reads of files only a CONTROL holder writes) are joined to the next.   *)
(***************************************************************************)
EXTENDS Naturals, FiniteSets

CONSTANTS
    Cmd,      \* slots for concurrently running `pulse <verb>` processes
    Daemon,   \* pids of `pulse --daemon` processes, reusable once reaped
    Nil,      \* no process
    Verbs,    \* the verbs this instance issues
    Env       \* what the environment may do, a subset of EnvKinds

AllVerbs == {"enable", "disable", "toggle", "restore", "forget",
             "supervise", "unsupervise"}

EnvKinds == {"kill",        \* SIGKILL or OOM of a sampler
             "crash",       \* a CLI process dies half way
             "signal",      \* SIGTERM from somewhere else
             "panic",       \* the sampler's main thread panics
             "io",          \* a fork, a write or a connect fails
             "platform",    \* systemctl or launchctl fails
             "slowstop",    \* STOP_TIMEOUT elapses before OWNER is free
             "slowstart",   \* START_TIMEOUT elapses before readiness
             "foreground",  \* somebody runs `pulse --daemon` directly
             "reboot"}      \* the machine restarts

ASSUME ProcessAssumption ==
    /\ Cmd \cap Daemon = {}
    /\ Nil \notin Cmd \cup Daemon

ASSUME InstanceAssumption ==
    /\ Verbs \subseteq AllVerbs
    /\ Env \subseteq EnvKinds

VARIABLES
    control,     \* holder of control.lock, or Nil
    owner,       \* processes with a descriptor of the locked OWNER file
    enabled,     \* the enabled marker exists
    pidFile,     \* the pid in sampler.pid, or Nil
    stop,        \* the reason in the stop marker, or "none"
    off,         \* ghost: a verb returned having turned the namespace off,
                 \* and none has asked for a sampler since
    unit,        \* the supervisor's unit file exists
    registered,  \* the supervisor starts the unit at login
    active,      \* the supervisor keeps the unit running now
    sup,         \* the unit's main process, or Nil
    file,        \* what the history file holds
    lit,         \* some badge of ours is on herdr's screen
    pc, verb,    \* where each CLI process is, and its verb
    tgt,         \* the pid it read or the child it forked
    was,         \* was_live of forget_history, was_enabled of install
    ready,       \* an 'R' waits in its readiness pipe
    st,          \* where each sampler's main thread is
    sig,         \* where its signal thread is
    by,          \* ghost: who asked for the stop under way ("left": and no longer waits)
    mem          \* the history the sampler holds in memory

locks  == <<control, owner>>
marks  == <<enabled, pidFile, stop, off>>
super  == <<unit, registered, active>>
cmdVars == <<pc, verb, tgt, was, ready>>
dmnVars == <<st, sig, by, mem, sup>>
vars == <<locks, marks, super, file, lit, cmdVars, dmnVars>>

-----------------------------------------------------------------------------
(* Where processes can be.                                                 *)

Reasons == {"none", "disabled", "terminated", "failed"}

\* "forgotten" tags data recorded before a --forget deleted the file.
Data == {"absent", "current", "forgotten"}

\* Steps that run with no lock, and steps that run under CONTROL.
FreePc == {"idle", "acquire", "await", "reacquire"}
SpawnPc == {"fork", "ready", "reap"}            \* the CLI holds OWNER too
QuietPc == {"markFree", "launch", "take", "start",      \* OWNER was seen free
            "unpid", "sweep", "delete", "write", "activate"}
HeldPc == SpawnPc \cup QuietPc \cup
          {"mark", "probe", "recheck", "unmark", "present", "note", "unload",
           "unloading", "stop", "readpid", "signal", "drain", "relogin",
           "lateSweep", "remove", "revert"}
Pc == FreePc \cup HeldPc \cup
      {"ok", "err",
       "late"}     \* Ok, although the old sampler never let go of OWNER

\* "revert" is the second half of a failed install, after it lost CONTROL.
VerbState == AllVerbs \cup {"none", "revert"}

\* A sampler before and after its signal handler is installed.
StartSt == {"publish", "clear", "announce", "arm"}
RunSt == {"load", "sample", "save", "push"}
Armed == RunSt \cup {"panicked", "unwound"}
OwnerSt == StartSt \cup RunSt \cup {"panicked"}
St == OwnerSt \cup {"dead", "boot", "gate", "unwound", "failing"}

Sig == {"none", "posted", "stopping", "recorded", "cleared", "gone"}
Flagged(d) == sig[d] \notin {"none", "posted"}

Live(d) == st[d] # "dead"

\* A killed child keeps its pid until the parent that waits on it reaps it.
Zombie(d) == \E c \in Cmd : pc[c] \in {"ready", "reap"} /\ tgt[c] = d
FreePid(d) == ~Live(d) /\ ~Zombie(d)

Running == pidFile # Nil /\ Live(pidFile)

Init ==
    /\ control = Nil /\ owner = {}
    /\ enabled = FALSE /\ pidFile = Nil /\ stop = "none" /\ off = FALSE
    /\ unit = FALSE /\ registered = FALSE /\ active = FALSE
    /\ file = "absent" /\ lit = FALSE
    /\ pc = [c \in Cmd |-> "idle"] /\ verb = [c \in Cmd |-> "none"]
    /\ tgt = [c \in Cmd |-> Nil] /\ was = [c \in Cmd |-> FALSE]
    /\ ready = [c \in Cmd |-> FALSE]
    /\ st = [d \in Daemon |-> "dead"] /\ sig = [d \in Daemon |-> "none"]
    /\ by = [d \in Daemon |-> "none"] /\ mem = [d \in Daemon |-> "absent"]
    /\ sup = Nil

-----------------------------------------------------------------------------
(* Processes: going to a step, dying, receiving SIGTERM.                   *)

Goto(c, label) == pc' = [pc EXCEPT ![c] = label]
Step(d, label) == st' = [st EXCEPT ![d] = label]

\* A CLI process is gone: its locals vanish with it.
Forgotten(c) ==
    /\ Goto(c, "idle")
    /\ verb' = [verb EXCEPT ![c] = "none"]
    /\ tgt' = [tgt EXCEPT ![c] = Nil]
    /\ was' = [was EXCEPT ![c] = FALSE]
    /\ ready' = [ready EXCEPT ![c] = FALSE]
    /\ owner' = owner \ {c}
    /\ control' = IF control = c THEN Nil ELSE control

\* A sampler is gone: the kernel closes its descriptors and so its locks.
Die(d) ==
    /\ Step(d, "dead")
    /\ sig' = [sig EXCEPT ![d] = "none"]
    /\ by' = [by EXCEPT ![d] = "none"]
    /\ mem' = [mem EXCEPT ![d] = "absent"]
    /\ owner' = owner \ {d}
    /\ control' = IF control = d THEN Nil ELSE control
    /\ sup' = IF sup = d THEN Nil ELSE sup

\* SIGTERM: the default disposition kills until spawn_signal_thread ran.
Term(d, who) ==
    \/ /\ st[d] \in Armed
       /\ sig' = [sig EXCEPT ![d] = IF @ = "none" THEN "posted" ELSE @]
       /\ by' = [by EXCEPT ![d] = IF @ \in {"none", "left"} THEN who ELSE @]
       /\ UNCHANGED <<st, mem, sup, locks>>
    \/ /\ st[d] \notin Armed /\ Live(d)
       /\ Die(d)
    \/ /\ ~Live(d)
       /\ UNCHANGED <<dmnVars, locks>>

\* Who a stop is asked by: the user, or a verb that restarts the sampler.
Asker(v) == IF v \in {"disable", "toggle", "unsupervise"}
            THEN "user" ELSE "restart"

\* Mutant: a stale pid file is left for the next writer to replace.
KeepStalePid == pidFile' = pidFile

\* remove_stale_pid: whatever the file says, nobody owns OWNER.
RemoveStalePid == pidFile' = Nil
RemovePidIfEquals(d) == pidFile' = IF pidFile = d THEN Nil ELSE pidFile

-----------------------------------------------------------------------------
(* The verbs: what each does first once it holds CONTROL.                  *)

FirstStep(v) ==
    CASE v = "enable"      -> "mark"
      [] v = "disable"     -> "unmark"
      [] v = "toggle"      -> "probe"
      [] v = "restore"     -> "recheck"
      [] v = "forget"      -> "probe"
      [] v = "supervise"   -> "note"
      [] v = "unsupervise" -> "present"
      [] OTHER             -> "unload"          \* install's failure path

Invoke(c, v) ==
    /\ pc[c] = "idle" /\ v \in Verbs
    /\ Goto(c, "acquire")
    /\ verb' = [verb EXCEPT ![c] = v]
    /\ UNCHANGED <<locks, marks, super, file, lit, tgt, was, ready, dmnVars>>

\* ControlGuard::acquire: flock(LOCK_EX), and it waits.
Acquire(c) ==
    /\ pc[c] = "acquire" /\ control = Nil
    /\ control' = c
    /\ Goto(c, FirstStep(verb[c]))
    /\ UNCHANGED <<owner, marks, super, file, lit, verb, tgt, was, ready,
                   dmnVars>>

\* c is about to report that it turned the namespace off.
TurnedOff(c) == /\ verb[c] \in {"disable", "toggle"} /\ ~enabled
                /\ pc[c] \in {"ok", "late"}

\* The guards go out of scope and main returns.
Return(c) ==
    /\ pc[c] \in {"ok", "err", "late"}
    /\ off' = (off \/ TurnedOff(c))
    /\ Forgotten(c)
    /\ UNCHANGED <<enabled, pidFile, stop, super, file, lit, dmnVars>>

\* A stop that c asked for and has not seen the end of.
Waits(c, d) == \/ pc[c] = "unloading" /\ sup = d
               \/ pc[c] = "drain" /\ tgt[c] = d

\* Ghost: whoever asked waits no longer.
GiveUp(c) == by' = [d \in Daemon |-> IF by[d] = "user" /\ Waits(c, d)
                                     THEN "left" ELSE by[d]]

Crash(c) ==
    /\ "crash" \in Env
    /\ pc[c] # "idle"
    /\ Forgotten(c)
    /\ GiveUp(c)
    /\ UNCHANGED <<marks, super, file, lit, st, sig, mem, sup>>

\* mark_enabled(true): --enable before it looks at OWNER, --toggle after.
Mark(c) ==
    /\ pc[c] \in {"mark", "markFree"}
    /\ enabled' = TRUE /\ off' = FALSE
    /\ Goto(c, IF pc[c] = "mark" THEN "probe" ELSE "launch")
    /\ UNCHANGED <<locks, pidFile, stop, super, file, lit, verb, tgt, was,
                   ready, dmnVars>>

\* owner_is_held = true in enable, toggle and forget_history.
ProbeHeld(c) ==
    /\ pc[c] = "probe" /\ owner # {}
    /\ Goto(c, CASE verb[c] = "enable" -> "ok"
                 [] verb[c] = "toggle" -> "unmark"
                 [] OTHER -> IF unit THEN "unload" ELSE "stop")
    /\ was' = [was EXCEPT ![c] = verb[c] = "forget"]
    /\ UNCHANGED <<locks, marks, super, file, lit, verb, tgt, ready, dmnVars>>

ProbeFree(c) ==
    /\ pc[c] = "probe" /\ owner = {}
    /\ Goto(c, IF verb[c] = "toggle" THEN "markFree" ELSE "launch")
    /\ UNCHANGED <<locks, marks, super, file, lit, verb, tgt, was, ready,
                   dmnVars>>

\* restore: wanted, not running, not the supervisor's.
Recheck(c) ==
    /\ pc[c] = "recheck"
    /\ Goto(c, IF enabled /\ owner = {} /\ ~unit THEN "launch" ELSE "ok")
    /\ UNCHANGED <<locks, marks, super, file, lit, verb, tgt, was, ready,
                   dmnVars>>

\* remove_stale_pid, then the way this namespace starts a sampler (or, for
\* --forget with nothing running, straight on to the deletion).
Launch(c) ==
    /\ pc[c] = "launch"
    /\ RemoveStalePid
    /\ Goto(c, IF verb[c] = "forget" THEN "delete"
               ELSE IF unit THEN "start" ELSE "take")
    /\ UNCHANGED <<locks, enabled, stop, off, super, file, lit, verb, tgt, was,
                   ready, dmnVars>>

\* supervise::start, then drop(control).
Start(c) ==
    /\ pc[c] = "start"
    /\ registered' = TRUE /\ active' = TRUE
    /\ control' = Nil
    /\ Goto(c, "await")
    /\ UNCHANGED <<owner, marks, unit, file, lit, verb, tgt, was, ready,
                   dmnVars>>

\* `systemctl enable --now` may register the unit and fail to start it.
StartFails(c) ==
    /\ "platform" \in Env
    /\ pc[c] = "start"
    /\ registered' \in {registered, TRUE}
    /\ Goto(c, "err")
    /\ UNCHANGED <<locks, marks, unit, active, file, lit, verb, tgt, was,
                   ready, dmnVars>>

\* await_started polls the pid file, without CONTROL.
Started(c) ==
    /\ pc[c] = "await" /\ Running
    /\ Goto(c, "ok")
    /\ UNCHANGED <<locks, marks, super, file, lit, verb, tgt, was, ready,
                   dmnVars>>

StartTimeout(c) ==
    /\ "slowstart" \in Env
    /\ pc[c] = "await" /\ ~Running
    /\ Goto(c, IF verb[c] = "supervise" THEN "reacquire" ELSE "err")
    /\ UNCHANGED <<locks, marks, super, file, lit, verb, tgt, was, ready,
                   dmnVars>>

-----------------------------------------------------------------------------
(* spawn_detached: the child is born holding a duplicate of OWNER.         *)

\* OwnerGuard::try_acquire, remove_stale_pid.
Take(c) ==
    /\ pc[c] = "take"
    /\ IF owner = {}
       THEN owner' = {c} /\ RemoveStalePid /\ Goto(c, "fork")
       ELSE Goto(c, "ok") /\ UNCHANGED <<owner, pidFile>>
    /\ UNCHANGED <<control, enabled, stop, off, super, file, lit, verb, tgt,
                   was, ready, dmnVars>>

Fork(c, d) ==
    /\ pc[c] = "fork" /\ FreePid(d)
    /\ owner' = owner \cup {d}
    /\ Step(d, "publish")
    /\ tgt' = [tgt EXCEPT ![c] = d]
    /\ ready' = [ready EXCEPT ![c] = FALSE]
    /\ Goto(c, "ready")
    /\ UNCHANGED <<control, marks, super, file, lit, verb, was, sig, by, mem,
                   sup>>

ForkFails(c) ==
    /\ "io" \in Env
    /\ pc[c] = "fork"
    /\ owner' = owner \ {c}
    /\ Goto(c, "err")
    /\ UNCHANGED <<control, marks, super, file, lit, verb, tgt, was, ready,
                   dmnVars>>

\* Mutant: the parent returns without waiting for readiness.
ChildReadyEarly(c) ==
    /\ pc[c] = "ready"
    /\ owner' = owner \ {c}
    /\ Goto(c, "ok")
    /\ UNCHANGED <<control, marks, super, file, lit, verb, tgt, was, ready,
                   dmnVars>>

\* await_child_ready read an 'R': close our descriptor, the child keeps its.
ChildReady(c) ==
    /\ pc[c] = "ready" /\ ready[c]
    /\ owner' = owner \ {c}
    /\ Goto(c, "ok")
    /\ UNCHANGED <<control, marks, super, file, lit, verb, tgt, was, ready,
                   dmnVars>>

\* End of file, an 'E' or START_TIMEOUT: terminate_child kills and waits.
ChildNotReady(c) ==
    /\ pc[c] = "ready" /\ ~ready[c]
    /\ \/ Live(tgt[c]) /\ "slowstart" \in Env /\ Die(tgt[c])
       \/ ~Live(tgt[c]) /\ UNCHANGED <<dmnVars, locks>>
    /\ Goto(c, "reap")
    /\ UNCHANGED <<marks, super, file, lit, verb, tgt, was, ready>>

\* drop(owner), remove_pid_if_equals(child).
Reap(c) ==
    /\ pc[c] = "reap"
    /\ owner' = owner \ {c}
    /\ RemovePidIfEquals(tgt[c])
    /\ Goto(c, "err")
    /\ UNCHANGED <<control, enabled, stop, off, super, file, lit, verb, tgt,
                   was, ready, dmnVars>>

-----------------------------------------------------------------------------
(* Stopping: disable_locked, supervise::stop and stop_sampler_locked.      *)

\* Mutant: the enabled marker is left for after the stop.
UnmarkLater(c) ==
    /\ pc[c] = "unmark"
    /\ Goto(c, IF unit THEN "unload" ELSE "stop")
    /\ UNCHANGED <<locks, marks, super, file, lit, verb, tgt, was, ready,
                   dmnVars>>

Unmark(c) ==
    /\ pc[c] = "unmark"
    /\ enabled' = FALSE
    /\ Goto(c, IF unit THEN "unload" ELSE "stop")
    /\ UNCHANGED <<locks, pidFile, stop, off, super, file, lit, verb, tgt, was,
                   ready, dmnVars>>

\* supervise::stop: `systemctl disable --now` returns when the unit's process
\* is gone.
Unload(c) ==
    /\ pc[c] = "unload"
    /\ registered' = FALSE /\ active' = FALSE
    /\ \/ sup = Nil /\ UNCHANGED <<dmnVars, locks>>
       \/ sup # Nil /\ Term(sup, Asker(verb[c]))
    /\ Goto(c, "unloading")
    /\ UNCHANGED <<marks, unit, file, lit, verb, tgt, was, ready>>

AfterUnload(c) == IF verb[c] = "revert" THEN "revert" ELSE "stop"

Unloaded(c) ==
    /\ pc[c] = "unloading" /\ sup = Nil
    /\ Goto(c, AfterUnload(c))
    /\ UNCHANGED <<locks, marks, super, file, lit, verb, tgt, was, ready,
                   dmnVars>>

\* Fatal to --forget, reported and ignored everywhere else.
UnloadFails(c) ==
    /\ "platform" \in Env
    /\ pc[c] = "unload"
    /\ registered' \in {registered, FALSE}
    /\ Goto(c, IF verb[c] = "forget" THEN "err" ELSE AfterUnload(c))
    /\ UNCHANGED <<locks, marks, unit, active, file, lit, verb, tgt, was,
                   ready, dmnVars>>

\* What follows a stop_sampler_locked that returned Ok.
AfterStop(v) ==
    CASE v = "forget"      -> "delete"
      [] v = "supervise"   -> "write"
      [] v = "unsupervise" -> "remove"
      [] OTHER             -> "sweep"

\* What follows one that failed: a live sampler keeps its registration.
AfterStopError(v) ==
    IF v \in {"forget", "supervise"} /\ unit THEN "relogin" ELSE "err"

StopFree(c) ==
    /\ pc[c] = "stop" /\ owner = {}
    /\ RemoveStalePid
    /\ Goto(c, AfterStop(verb[c]))
    /\ UNCHANGED <<locks, enabled, stop, off, super, file, lit, verb, tgt, was,
                   ready, dmnVars>>

StopHeld(c) ==
    /\ pc[c] = "stop" /\ owner # {}
    /\ Goto(c, "readpid")
    /\ UNCHANGED <<locks, marks, super, file, lit, verb, tgt, was, ready,
                   dmnVars>>

ReadPid(c) ==
    /\ pc[c] = "readpid"
    /\ tgt' = [tgt EXCEPT ![c] = pidFile]
    /\ Goto(c, IF pidFile = Nil THEN AfterStopError(verb[c]) ELSE "signal")
    /\ UNCHANGED <<locks, marks, super, file, lit, verb, was, ready, dmnVars>>

\* request_stop: kill(pid, SIGTERM), whoever has that pid by now.
RequestStop(c) ==
    /\ pc[c] = "signal"
    /\ Term(tgt[c], Asker(verb[c]))
    /\ Goto(c, "drain")
    /\ UNCHANGED <<marks, super, file, lit, verb, tgt, was, ready>>

\* Mutant: the stop is taken for done as soon as it was requested.
DrainedAtOnce(c) ==
    /\ pc[c] = "drain"
    /\ Goto(c, "unpid")
    /\ UNCHANGED <<locks, marks, super, file, lit, verb, tgt, was, ready,
                   dmnVars>>

\* await_owner_release saw OWNER free.
Drained(c) ==
    /\ pc[c] = "drain" /\ owner = {}
    /\ Goto(c, "unpid")
    /\ UNCHANGED <<locks, marks, super, file, lit, verb, tgt, was, ready,
                   dmnVars>>

\* Mutant: --forget gives up waiting as --disable does.
LenientForget(v) == v = "supervise"

Strict(v) == v \in {"forget", "supervise"}

\* Mutant: the deadline is looked at only once OWNER is free.
DrainTimeoutTooLate(c) ==
    /\ "slowstop" \in Env
    /\ pc[c] = "drain" /\ owner = {}
    /\ Goto(c, "lateSweep")
    /\ UNCHANGED <<locks, marks, super, file, lit, verb, tgt, was, ready,
                   dmnVars>>

\* await_owner_release gave up.
DrainTimeout(c) ==
    /\ "slowstop" \in Env
    /\ pc[c] = "drain" /\ owner # {}
    /\ Goto(c, IF Strict(verb[c]) THEN AfterStopError(verb[c])
               ELSE IF AfterStop(verb[c]) = "sweep" THEN "lateSweep"
               ELSE AfterStop(verb[c]))
    /\ GiveUp(c)
    /\ UNCHANGED <<locks, marks, super, file, lit, verb, tgt, was, ready, st,
                   sig, mem, sup>>

Unpid(c) ==
    /\ pc[c] = "unpid"
    /\ RemovePidIfEquals(tgt[c])
    /\ Goto(c, AfterStop(verb[c]))
    /\ UNCHANGED <<locks, enabled, stop, off, super, file, lit, verb, tgt, was,
                   ready, dmnVars>>

\* restore_start_at_login: registers the unit and starts nothing.
Relogin(c) ==
    /\ pc[c] = "relogin"
    /\ registered' = TRUE
    /\ Goto(c, "err")
    /\ UNCHANGED <<locks, marks, unit, active, file, lit, verb, tgt, was,
                   ready, dmnVars>>

\* sweep clears every token of ours on every workspace herdr reports.
Sweep(c) ==
    /\ pc[c] \in {"sweep", "lateSweep"}
    /\ lit' = FALSE
    /\ Goto(c, IF pc[c] = "sweep" THEN "ok" ELSE "late")
    /\ UNCHANGED <<locks, marks, super, file, verb, tgt, was, ready, dmnVars>>

SweepFails(c) ==
    /\ "io" \in Env
    /\ pc[c] \in {"sweep", "lateSweep"}
    /\ Goto(c, "err")
    /\ UNCHANGED <<locks, marks, super, file, lit, verb, tgt, was, ready,
                   dmnVars>>

-----------------------------------------------------------------------------
(* --forget's deletion, --supervise's installation, --unsupervise's end.   *)

AfterDelete(c) == IF ~was[c] THEN "ok" ELSE IF unit THEN "start" ELSE "take"

\* history::forget.  Whatever a sampler still holds was forgotten with it.
Delete(c) ==
    /\ pc[c] = "delete"
    /\ file' = "absent"
    /\ mem' = [d \in Daemon |->
                 IF mem[d] = "current" THEN "forgotten" ELSE mem[d]]
    /\ Goto(c, AfterDelete(c))
    /\ UNCHANGED <<locks, marks, super, lit, verb, tgt, was, ready, st, sig,
                   by, sup>>

\* A sampler that was running is restored before the error is returned.
DeleteFails(c) ==
    /\ "io" \in Env
    /\ pc[c] = "delete"
    /\ Goto(c, IF was[c] THEN AfterDelete(c) ELSE "err")
    /\ UNCHANGED <<locks, marks, super, file, lit, verb, tgt, was, ready,
                   dmnVars>>

\* install: remember the enabled marker, then stop whatever runs.
Note(c) ==
    /\ pc[c] = "note"
    /\ was' = [was EXCEPT ![c] = enabled]
    /\ Goto(c, IF unit THEN "unload" ELSE "stop")
    /\ UNCHANGED <<locks, marks, super, file, lit, verb, tgt, ready, dmnVars>>

\* The unit file, then mark_enabled(true).
Write(c) ==
    /\ pc[c] = "write"
    /\ unit' = TRUE /\ enabled' = TRUE /\ off' = FALSE
    /\ Goto(c, "activate")
    /\ UNCHANGED <<locks, pidFile, stop, registered, active, file, lit,
                   verb, tgt, was, ready, dmnVars>>

Activate(c) ==
    /\ pc[c] = "activate"
    /\ registered' = TRUE /\ active' = TRUE
    /\ control' = Nil
    /\ Goto(c, "await")
    /\ UNCHANGED <<owner, marks, unit, file, lit, verb, tgt, was, ready,
                   dmnVars>>

ActivateFails(c) ==
    /\ "platform" \in Env
    /\ pc[c] = "activate"
    /\ registered' \in {registered, TRUE}
    /\ unit' = FALSE /\ enabled' = was[c]
    /\ Goto(c, "err")
    /\ UNCHANGED <<locks, pidFile, stop, off, active, file, lit, verb, tgt,
                   was, ready, dmnVars>>

\* await_started failed: take CONTROL again to undo the installation.
Reacquire(c) ==
    /\ pc[c] = "reacquire" /\ control = Nil
    /\ control' = c
    /\ verb' = [verb EXCEPT ![c] = "revert"]
    /\ Goto(c, FirstStep("revert"))
    /\ UNCHANGED <<owner, marks, super, file, lit, tgt, was, ready, dmnVars>>

Revert(c) ==
    /\ pc[c] = "revert"
    /\ unit' = FALSE /\ enabled' = was[c]
    /\ Goto(c, "err")
    /\ UNCHANGED <<locks, pidFile, stop, off, registered, active, file, lit,
                   verb, tgt, was, ready, dmnVars>>

\* remove: nothing to do without a unit file.
Present(c) ==
    /\ pc[c] = "present"
    /\ Goto(c, IF unit THEN "unmark" ELSE "ok")
    /\ UNCHANGED <<locks, marks, super, file, lit, verb, tgt, was, ready,
                   dmnVars>>

RemoveUnit(c) ==
    /\ pc[c] = "remove"
    /\ unit' = FALSE
    /\ Goto(c, "ok")
    /\ UNCHANGED <<locks, marks, registered, active, file, lit, verb, tgt,
                   was, ready, dmnVars>>

-----------------------------------------------------------------------------
(* run_daemon.  Inherited samplers begin at "publish", the others at       *)
(* "boot"; only the latter hold CONTROL, from "gate" to "announce".        *)

BootLock(d) ==
    /\ st[d] = "boot" /\ control = Nil
    /\ control' = d
    /\ Step(d, "gate")
    /\ UNCHANGED <<owner, marks, super, file, lit, cmdVars, sig, by, mem, sup>>

\* Mutant: the sampler trusts CONTROL and never tries OWNER.
GateEnterBlind(d) ==
    /\ st[d] = "gate" /\ enabled
    /\ owner' = owner \cup {d}
    /\ RemoveStalePid
    /\ Step(d, "publish")
    /\ UNCHANGED <<control, enabled, stop, off, super, file, lit, cmdVars, sig,
                   by, mem, sup>>

\* Mutant: no recheck of the enabled marker under CONTROL.
GateEnterUnasked(d) ==
    /\ st[d] = "gate" /\ owner = {}
    /\ owner' = {d}
    /\ RemoveStalePid
    /\ Step(d, "publish")
    /\ UNCHANGED <<control, enabled, stop, off, super, file, lit, cmdVars, sig,
                   by, mem, sup>>

\* Mutant: a pid file left by a dead sampler is believed.
GateEnterBelievesPid(d) ==
    /\ st[d] = "gate" /\ enabled /\ owner = {} /\ pidFile = Nil
    /\ owner' = {d}
    /\ Step(d, "publish")
    /\ UNCHANGED <<control, marks, super, file, lit, cmdVars, sig, by, mem,
                   sup>>

\* is_enabled, try_acquire, remove_stale_pid.
GateEnter(d) ==
    /\ st[d] = "gate" /\ enabled /\ owner = {}
    /\ owner' = {d}
    /\ RemoveStalePid
    /\ Step(d, "publish")
    /\ UNCHANGED <<control, enabled, stop, off, super, file, lit, cmdVars, sig,
                   by, mem, sup>>

\* Disabled, or somebody else's: exit 0 and leave everything alone.
GateDecline(d) ==
    /\ st[d] = "gate" /\ ~(enabled /\ owner = {})
    /\ Die(d)
    /\ UNCHANGED <<marks, super, file, lit, cmdVars>>

\* Mutant: readiness is reported before the pid is there to read.
PublishNothing(d) ==
    /\ st[d] = "publish"
    /\ Step(d, "clear")
    /\ UNCHANGED <<locks, marks, super, file, lit, cmdVars, sig, by, mem, sup>>

\* publish_pid renames a private temporary file over sampler.pid.
Publish(d) ==
    /\ st[d] = "publish"
    /\ pidFile' = d
    /\ Step(d, "clear")
    /\ UNCHANGED <<locks, enabled, stop, off, super, file, lit, cmdVars, sig,
                   by, mem, sup>>

\* Any error before readiness: the parent reads an 'E' or end of file.
PublishFails(d) ==
    /\ "io" \in Env
    /\ st[d] = "publish"
    /\ Die(d)
    /\ UNCHANGED <<marks, super, file, lit, cmdVars>>

\* Mutant: the last run's marker stays.
ClearNothing(d) ==
    /\ st[d] = "clear"
    /\ Step(d, "announce")
    /\ UNCHANGED <<locks, marks, super, file, lit, cmdVars, sig, by, mem, sup>>

\* clear_stop.
ClearStop(d) ==
    /\ st[d] = "clear"
    /\ stop' = "none"
    /\ Step(d, "announce")
    /\ UNCHANGED <<locks, enabled, pidFile, off, super, file, lit, cmdVars,
                   sig, by, mem, sup>>

\* signal_ready to a parent that is still there, or drop(control).
Announce(d) ==
    /\ st[d] = "announce"
    /\ control' = IF control = d THEN Nil ELSE control
    /\ ready' = [c \in Cmd |-> ready[c] \/ (pc[c] = "ready" /\ tgt[c] = d)]
    /\ Step(d, "arm")
    /\ UNCHANGED <<owner, marks, super, file, lit, pc, verb, tgt, was, sig, by,
                   mem, sup>>

\* install_panic_reporter, spawn_signal_thread.
Arm(d) ==
    /\ st[d] = "arm"
    /\ Step(d, "load")
    /\ UNCHANGED <<locks, marks, super, file, lit, cmdVars, sig, by, mem, sup>>

\* spawn_signal_thread returned an error: run drops its OwnerGuard as it
\* returns, and only then does run_daemon write the failure down.
ArmFails(d) ==
    /\ "io" \in Env
    /\ st[d] = "arm"
    /\ owner' = owner \ {d}
    /\ Step(d, "failing")
    /\ UNCHANGED <<control, marks, super, file, lit, cmdVars, sig, by, mem,
                   sup>>

RecordFailure(d) ==
    /\ st[d] = "failing"
    /\ stop' = "failed"
    /\ Die(d)
    /\ UNCHANGED <<enabled, pidFile, off, super, file, lit, cmdVars>>

Load(d) ==
    /\ st[d] = "load"
    /\ mem' = [mem EXCEPT ![d] = file]
    /\ Step(d, "sample")
    /\ UNCHANGED <<locks, marks, super, file, lit, cmdVars, sig, by, sup>>

\* The top of the loop: park once stopping, else one cycle's sample, recorded.
Sample(d) ==
    /\ st[d] = "sample" /\ ~Flagged(d)
    /\ mem' = [mem EXCEPT ![d] = IF @ = "absent" THEN "current" ELSE @]
    /\ Step(d, "save")
    /\ UNCHANGED <<locks, marks, super, file, lit, cmdVars, sig, by, sup>>

Save(d) ==
    /\ st[d] = "save"
    /\ file' = mem[d]
    /\ Step(d, "push")
    /\ UNCHANGED <<locks, marks, super, lit, cmdVars, sig, by, mem, sup>>

SaveFails(d) ==
    /\ "io" \in Env
    /\ st[d] = "save"
    /\ Step(d, "push")
    /\ UNCHANGED <<locks, marks, super, file, lit, cmdVars, sig, by, mem, sup>>

\* push re-reads stopping under the badge mutex; Badges.tla opens this step.
Push(d) ==
    /\ st[d] = "push"
    /\ lit' = (lit \/ ~Flagged(d))
    /\ Step(d, "sample")
    /\ UNCHANGED <<locks, marks, super, file, cmdVars, sig, by, mem, sup>>

\* The panic hook runs first, with OWNER held.  A release build then aborts
\* (panic = "abort"): Unwind and Unwound at once.  The two steps are those of
\* an unwinding build, where OWNER is dropped while the signal thread is still
\* alive and the process exits last; they allow more than the shipped one does.
Panic(d) ==
    /\ "panic" \in Env
    /\ st[d] \in RunSt
    /\ stop' = "failed"
    /\ Step(d, "panicked")
    /\ UNCHANGED <<locks, enabled, pidFile, off, super, file, lit, cmdVars,
                   sig, by, mem, sup>>

Unwind(d) ==
    /\ st[d] = "panicked"
    /\ owner' = owner \ {d}
    /\ Step(d, "unwound")
    /\ UNCHANGED <<control, marks, super, file, lit, cmdVars, sig, by, mem,
                   sup>>

Unwound(d) ==
    /\ st[d] = "unwound"
    /\ Die(d)
    /\ UNCHANGED <<marks, super, file, lit, cmdVars>>

-----------------------------------------------------------------------------
(* The signal thread: flag, marker, badges, pid file, exit.                *)

SigStep(d, label) == sig' = [sig EXCEPT ![d] = label]

Notice(d) ==
    /\ sig[d] = "posted"
    /\ SigStep(d, "stopping")
    /\ UNCHANGED <<locks, marks, super, file, lit, cmdVars, st, by, mem, sup>>

\* Mutant: a reason stop_report cannot read.
RecordStopUnread(d) ==
    /\ sig[d] = "stopping"
    /\ stop' = "stopped"
    /\ SigStep(d, "recorded")
    /\ UNCHANGED <<locks, enabled, pidFile, off, super, file, lit, cmdVars, st,
                   by, mem, sup>>

\* The enabled marker tells the user's stop from anybody else's.
RecordStop(d) ==
    /\ sig[d] = "stopping"
    /\ stop' = IF enabled THEN "terminated" ELSE "disabled"
    /\ SigStep(d, "recorded")
    /\ UNCHANGED <<locks, enabled, pidFile, off, super, file, lit, cmdVars, st,
                   by, mem, sup>>

\* shutdown's clears: one wire patch per lit badge.
Shutdown(d) ==
    /\ sig[d] = "recorded"
    /\ lit' = FALSE
    /\ SigStep(d, "cleared")
    /\ UNCHANGED <<locks, marks, super, file, cmdVars, st, by, mem, sup>>

ShutdownFails(d) ==
    /\ "io" \in Env
    /\ sig[d] = "recorded"
    /\ SigStep(d, "cleared")
    /\ UNCHANGED <<locks, marks, super, file, lit, cmdVars, st, by, mem, sup>>

SigUnpid(d) ==
    /\ sig[d] = "cleared"
    /\ RemovePidIfEquals(d)
    /\ SigStep(d, "gone")
    /\ UNCHANGED <<locks, enabled, stop, off, super, file, lit, cmdVars, st,
                   by, mem, sup>>

Exit(d) ==
    /\ sig[d] = "gone"
    /\ Die(d)
    /\ UNCHANGED <<marks, super, file, lit, cmdVars>>

-----------------------------------------------------------------------------
(* The environment: the supervisor, other users of the machine, herdr.     *)

SupervisorStarts(d) ==
    /\ active /\ sup = Nil /\ FreePid(d)
    /\ sup' = d
    /\ Step(d, "boot")
    /\ UNCHANGED <<locks, marks, super, file, lit, cmdVars, sig, by, mem>>

\* A unit told to stop that does not is killed: TimeoutStopSec, ExitTimeOut.
SupervisorKills(d) ==
    /\ sup = d /\ ~active /\ sig[d] # "none"
    /\ Die(d)
    /\ UNCHANGED <<marks, super, file, lit, cmdVars>>

\* Bound: a foreground launch never takes the last pid of the instance.
Foreground(d) ==
    /\ "foreground" \in Env
    /\ FreePid(d) /\ \E e \in Daemon \ {d} : FreePid(e)
    /\ Step(d, "boot")
    /\ UNCHANGED <<locks, marks, super, file, lit, cmdVars, sig, by, mem, sup>>

Kill(d) ==
    /\ "kill" \in Env
    /\ Live(d)
    /\ Die(d)
    /\ UNCHANGED <<marks, super, file, lit, cmdVars>>

OutsideTerm(d) ==
    /\ "signal" \in Env
    /\ Live(d)
    /\ Term(d, "outside")
    /\ UNCHANGED <<marks, super, file, lit, cmdVars>>

\* herdr drops a badge nobody refreshes once its TTL ran out.
BadgeExpires ==
    /\ lit /\ owner \cap Daemon = {}
    /\ lit' = FALSE
    /\ UNCHANGED <<locks, marks, super, file, cmdVars, dmnVars>>

\* Files survive, locks and processes do not; registered units start.
Reboot ==
    /\ "reboot" \in Env
    /\ control' = Nil /\ owner' = {}
    /\ active' = registered /\ sup' = Nil /\ lit' = FALSE
    /\ pc' = [c \in Cmd |-> "idle"] /\ verb' = [c \in Cmd |-> "none"]
    /\ tgt' = [c \in Cmd |-> Nil] /\ was' = [c \in Cmd |-> FALSE]
    /\ ready' = [c \in Cmd |-> FALSE]
    /\ st' = [d \in Daemon |-> "dead"] /\ sig' = [d \in Daemon |-> "none"]
    /\ by' = [d \in Daemon |-> "none"] /\ mem' = [d \in Daemon |-> "absent"]
    /\ UNCHANGED <<marks, unit, registered, file>>

-----------------------------------------------------------------------------
EnableStep(c) == Mark(c) \/ ProbeHeld(c) \/ ProbeFree(c) \/ Recheck(c)
                 \/ Launch(c) \/ Start(c) \/ Started(c) \/ StartTimeout(c)
SpawnStep(c) == Take(c) \/ (\E d \in Daemon : Fork(c, d)) \/ ChildReady(c)
                \/ ChildNotReady(c) \/ Reap(c)
StopStep(c) == Unmark(c) \/ Unload(c) \/ Unloaded(c) \/ StopFree(c)
               \/ StopHeld(c) \/ ReadPid(c) \/ RequestStop(c) \/ Drained(c)
               \/ DrainTimeout(c) \/ Unpid(c) \/ Relogin(c) \/ Sweep(c)
ChangeStep(c) == Delete(c) \/ Note(c) \/ Write(c) \/ Activate(c) \/ Revert(c)
                 \/ Present(c) \/ RemoveUnit(c)
CmdFails(c) == StartFails(c) \/ ForkFails(c) \/ UnloadFails(c)
               \/ SweepFails(c) \/ DeleteFails(c) \/ ActivateFails(c)
               \/ Crash(c)

\* What a CLI process does by itself once it has CONTROL or needs no lock.
CmdStep(c) == EnableStep(c) \/ SpawnStep(c) \/ StopStep(c) \/ ChangeStep(c)
              \/ Return(c)

BootStep(d) == GateEnter(d) \/ GateDecline(d) \/ Publish(d) \/ ClearStop(d)
               \/ Announce(d) \/ Arm(d)
CycleStep(d) == Load(d) \/ Sample(d) \/ Save(d) \/ Push(d)
EndStep(d) == RecordFailure(d) \/ Unwind(d) \/ Unwound(d)
SignalStep(d) == Notice(d) \/ RecordStop(d) \/ Shutdown(d) \/ SigUnpid(d)
                 \/ Exit(d)
DaemonFails(d) == PublishFails(d) \/ ArmFails(d) \/ SaveFails(d) \/ Panic(d)
                  \/ ShutdownFails(d) \/ Kill(d) \/ OutsideTerm(d)

Next ==
    \/ \E c \in Cmd : \/ \E v \in Verbs : Invoke(c, v)
                      \/ Acquire(c) \/ Reacquire(c)
                      \/ CmdStep(c) \/ CmdFails(c)
    \/ \E d \in Daemon : \/ BootLock(d)
                         \/ BootStep(d) \/ CycleStep(d) \/ EndStep(d)
                         \/ SignalStep(d) \/ DaemonFails(d)
                         \/ SupervisorStarts(d) \/ SupervisorKills(d)
                         \/ Foreground(d)
    \/ BadgeExpires
    \/ Reboot

Spec == Init /\ [][Next]_vars

(* CLI processes run, flock lets every waiter through in the end, a        *)
(* sampler starts and ends, and systemd or launchd restarts an active unit *)
(* and kills one that will not stop.  Nothing is assumed of a running      *)
(* sampler's two threads: herdr may keep both waiting.  No fault is fair.  *)
Fairness ==
    /\ \A c \in Cmd : /\ WF_vars(CmdStep(c))
                      /\ SF_vars(Acquire(c)) /\ SF_vars(Reacquire(c))
    /\ \A d \in Daemon : /\ WF_vars(BootStep(d)) /\ WF_vars(EndStep(d))
                         /\ SF_vars(BootLock(d)) /\ WF_vars(SupervisorKills(d))
    /\ SF_vars(\E d \in Daemon : SupervisorStarts(d))

FairSpec == Spec /\ Fairness

-----------------------------------------------------------------------------
(* Type invariant.                                                         *)
TypeOK ==
    /\ control \in Cmd \cup Daemon \cup {Nil}
    /\ owner \subseteq Cmd \cup Daemon
    /\ enabled \in BOOLEAN /\ off \in BOOLEAN /\ lit \in BOOLEAN
    /\ unit \in BOOLEAN /\ registered \in BOOLEAN /\ active \in BOOLEAN
    /\ pidFile \in Daemon \cup {Nil} /\ sup \in Daemon \cup {Nil}
    /\ stop \in Reasons /\ file \in Data
    /\ pc \in [Cmd -> Pc] /\ verb \in [Cmd -> VerbState]
    /\ tgt \in [Cmd -> Daemon \cup {Nil}]
    /\ was \in [Cmd -> BOOLEAN] /\ ready \in [Cmd -> BOOLEAN]
    /\ st \in [Daemon -> St] /\ sig \in [Daemon -> Sig]
    /\ by \in [Daemon -> {"none", "user", "left", "restart", "outside"}]
    /\ mem \in [Daemon -> Data]



-----------------------------------------------------------------------------
(* Safety.                                                                 *)

\* A sampler that may touch the history file, now or later in its run.
Writer(d) == st[d] \in RunSt

\* There is never a second history writer, and none while --forget deletes:
\* the promise of the retained OWNER flock (run_daemon, forget_history).
SingleWriter ==
    /\ \A d, e \in Daemon : Writer(d) /\ Writer(e) => d = e
    /\ \A c \in Cmd : pc[c] = "delete" => \A d \in Daemon : ~Writer(d)

\* History deleted by --forget never comes back from the memory of a sampler
\* that had loaded it (forget_history, cycle's save).
NoResurrection == file # "forgotten"

\* While any sampler owns the namespace, a verb that decided to stop it holds
\* the owner's pid: no stale or reused pid is signalled in its place
\* (stop_sampler_locked, remove_stale_pid, publish_pid).
StopTargetsOwner ==
    \A c \in Cmd : pc[c] = "signal" /\ owner # {} => tgt[c] \in owner

\* A child that reported readiness and has not begun to stop is the process
\* the pid file names (spawn_detached, signal_ready).
ReadyMeansPublished ==
    \A c \in Cmd :
        pc[c] = "ready" /\ ready[c] /\ st[tgt[c]] \in OwnerSt
            /\ sig[tgt[c]] # "gone"
        => pidFile = tgt[c] /\ tgt[c] \in owner

\* When --disable or --toggle is about to return Ok without having given up
\* waiting, nothing of ours is on screen and nobody is left to draw it
\* (disable_locked: await OWNER release, then sweep).
DisableIsLastWord ==
    \A c \in Cmd :
        /\ pc[c] = "ok" /\ control = c /\ enabled = FALSE
        /\ verb[c] \in {"disable", "toggle"}
        => ~lit /\ owner = {}

\* A running sampler that is not stopping carries no stop marker of an
\* earlier run (clear_stop).
NoInheritedEpitaph ==
    \A d \in Daemon : Writer(d) /\ sig[d] = "none" => stop = "none"

-----------------------------------------------------------------------------
(* Action properties.                                                      *)

\* A sampler comes to own the namespace only while the enabled marker is set,
\* save the one --forget puts back (run_daemon's recheck under CONTROL,
\* restore, mark_enabled before launching).
OwnedOnlyWhenWanted ==
    [][owner \cap Daemon = {} /\ owner' \cap Daemon # {}
       => enabled' \/ \E c \in Cmd : verb[c] = "forget" /\ pc[c] = "fork"]_vars

\* When an enabling verb settles on Ok under CONTROL, some sampler owns the
\* namespace, and the pid file names it unless it is already on its way out
\* (README: startup returns only after the winning child owns the lock and
\* published its pid).
EnableDelivers ==
    [][\A c \in Cmd :
         /\ verb[c] \in {"enable", "toggle"} /\ control = c
         /\ pc[c] # "ok" /\ pc'[c] = "ok" /\ enabled'
         => \E d \in owner' \cap Daemon : sig'[d] = "none" => pidFile' = d]_vars

\* A stop the user asked for, and waits for, is never written down as somebody
\* else's signal (StopReason::Terminated, spawn_signal_thread).
UserStopIsNotTerminated ==
    [][\A d \in Daemon :
         by[d] = "user" /\ sig[d] = "stopping" /\ sig'[d] = "recorded"
         => stop' = "disabled"]_vars

\* --enable never takes the sampler a user's --disable is stopping for the
\* running one it was asked for, unless that --disable gave up waiting.
EnableNeverPassesDisable ==
    [][\A c \in Cmd :
         pc[c] = "probe" /\ verb[c] = "enable" /\ pc'[c] = "ok"
         => \A d \in owner \cap Daemon : by[d] # "user"]_vars

\* Undoing a failed --supervise never turns the namespace back on after a
\* --disable has returned Ok, unless some verb has asked for a sampler since.
\* A verb's own Write asks for one, so a --disable that counts here ran after
\* it, while install was waiting without CONTROL (install's was_enabled).
RollbackKeepsDisable ==
    [][\A c \in Cmd : pc[c] = "revert" /\ off /\ enabled' => enabled]_vars

-----------------------------------------------------------------------------
(* Liveness, under FairSpec.                                               *)

\* Every verb returns, even when the sampler it stops never answers
\* (STOP_TIMEOUT: --disable can never hang on a wedged daemon).
VerbsReturn == \A c \in Cmd : pc[c] # "idle" ~> pc[c] = "idle"

\* A unit that stays active in a namespace that stays enabled has its sampler
\* again and again, whatever it dies of once it got going.
SupervisedComesBack ==
    <>[](active /\ enabled) => []<>(\E d \in Daemon : Writer(d))

=============================================================================
