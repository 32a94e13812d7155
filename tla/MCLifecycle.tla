----------------------------- MODULE MCLifecycle -----------------------------
(* Small instances of Lifecycle for TLC: two concurrent CLI processes and  *)
(* two pids where safety is checked, one of each where liveness is.        *)
EXTENDS Lifecycle, TLC

\* CLI slots and pids are interchangeable (safety only).
Symmetry == Permutations(Cmd) \cup Permutations(Daemon)

\* Everything a namespace without a unit can be asked.
DetachedVerbs == {"enable", "disable", "toggle", "restore", "forget"}

DetachedEnv == {"kill", "crash", "signal", "io", "slowstop", "slowstart",
                "foreground"}

\* The verbs that differ once there is a unit.
SupervisedVerbs == {"enable", "disable", "forget", "supervise", "unsupervise"}

\* What does not by itself end a sampler that was started.
SupervisedEnv == {"platform", "slowstop", "slowstart", "reboot"}

LiveEnv == {"slowstop", "slowstart", "panic"}
=============================================================================
