-------------------------- MODULE LifecyclePromises --------------------------
(***************************************************************************)
(* The promises the verbs make, for any number of CLI processes and pids:  *)
(* which process a stop signals, what readiness and Ok mean, and whose     *)
(* doing a stop is written down as.                                        *)
(*                                                                         *)
(* Three invariants carry them, each on top of IInv.  Route: where a verb  *)
(* is says what the enabled marker is, since only a CONTROL holder writes  *)
(* it.  Named: whoever owns the namespace and has published is the one the *)
(* pid file names, since only an owner publishes and nobody else's entry   *)
(* is removed.  Word: a stop the user waits for has somebody waiting, and  *)
(* an Ok of --disable is still true when it is given.                      *)
(***************************************************************************)
EXTENDS LifecycleProofs

-----------------------------------------------------------------------------
(* Where a verb can be, and what the enabled marker is there.              *)

StopPath == {"unload", "unloading", "stop", "readpid", "signal", "drain",
             "unpid"}
SpawnPath == {"launch", "take", "fork", "ready", "reap", "start", "await"}
Ends == {"ok", "err"}
Sweeping == {"unmark", "sweep", "lateSweep", "late"}

Path(v) ==
    CASE v = "none"        -> {"idle"}
      [] v = "enable"      -> {"acquire", "mark", "probe"} \cup SpawnPath \cup Ends
      [] v = "disable"     -> {"acquire"} \cup Sweeping \cup StopPath \cup Ends
      [] v = "toggle"      -> {"acquire", "probe", "markFree"} \cup Sweeping
                              \cup StopPath \cup SpawnPath \cup Ends
      [] v = "restore"     -> {"acquire", "recheck"} \cup SpawnPath \cup Ends
      [] v = "forget"      -> {"acquire", "probe", "delete", "relogin"}
                              \cup StopPath \cup SpawnPath \cup Ends
      [] v = "supervise"   -> {"acquire", "note", "write", "activate", "await",
                               "reacquire", "relogin"} \cup StopPath \cup Ends
      [] v = "unsupervise" -> {"acquire", "present", "unmark", "remove"}
                              \cup StopPath \cup Ends
      [] OTHER             -> {"unload", "unloading", "revert", "err"}

UserVerb(c) == Asker(verb[c]) = "user"

\* A verb is on its path; without CONTROL it does not hold it; about to
\* launch for itself it found the namespace enabled or made it so; and a
\* user's stop runs with the namespace disabled.
Route ==
    /\ \A c \in Cmd : pc[c] \in Path(verb[c])
    /\ \A c \in Cmd : pc[c] \in FreePc => control # c
    /\ \A c \in Cmd : pc[c] \in {"launch", "take", "start", "fork", "ready"}
                      => enabled \/ verb[c] = "forget"
    /\ \A c \in Cmd : pc[c] = "probe" /\ verb[c] = "enable" => enabled
    /\ \A c \in Cmd : pc[c] \in StopPath \cup {"sweep"} /\ UserVerb(c)
                      => ~enabled

-----------------------------------------------------------------------------
(* Whom the pid file and a CLI process's tgt name.                         *)

\* Only an armed sampler has a signal to deal with.
Posted ==
    /\ \A d \in Daemon : sig[d] # "none" => st[d] \in Armed
    /\ \A d \in Daemon : by[d] # "none" => st[d] \in Armed

\* The pid file names the owner from publish_pid to remove_pid_if_equals, and
\* nobody else while there is an owner.
Published ==
    /\ \A c \in Cmd : pc[c] = "fork" => pidFile = Nil
    /\ \A d \in owner \cap Daemon : pidFile = Nil \/ pidFile = d
    /\ \A d \in Daemon : st[d] \in OwnerSt \ {"publish"} /\ sig[d] # "gone"
                         => pidFile = d
    /\ \A d \in Daemon : st[d] = "publish" => pidFile = Nil

\* The child of a spawn, while its parent waits on it; the target of a stop.
Targets ==
    /\ \A c \in Cmd : pc[c] = "ready" =>
         /\ tgt[c] \in Daemon
         /\ st[tgt[c]] \notin {"boot", "gate"}
         /\ ready[c] => st[tgt[c]] \notin {"publish", "clear", "announce"}
    /\ \A c \in Cmd : pc[c] = "reap" => tgt[c] \in Daemon /\ st[tgt[c]] = "dead"
    /\ \A c \in Cmd : pc[c] = "signal" => owner \subseteq {tgt[c]}

Named == Posted /\ Published /\ Targets

-----------------------------------------------------------------------------
(* Who waits for a stop, and what the Ok of one means.                     *)

Word ==
    /\ \A d \in owner \cap Daemon : by[d] = "user" =>
         \E c \in Cmd : Waits(c, d) /\ UserVerb(c)
    /\ \A c \in Cmd : pc[c] = "ok" /\ control = c
                      /\ verb[c] \in {"disable", "toggle"}
                      => enabled \/ (~lit /\ owner = {})

\* Every step keeps Route.
LEMMA RouteStep == IInv /\ Route /\ [Next]_vars => Route'
<1> SUFFICES ASSUME IInv /\ Route, [Next]_vars
             PROVE  Route'
  OBVIOUS
<1> USE InstanceAssumption, ProcessAssumption
     DEF IInv, Safe, LockInv, TypeOK, VerbState, Route, Path, StopPath,
         SpawnPath, Ends, Sweeping, UserVerb, Asker, AllVerbs, Pc, FreePc,
         SpawnPc, QuietPc, HeldPc, St, OwnerSt, StartSt, RunSt, Armed
<1>1. ASSUME NEW c \in Cmd, NEW v \in Verbs, Invoke(c, v)
      PROVE  Route'
  BY <1>1 DEF Invoke, Goto, locks, marks, super, dmnVars
<1>2. ASSUME NEW c \in Cmd, Acquire(c)
      PROVE  Route'
  BY <1>2 DEF Acquire, Goto, FirstStep, marks, super, dmnVars
<1>3. ASSUME NEW c \in Cmd, Reacquire(c)
      PROVE  Route'
  BY <1>3 DEF Reacquire, Goto, FirstStep, marks, super, dmnVars
<1>4. ASSUME NEW c \in Cmd, EnableStep(c)
      PROVE  Route'
  BY <1>4 DEF EnableStep, Mark, ProbeHeld, ProbeFree, Recheck, Launch,
     Start, Started, StartTimeout, Goto, RemoveStalePid, Live, Running,
     locks, super, dmnVars, marks
<1>5. ASSUME NEW c \in Cmd, SpawnStep(c)
      PROVE  Route'
  BY <1>5 DEF SpawnStep, Take, Fork, ChildReady, ChildNotReady, Reap,
     Goto, RemoveStalePid, Step, Live, FreePid, Zombie, Die,
     RemovePidIfEquals, super, dmnVars, marks, locks
<1>6. ASSUME NEW c \in Cmd, StopStep(c)
      PROVE  Route'
  BY <1>6 DEF StopStep, Unmark, Unload, Unloaded, StopFree, StopHeld,
     ReadPid, RequestStop, Drained, DrainTimeout, Unpid, Relogin, Sweep,
     Goto, Step, Die, Term, Asker, Live, AfterUnload, RemoveStalePid,
     AfterStop, AfterStopError, Strict, GiveUp, Waits, RemovePidIfEquals,
     locks, super, dmnVars, marks
<1>7. ASSUME NEW c \in Cmd, ChangeStep(c)
      PROVE  Route'
  BY <1>7 DEF ChangeStep, Delete, Note, Write, Activate, Revert, Present,
     RemoveUnit, Goto, AfterDelete, locks, marks, super, dmnVars
<1>8. ASSUME NEW c \in Cmd, Return(c)
      PROVE  Route'
  BY <1>8 DEF Return, Goto, Forgotten, marks, super, dmnVars
<1>9. ASSUME NEW c \in Cmd, StartFails(c)
      PROVE  Route'
  BY <1>9 DEF StartFails, Goto, locks, marks, dmnVars
<1>10. ASSUME NEW c \in Cmd, ForkFails(c)
      PROVE  Route'
  BY <1>10 DEF ForkFails, Goto, marks, super, dmnVars
<1>11. ASSUME NEW c \in Cmd, UnloadFails(c)
      PROVE  Route'
  BY <1>11 DEF UnloadFails, Goto, AfterUnload, locks, marks, dmnVars
<1>12. ASSUME NEW c \in Cmd, SweepFails(c)
      PROVE  Route'
  BY <1>12 DEF SweepFails, Goto, locks, marks, super, dmnVars
<1>13. ASSUME NEW c \in Cmd, DeleteFails(c)
      PROVE  Route'
  BY <1>13 DEF DeleteFails, Goto, AfterDelete, locks, marks, super,
     dmnVars
<1>14. ASSUME NEW c \in Cmd, ActivateFails(c)
      PROVE  Route'
  BY <1>14 DEF ActivateFails, Goto, locks, dmnVars
<1>15. ASSUME NEW c \in Cmd, Crash(c)
      PROVE  Route'
  BY <1>15 DEF Crash, Goto, Forgotten, GiveUp, Waits, marks, super
<1>16. ASSUME NEW d \in Daemon, BootLock(d)
      PROVE  Route'
  BY <1>16 DEF BootLock, Step, marks, super, cmdVars
<1>17. ASSUME NEW d \in Daemon, BootStep(d)
      PROVE  Route'
  BY <1>17 DEF BootStep, GateEnter, GateDecline, Publish, ClearStop,
     Announce, Arm, Step, RemoveStalePid, Die, super, cmdVars, marks,
     locks
<1>18. ASSUME NEW d \in Daemon, CycleStep(d)
      PROVE  Route'
  BY <1>18 DEF CycleStep, Load, Sample, Save, Push, Step, Flagged, locks,
     marks, super, cmdVars
<1>19. ASSUME NEW d \in Daemon, EndStep(d)
      PROVE  Route'
  BY <1>19 DEF EndStep, RecordFailure, Unwind, Unwound, Step, Die, super,
     cmdVars, marks
<1>20. ASSUME NEW d \in Daemon, SignalStep(d)
      PROVE  Route'
  BY <1>20 DEF SignalStep, Notice, RecordStop, Shutdown, SigUnpid, Exit,
     SigStep, RemovePidIfEquals, Step, Die, locks, marks, super, cmdVars
<1>21. ASSUME NEW d \in Daemon, DaemonFails(d)
      PROVE  Route'
  BY <1>21 DEF DaemonFails, PublishFails, ArmFails, SaveFails, Panic,
     ShutdownFails, Kill, OutsideTerm, Step, Die, SigStep, Live, Term,
     marks, super, cmdVars, locks
<1>22. ASSUME NEW d \in Daemon, SupervisorStarts(d)
      PROVE  Route'
  BY <1>22 DEF SupervisorStarts, Step, Live, FreePid, Zombie, locks,
     marks, super, cmdVars
<1>23. ASSUME NEW d \in Daemon, SupervisorKills(d)
      PROVE  Route'
  BY <1>23 DEF SupervisorKills, Step, Die, marks, super, cmdVars
<1>24. ASSUME NEW d \in Daemon, Foreground(d)
      PROVE  Route'
  BY <1>24 DEF Foreground, Step, Live, FreePid, Zombie, locks, marks,
     super, cmdVars
<1>25. ASSUME BadgeExpires
      PROVE  Route'
  BY <1>25 DEF BadgeExpires, locks, marks, super, cmdVars, dmnVars
<1>26. ASSUME Reboot
      PROVE  Route'
  BY <1>26 DEF Reboot, marks
<1>27. CASE UNCHANGED vars
  BY <1>27 DEF vars, locks, marks, super, cmdVars, dmnVars
<1> QED
  BY <1>1, <1>2, <1>3, <1>4, <1>5, <1>6, <1>7, <1>8, <1>9, <1>10, <1>11,
     <1>12, <1>13, <1>14, <1>15, <1>16, <1>17, <1>18, <1>19, <1>20, <1>21,
     <1>22, <1>23, <1>24, <1>25, <1>26, <1>27 DEF Next, CmdStep, CmdFails

\* Every step keeps Named.
LEMMA NamedStep == IInv /\ Named /\ [Next]_vars => Named'
<1> SUFFICES ASSUME IInv /\ Named, [Next]_vars
             PROVE  Named'
  OBVIOUS
<1> USE InstanceAssumption, ProcessAssumption
     DEF IInv, Safe, LockInv, OwnerInv, TypeOK, Named, Posted, Published,
         Targets, Sig, Pc, FreePc, SpawnPc, QuietPc, HeldPc, St, OwnerSt,
         StartSt, RunSt, Armed
<1>1. ASSUME NEW c \in Cmd, NEW v \in Verbs, Invoke(c, v)
      PROVE  Named'
  BY <1>1 DEF Invoke, Goto, locks, marks, super, dmnVars
<1>2. ASSUME NEW c \in Cmd, Acquire(c)
      PROVE  Named'
  BY <1>2 DEF Acquire, Goto, FirstStep, marks, super, dmnVars
<1>3. ASSUME NEW c \in Cmd, Reacquire(c)
      PROVE  Named'
  BY <1>3 DEF Reacquire, Goto, FirstStep, marks, super, dmnVars
<1>4. ASSUME NEW c \in Cmd, EnableStep(c)
      PROVE  Named'
  BY <1>4 DEF EnableStep, Mark, ProbeHeld, ProbeFree, Recheck, Launch,
     Start, Started, StartTimeout, Goto, RemoveStalePid, Live, Running,
     locks, super, dmnVars, marks
<1>5. ASSUME NEW c \in Cmd, SpawnStep(c)
      PROVE  Named'
  BY <1>5 DEF SpawnStep, Take, Fork, ChildReady, ChildNotReady, Reap,
     Goto, RemoveStalePid, Step, Live, FreePid, Zombie, Die,
     RemovePidIfEquals, super, dmnVars, marks, locks
<1>6. ASSUME NEW c \in Cmd, StopStep(c)
      PROVE  Named'
  BY <1>6 DEF StopStep, Unmark, Unload, Unloaded, StopFree, StopHeld,
     ReadPid, RequestStop, Drained, DrainTimeout, Unpid, Relogin, Sweep,
     Goto, Step, Die, Term, Asker, Live, AfterUnload, RemoveStalePid,
     AfterStop, AfterStopError, Strict, GiveUp, Waits, RemovePidIfEquals,
     locks, super, dmnVars, marks
<1>7. ASSUME NEW c \in Cmd, ChangeStep(c)
      PROVE  Named'
  BY <1>7 DEF ChangeStep, Delete, Note, Write, Activate, Revert, Present,
     RemoveUnit, Goto, AfterDelete, locks, marks, super, dmnVars
<1>8. ASSUME NEW c \in Cmd, Return(c)
      PROVE  Named'
  BY <1>8 DEF Return, Goto, Forgotten, marks, super, dmnVars
<1>9. ASSUME NEW c \in Cmd, StartFails(c)
      PROVE  Named'
  BY <1>9 DEF StartFails, Goto, locks, marks, dmnVars
<1>10. ASSUME NEW c \in Cmd, ForkFails(c)
      PROVE  Named'
  BY <1>10 DEF ForkFails, Goto, marks, super, dmnVars
<1>11. ASSUME NEW c \in Cmd, UnloadFails(c)
      PROVE  Named'
  BY <1>11 DEF UnloadFails, Goto, AfterUnload, locks, marks, dmnVars
<1>12. ASSUME NEW c \in Cmd, SweepFails(c)
      PROVE  Named'
  BY <1>12 DEF SweepFails, Goto, locks, marks, super, dmnVars
<1>13. ASSUME NEW c \in Cmd, DeleteFails(c)
      PROVE  Named'
  BY <1>13 DEF DeleteFails, Goto, AfterDelete, locks, marks, super,
     dmnVars
<1>14. ASSUME NEW c \in Cmd, ActivateFails(c)
      PROVE  Named'
  BY <1>14 DEF ActivateFails, Goto, locks, dmnVars
<1>15. ASSUME NEW c \in Cmd, Crash(c)
      PROVE  Named'
  BY <1>15 DEF Crash, Goto, Forgotten, GiveUp, Waits, marks, super
<1>16. ASSUME NEW d \in Daemon, BootLock(d)
      PROVE  Named'
  BY <1>16 DEF BootLock, Step, marks, super, cmdVars
<1>17. ASSUME NEW d \in Daemon, BootStep(d)
      PROVE  Named'
  BY <1>17 DEF BootStep, GateEnter, GateDecline, Publish, ClearStop,
     Announce, Arm, Step, RemoveStalePid, Die, super, cmdVars, marks,
     locks
<1>18. ASSUME NEW d \in Daemon, CycleStep(d)
      PROVE  Named'
  BY <1>18 DEF CycleStep, Load, Sample, Save, Push, Step, Flagged, locks,
     marks, super, cmdVars
<1>19. ASSUME NEW d \in Daemon, EndStep(d)
      PROVE  Named'
  BY <1>19 DEF EndStep, RecordFailure, Unwind, Unwound, Step, Die, super,
     cmdVars, marks
<1>20. ASSUME NEW d \in Daemon, SignalStep(d)
      PROVE  Named'
  BY <1>20 DEF SignalStep, Notice, RecordStop, Shutdown, SigUnpid, Exit,
     SigStep, RemovePidIfEquals, Step, Die, locks, marks, super, cmdVars
<1>21. ASSUME NEW d \in Daemon, DaemonFails(d)
      PROVE  Named'
  BY <1>21 DEF DaemonFails, PublishFails, ArmFails, SaveFails, Panic,
     ShutdownFails, Kill, OutsideTerm, Step, Die, SigStep, Live, Term,
     marks, super, cmdVars, locks
<1>22. ASSUME NEW d \in Daemon, SupervisorStarts(d)
      PROVE  Named'
  BY <1>22 DEF SupervisorStarts, Step, Live, FreePid, Zombie, locks,
     marks, super, cmdVars
<1>23. ASSUME NEW d \in Daemon, SupervisorKills(d)
      PROVE  Named'
  BY <1>23 DEF SupervisorKills, Step, Die, marks, super, cmdVars
<1>24. ASSUME NEW d \in Daemon, Foreground(d)
      PROVE  Named'
  BY <1>24 DEF Foreground, Step, Live, FreePid, Zombie, locks, marks,
     super, cmdVars
<1>25. ASSUME BadgeExpires
      PROVE  Named'
  BY <1>25 DEF BadgeExpires, locks, marks, super, cmdVars, dmnVars
<1>26. ASSUME Reboot
      PROVE  Named'
  BY <1>26 DEF Reboot, marks
<1>27. CASE UNCHANGED vars
  BY <1>27 DEF vars, locks, marks, super, cmdVars, dmnVars
<1> QED
  BY <1>1, <1>2, <1>3, <1>4, <1>5, <1>6, <1>7, <1>8, <1>9, <1>10, <1>11,
     <1>12, <1>13, <1>14, <1>15, <1>16, <1>17, <1>18, <1>19, <1>20, <1>21,
     <1>22, <1>23, <1>24, <1>25, <1>26, <1>27 DEF Next, CmdStep, CmdFails

\* Every step keeps Word.
LEMMA WordStep == IInv /\ Route /\ Named /\ Word /\ [Next]_vars => Word'
<1> SUFFICES ASSUME IInv /\ Route /\ Named /\ Word, [Next]_vars
             PROVE  Word'
  OBVIOUS
<1> USE InstanceAssumption, ProcessAssumption
     DEF IInv, Safe, LockInv, OwnerInv, TypeOK, VerbState, Route, Path,
         StopPath, SpawnPath, Ends, Sweeping, UserVerb, Asker, Named,
         Posted, Word, Waits, Pc, FreePc, SpawnPc, QuietPc, HeldPc, St,
         OwnerSt, StartSt, RunSt, Armed
<1>1. ASSUME NEW c \in Cmd, NEW v \in Verbs, Invoke(c, v)
      PROVE  Word'
  BY <1>1 DEF Invoke, Goto, locks, marks, super, dmnVars
<1>2. ASSUME NEW c \in Cmd, Acquire(c)
      PROVE  Word'
  BY <1>2 DEF Acquire, Goto, FirstStep, marks, super, dmnVars
<1>3. ASSUME NEW c \in Cmd, Reacquire(c)
      PROVE  Word'
  BY <1>3 DEF Reacquire, Goto, FirstStep, marks, super, dmnVars
<1>4. ASSUME NEW c \in Cmd, EnableStep(c)
      PROVE  Word'
  BY <1>4 DEF EnableStep, Mark, ProbeHeld, ProbeFree, Recheck, Launch,
     Start, Started, StartTimeout, Goto, RemoveStalePid, Live, Running,
     locks, super, dmnVars, marks
<1>5. ASSUME NEW c \in Cmd, SpawnStep(c)
      PROVE  Word'
  BY <1>5 DEF SpawnStep, Take, Fork, ChildReady, ChildNotReady, Reap,
     Goto, RemoveStalePid, Step, Live, FreePid, Zombie, Die,
     RemovePidIfEquals, super, dmnVars, marks, locks
<1>6. ASSUME NEW c \in Cmd, StopStep(c)
      PROVE  Word'
  BY <1>6 DEF StopStep, Unmark, Unload, Unloaded, StopFree, StopHeld,
     ReadPid, RequestStop, Drained, DrainTimeout, Unpid, Relogin, Sweep,
     Goto, Step, Die, Term, Asker, Live, AfterUnload, RemoveStalePid,
     AfterStop, AfterStopError, Strict, GiveUp, Waits, RemovePidIfEquals,
     locks, super, dmnVars, marks
<1>7. ASSUME NEW c \in Cmd, ChangeStep(c)
      PROVE  Word'
  BY <1>7 DEF ChangeStep, Delete, Note, Write, Activate, Revert, Present,
     RemoveUnit, Goto, AfterDelete, locks, marks, super, dmnVars
<1>8. ASSUME NEW c \in Cmd, Return(c)
      PROVE  Word'
  BY <1>8 DEF Return, Goto, Forgotten, marks, super, dmnVars
<1>9. ASSUME NEW c \in Cmd, StartFails(c)
      PROVE  Word'
  BY <1>9 DEF StartFails, Goto, locks, marks, dmnVars
<1>10. ASSUME NEW c \in Cmd, ForkFails(c)
      PROVE  Word'
  BY <1>10 DEF ForkFails, Goto, marks, super, dmnVars
<1>11. ASSUME NEW c \in Cmd, UnloadFails(c)
      PROVE  Word'
  BY <1>11 DEF UnloadFails, Goto, AfterUnload, locks, marks, dmnVars
<1>12. ASSUME NEW c \in Cmd, SweepFails(c)
      PROVE  Word'
  BY <1>12 DEF SweepFails, Goto, locks, marks, super, dmnVars
<1>13. ASSUME NEW c \in Cmd, DeleteFails(c)
      PROVE  Word'
  BY <1>13 DEF DeleteFails, Goto, AfterDelete, locks, marks, super,
     dmnVars
<1>14. ASSUME NEW c \in Cmd, ActivateFails(c)
      PROVE  Word'
  BY <1>14 DEF ActivateFails, Goto, locks, dmnVars
<1>15. ASSUME NEW c \in Cmd, Crash(c)
      PROVE  Word'
  BY <1>15 DEF Crash, Goto, Forgotten, GiveUp, Waits, marks, super
<1>16. ASSUME NEW d \in Daemon, BootLock(d)
      PROVE  Word'
  BY <1>16 DEF BootLock, Step, marks, super, cmdVars
<1>17. ASSUME NEW d \in Daemon, BootStep(d)
      PROVE  Word'
  BY <1>17 DEF BootStep, GateEnter, GateDecline, Publish, ClearStop,
     Announce, Arm, Step, RemoveStalePid, Die, super, cmdVars, marks,
     locks
<1>18. ASSUME NEW d \in Daemon, CycleStep(d)
      PROVE  Word'
  BY <1>18 DEF CycleStep, Load, Sample, Save, Push, Step, Flagged, locks,
     marks, super, cmdVars
<1>19. ASSUME NEW d \in Daemon, EndStep(d)
      PROVE  Word'
  BY <1>19 DEF EndStep, RecordFailure, Unwind, Unwound, Step, Die, super,
     cmdVars, marks
<1>20. ASSUME NEW d \in Daemon, SignalStep(d)
      PROVE  Word'
  BY <1>20 DEF SignalStep, Notice, RecordStop, Shutdown, SigUnpid, Exit,
     SigStep, RemovePidIfEquals, Step, Die, locks, marks, super, cmdVars
<1>21. ASSUME NEW d \in Daemon, DaemonFails(d)
      PROVE  Word'
  BY <1>21 DEF DaemonFails, PublishFails, ArmFails, SaveFails, Panic,
     ShutdownFails, Kill, OutsideTerm, Step, Die, SigStep, Live, Term,
     marks, super, cmdVars, locks
<1>22. ASSUME NEW d \in Daemon, SupervisorStarts(d)
      PROVE  Word'
  BY <1>22 DEF SupervisorStarts, Step, Live, FreePid, Zombie, locks,
     marks, super, cmdVars
<1>23. ASSUME NEW d \in Daemon, SupervisorKills(d)
      PROVE  Word'
  BY <1>23 DEF SupervisorKills, Step, Die, marks, super, cmdVars
<1>24. ASSUME NEW d \in Daemon, Foreground(d)
      PROVE  Word'
  BY <1>24 DEF Foreground, Step, Live, FreePid, Zombie, locks, marks,
     super, cmdVars
<1>25. ASSUME BadgeExpires
      PROVE  Word'
  BY <1>25 DEF BadgeExpires, locks, marks, super, cmdVars, dmnVars
<1>26. ASSUME Reboot
      PROVE  Word'
  BY <1>26 DEF Reboot, marks
<1>27. CASE UNCHANGED vars
  BY <1>27 DEF vars, locks, marks, super, cmdVars, dmnVars
<1> QED
  BY <1>1, <1>2, <1>3, <1>4, <1>5, <1>6, <1>7, <1>8, <1>9, <1>10, <1>11,
     <1>12, <1>13, <1>14, <1>15, <1>16, <1>17, <1>18, <1>19, <1>20, <1>21,
     <1>22, <1>23, <1>24, <1>25, <1>26, <1>27 DEF Next, CmdStep, CmdFails


Kept == IInv /\ Route /\ Named /\ Word

\* The three invariants hold in every reachable state.
LEMMA Keeping == Spec => []Kept
<1>1. Init => Kept
  <2> SUFFICES ASSUME Init
               PROVE  Kept
    OBVIOUS
  <2>1. IInv
    BY InitIInv
  <2>2. Route
    BY ProcessAssumption DEF Init, Route, Path, StopPath
  <2>3. Named
    BY DEF Init, Named, Posted, Published, Targets, OwnerSt, StartSt, RunSt
  <2>4. Word
    BY DEF Init, Word
  <2> QED
    BY <2>1, <2>2, <2>3, <2>4 DEF Kept
<1>2. Kept /\ [Next]_vars => Kept'
  BY SafeStep, TypeStep, RouteStep, NamedStep, WordStep DEF Kept, IInv
<1> QED
  BY <1>1, <1>2, PTL DEF Spec


-----------------------------------------------------------------------------
(* What faults can take away.                                              *)

\* Without a panic no signal thread outlives its main thread's OWNER.
Whole == \A d \in Daemon : st[d] \notin {"panicked", "unwound"}

\* Without a late failure either, a stop marker is written by the owner only.
Fresh ==
    /\ Whole
    /\ \A d \in Daemon : st[d] # "failing"
    /\ \A d \in Daemon :
         st[d] \in {"announce", "arm"} \cup RunSt /\ sig[d] = "none"
         => stop = "none"

\* What ends a sampler, or its parent, at any step.
Sudden == {"kill", "crash", "signal", "panic", "io"}

\* Without those a sampler starts under the eyes of a CONTROL holder, and a
\* spawned child is alive when its parent reads the 'R'.
Watched ==
    /\ \A d \in Daemon : st[d] \in {"publish", "clear", "announce"} =>
         control = d \/ \E c \in Cmd : pc[c] = "ready" /\ tgt[c] = d
    /\ \A c \in Cmd : pc[c] = "ready" =>
         st[tgt[c]] \in OwnerSt /\ sig[tgt[c]] = "none" /\ sup # tgt[c]
    /\ \A d \in Daemon : sup = d => st[d] # "dead"

\* Every step but a panic keeps Whole.
LEMMA WholeStep ==
    ASSUME "panic" \notin Env
    PROVE  TypeOK /\ Whole /\ [Next]_vars => Whole'
<1> SUFFICES ASSUME TypeOK /\ Whole, [Next]_vars
             PROVE  Whole'
  OBVIOUS
<1> USE DEF TypeOK, Whole, Pc, FreePc, SpawnPc, QuietPc, HeldPc, St,
     OwnerSt, StartSt, RunSt, Armed
<1>1. ASSUME NEW c \in Cmd, NEW v \in Verbs, Invoke(c, v)
      PROVE  Whole'
  BY <1>1 DEF Invoke, Goto, locks, marks, super, dmnVars
<1>2. ASSUME NEW c \in Cmd, Acquire(c) \/ Reacquire(c) \/ EnableStep(c)
      PROVE  Whole'
  BY <1>2 DEF Acquire, Goto, FirstStep, marks, super, dmnVars, Reacquire,
     EnableStep, Mark, ProbeHeld, ProbeFree, Recheck, Launch, Start,
     Started, StartTimeout, RemoveStalePid, Live, Running, locks
<1>3. ASSUME NEW c \in Cmd, SpawnStep(c)
      PROVE  Whole'
  BY <1>3 DEF SpawnStep, Take, Fork, ChildReady, ChildNotReady, Reap,
     Goto, RemoveStalePid, Step, Live, FreePid, Zombie, Die,
     RemovePidIfEquals, super, dmnVars, marks, locks
<1>4. ASSUME NEW c \in Cmd, StopStep(c) \/ ChangeStep(c)
      PROVE  Whole'
  BY <1>4 DEF StopStep, Unmark, Unload, Unloaded, StopFree, StopHeld,
     ReadPid, RequestStop, Drained, DrainTimeout, Unpid, Relogin, Sweep,
     Goto, Step, Die, Term, Asker, Live, AfterUnload, RemoveStalePid,
     AfterStop, AfterStopError, Strict, GiveUp, Waits, RemovePidIfEquals,
     locks, super, dmnVars, marks, ChangeStep, Delete, Note, Write,
     Activate, Revert, Present, RemoveUnit, AfterDelete
<1>5. ASSUME NEW c \in Cmd, Return(c) \/ CmdFails(c)
      PROVE  Whole'
  BY <1>5 DEF Return, Goto, Forgotten, marks, super, dmnVars, CmdFails,
     StartFails, ForkFails, UnloadFails, SweepFails, DeleteFails,
     ActivateFails, Crash, AfterUnload, AfterDelete, GiveUp, Waits, locks
<1>6. ASSUME NEW d \in Daemon, BootLock(d) \/ BootStep(d) \/ CycleStep(d) \/ EndStep(d)
      PROVE  Whole'
  BY <1>6 DEF BootLock, Step, marks, super, cmdVars, BootStep, GateEnter,
     GateDecline, Publish, ClearStop, Announce, Arm, RemoveStalePid, Die,
     locks, CycleStep, Load, Sample, Save, Push, Flagged, EndStep,
     RecordFailure, Unwind, Unwound
<1>7. ASSUME NEW d \in Daemon, SignalStep(d) \/ DaemonFails(d) \/ SupervisorStarts(d) \/
                SupervisorKills(d) \/ Foreground(d)
      PROVE  Whole'
  BY <1>7 DEF SignalStep, Notice, RecordStop, Shutdown, SigUnpid, Exit,
     SigStep, RemovePidIfEquals, Step, Die, locks, marks, super, cmdVars,
     DaemonFails, PublishFails, ArmFails, SaveFails, Panic, ShutdownFails,
     Kill, OutsideTerm, Live, Term, SupervisorStarts, FreePid, Zombie,
     SupervisorKills, Foreground
<1>8. ASSUME BadgeExpires \/ Reboot
      PROVE  Whole'
  BY <1>8 DEF BadgeExpires, locks, marks, super, cmdVars, dmnVars, Reboot
<1>9. CASE UNCHANGED vars
  BY <1>9 DEF vars, locks, marks, super, cmdVars, dmnVars
<1> QED
  BY <1>1, <1>2, <1>3, <1>4, <1>5, <1>6, <1>7, <1>8, <1>9 DEF Next,
     CmdStep

\* Every step but a panic or a failed one keeps Fresh.
LEMMA FreshStep ==
    ASSUME "panic" \notin Env, "io" \notin Env
    PROVE  IInv /\ Named /\ Fresh /\ [Next]_vars => Fresh'
<1> SUFFICES ASSUME IInv /\ Named /\ Fresh, [Next]_vars
             PROVE  Fresh'
  OBVIOUS
<1> USE InstanceAssumption, ProcessAssumption
     DEF IInv, Safe, LockInv, OwnerInv, TypeOK, Named, Posted, Whole,
         Fresh, Sig, Reasons, Pc, FreePc, SpawnPc, QuietPc, HeldPc, St,
         OwnerSt, StartSt, RunSt, Armed
<1>1. ASSUME NEW c \in Cmd, NEW v \in Verbs, Invoke(c, v)
      PROVE  Fresh'
  BY <1>1 DEF Invoke, Goto, locks, marks, super, dmnVars
<1>2. ASSUME NEW c \in Cmd, Acquire(c)
      PROVE  Fresh'
  BY <1>2 DEF Acquire, Goto, FirstStep, marks, super, dmnVars
<1>3. ASSUME NEW c \in Cmd, Reacquire(c)
      PROVE  Fresh'
  BY <1>3 DEF Reacquire, Goto, FirstStep, marks, super, dmnVars
<1>4. ASSUME NEW c \in Cmd, EnableStep(c)
      PROVE  Fresh'
  BY <1>4 DEF EnableStep, Mark, ProbeHeld, ProbeFree, Recheck, Launch,
     Start, Started, StartTimeout, Goto, RemoveStalePid, Live, Running,
     locks, super, dmnVars, marks
<1>5. ASSUME NEW c \in Cmd, SpawnStep(c)
      PROVE  Fresh'
  BY <1>5 DEF SpawnStep, Take, Fork, ChildReady, ChildNotReady, Reap,
     Goto, RemoveStalePid, Step, Live, FreePid, Zombie, Die,
     RemovePidIfEquals, super, dmnVars, marks, locks
<1>6. ASSUME NEW c \in Cmd, StopStep(c)
      PROVE  Fresh'
  BY <1>6 DEF StopStep, Unmark, Unload, Unloaded, StopFree, StopHeld,
     ReadPid, RequestStop, Drained, DrainTimeout, Unpid, Relogin, Sweep,
     Goto, Step, Die, Term, Asker, Live, AfterUnload, RemoveStalePid,
     AfterStop, AfterStopError, Strict, GiveUp, Waits, RemovePidIfEquals,
     locks, super, dmnVars, marks
<1>7. ASSUME NEW c \in Cmd, ChangeStep(c)
      PROVE  Fresh'
  BY <1>7 DEF ChangeStep, Delete, Note, Write, Activate, Revert, Present,
     RemoveUnit, Goto, AfterDelete, locks, marks, super, dmnVars
<1>8. ASSUME NEW c \in Cmd, Return(c)
      PROVE  Fresh'
  BY <1>8 DEF Return, Goto, Forgotten, marks, super, dmnVars
<1>9. ASSUME NEW c \in Cmd, StartFails(c)
      PROVE  Fresh'
  BY <1>9 DEF StartFails, Goto, locks, marks, dmnVars
<1>10. ASSUME NEW c \in Cmd, ForkFails(c)
      PROVE  Fresh'
  BY <1>10 DEF ForkFails, Goto, marks, super, dmnVars
<1>11. ASSUME NEW c \in Cmd, UnloadFails(c)
      PROVE  Fresh'
  BY <1>11 DEF UnloadFails, Goto, AfterUnload, locks, marks, dmnVars
<1>12. ASSUME NEW c \in Cmd, SweepFails(c)
      PROVE  Fresh'
  BY <1>12 DEF SweepFails, Goto, locks, marks, super, dmnVars
<1>13. ASSUME NEW c \in Cmd, DeleteFails(c)
      PROVE  Fresh'
  BY <1>13 DEF DeleteFails, Goto, AfterDelete, locks, marks, super,
     dmnVars
<1>14. ASSUME NEW c \in Cmd, ActivateFails(c)
      PROVE  Fresh'
  BY <1>14 DEF ActivateFails, Goto, locks, dmnVars
<1>15. ASSUME NEW c \in Cmd, Crash(c)
      PROVE  Fresh'
  BY <1>15 DEF Crash, Goto, Forgotten, GiveUp, Waits, marks, super
<1>16. ASSUME NEW d \in Daemon, BootLock(d)
      PROVE  Fresh'
  BY <1>16 DEF BootLock, Step, marks, super, cmdVars
<1>17. ASSUME NEW d \in Daemon, BootStep(d)
      PROVE  Fresh'
  BY <1>17 DEF BootStep, GateEnter, GateDecline, Publish, ClearStop,
     Announce, Arm, Step, RemoveStalePid, Die, super, cmdVars, marks,
     locks
<1>18. ASSUME NEW d \in Daemon, CycleStep(d)
      PROVE  Fresh'
  BY <1>18 DEF CycleStep, Load, Sample, Save, Push, Step, Flagged, locks,
     marks, super, cmdVars
<1>19. ASSUME NEW d \in Daemon, EndStep(d)
      PROVE  Fresh'
  BY <1>19 DEF EndStep, RecordFailure, Unwind, Unwound, Step, Die, super,
     cmdVars, marks
<1>20. ASSUME NEW d \in Daemon, SignalStep(d)
      PROVE  Fresh'
  BY <1>20 DEF SignalStep, Notice, RecordStop, Shutdown, SigUnpid, Exit,
     SigStep, RemovePidIfEquals, Step, Die, locks, marks, super, cmdVars
<1>21. ASSUME NEW d \in Daemon, DaemonFails(d)
      PROVE  Fresh'
  BY <1>21 DEF DaemonFails, PublishFails, ArmFails, SaveFails, Panic,
     ShutdownFails, Kill, OutsideTerm, Step, Die, SigStep, Live, Term,
     marks, super, cmdVars, locks
<1>22. ASSUME NEW d \in Daemon, SupervisorStarts(d)
      PROVE  Fresh'
  BY <1>22 DEF SupervisorStarts, Step, Live, FreePid, Zombie, locks,
     marks, super, cmdVars
<1>23. ASSUME NEW d \in Daemon, SupervisorKills(d)
      PROVE  Fresh'
  BY <1>23 DEF SupervisorKills, Step, Die, marks, super, cmdVars
<1>24. ASSUME NEW d \in Daemon, Foreground(d)
      PROVE  Fresh'
  BY <1>24 DEF Foreground, Step, Live, FreePid, Zombie, locks, marks,
     super, cmdVars
<1>25. ASSUME BadgeExpires
      PROVE  Fresh'
  BY <1>25 DEF BadgeExpires, locks, marks, super, cmdVars, dmnVars
<1>26. ASSUME Reboot
      PROVE  Fresh'
  BY <1>26 DEF Reboot, marks
<1>27. CASE UNCHANGED vars
  BY <1>27 DEF vars, locks, marks, super, cmdVars, dmnVars
<1> QED
  BY <1>1, <1>2, <1>3, <1>4, <1>5, <1>6, <1>7, <1>8, <1>9, <1>10, <1>11,
     <1>12, <1>13, <1>14, <1>15, <1>16, <1>17, <1>18, <1>19, <1>20, <1>21,
     <1>22, <1>23, <1>24, <1>25, <1>26, <1>27 DEF Next, CmdStep, CmdFails

\* Every step but a sudden end keeps Watched.
LEMMA WatchedStep ==
    ASSUME Env \cap Sudden = {}
    PROVE  Kept /\ Whole /\ Watched /\ [Next]_vars => Watched'
<1> SUFFICES ASSUME Kept /\ Whole /\ Watched, [Next]_vars
             PROVE  Watched'
  OBVIOUS
<1> USE InstanceAssumption, ProcessAssumption
     DEF Kept, IInv, Safe, LockInv, OwnerInv, TypeOK, Named, Posted,
         Targets, Whole, Watched, Sudden, Sig, Pc, FreePc, SpawnPc,
         QuietPc, HeldPc, St, OwnerSt, StartSt, RunSt, Armed
<1>1. ASSUME NEW c \in Cmd, NEW v \in Verbs, Invoke(c, v)
      PROVE  Watched'
  BY <1>1 DEF Invoke, Goto, locks, marks, super, dmnVars
<1>2. ASSUME NEW c \in Cmd, Acquire(c)
      PROVE  Watched'
  BY <1>2 DEF Acquire, Goto, FirstStep, marks, super, dmnVars
<1>3. ASSUME NEW c \in Cmd, Reacquire(c)
      PROVE  Watched'
  BY <1>3 DEF Reacquire, Goto, FirstStep, marks, super, dmnVars
<1>4. ASSUME NEW c \in Cmd, EnableStep(c)
      PROVE  Watched'
  BY <1>4 DEF EnableStep, Mark, ProbeHeld, ProbeFree, Recheck, Launch,
     Start, Started, StartTimeout, Goto, RemoveStalePid, Live, Running,
     locks, super, dmnVars, marks
<1>5. ASSUME NEW c \in Cmd, SpawnStep(c)
      PROVE  Watched'
  BY <1>5 DEF SpawnStep, Take, Fork, ChildReady, ChildNotReady, Reap,
     Goto, RemoveStalePid, Step, Live, FreePid, Zombie, Die,
     RemovePidIfEquals, super, dmnVars, marks, locks
<1>6. ASSUME NEW c \in Cmd, StopStep(c)
      PROVE  Watched'
  BY <1>6 DEF StopStep, Unmark, Unload, Unloaded, StopFree, StopHeld,
     ReadPid, RequestStop, Drained, DrainTimeout, Unpid, Relogin, Sweep,
     Goto, Step, Die, Term, Asker, Live, AfterUnload, RemoveStalePid,
     AfterStop, AfterStopError, Strict, GiveUp, Waits, RemovePidIfEquals,
     locks, super, dmnVars, marks
<1>7. ASSUME NEW c \in Cmd, ChangeStep(c)
      PROVE  Watched'
  BY <1>7 DEF ChangeStep, Delete, Note, Write, Activate, Revert, Present,
     RemoveUnit, Goto, AfterDelete, locks, marks, super, dmnVars
<1>8. ASSUME NEW c \in Cmd, Return(c)
      PROVE  Watched'
  BY <1>8 DEF Return, Goto, Forgotten, marks, super, dmnVars
<1>9. ASSUME NEW c \in Cmd, StartFails(c)
      PROVE  Watched'
  BY <1>9 DEF StartFails, Goto, locks, marks, dmnVars
<1>10. ASSUME NEW c \in Cmd, ForkFails(c)
      PROVE  Watched'
  BY <1>10 DEF ForkFails, Goto, marks, super, dmnVars
<1>11. ASSUME NEW c \in Cmd, UnloadFails(c)
      PROVE  Watched'
  BY <1>11 DEF UnloadFails, Goto, AfterUnload, locks, marks, dmnVars
<1>12. ASSUME NEW c \in Cmd, SweepFails(c)
      PROVE  Watched'
  BY <1>12 DEF SweepFails, Goto, locks, marks, super, dmnVars
<1>13. ASSUME NEW c \in Cmd, DeleteFails(c)
      PROVE  Watched'
  BY <1>13 DEF DeleteFails, Goto, AfterDelete, locks, marks, super,
     dmnVars
<1>14. ASSUME NEW c \in Cmd, ActivateFails(c)
      PROVE  Watched'
  BY <1>14 DEF ActivateFails, Goto, locks, dmnVars
<1>15. ASSUME NEW c \in Cmd, Crash(c)
      PROVE  Watched'
  BY <1>15 DEF Crash, Goto, Forgotten, GiveUp, Waits, marks, super
<1>16. ASSUME NEW d \in Daemon, BootLock(d)
      PROVE  Watched'
  BY <1>16 DEF BootLock, Step, marks, super, cmdVars
<1>17. ASSUME NEW d \in Daemon, BootStep(d)
      PROVE  Watched'
  BY <1>17 DEF BootStep, GateEnter, GateDecline, Publish, ClearStop,
     Announce, Arm, Step, RemoveStalePid, Die, super, cmdVars, marks,
     locks
<1>18. ASSUME NEW d \in Daemon, CycleStep(d)
      PROVE  Watched'
  BY <1>18 DEF CycleStep, Load, Sample, Save, Push, Step, Flagged, locks,
     marks, super, cmdVars
<1>19. ASSUME NEW d \in Daemon, EndStep(d)
      PROVE  Watched'
  BY <1>19 DEF EndStep, RecordFailure, Unwind, Unwound, Step, Die, super,
     cmdVars, marks
<1>20. ASSUME NEW d \in Daemon, SignalStep(d)
      PROVE  Watched'
  BY <1>20 DEF SignalStep, Notice, RecordStop, Shutdown, SigUnpid, Exit,
     SigStep, RemovePidIfEquals, Step, Die, locks, marks, super, cmdVars
<1>21. ASSUME NEW d \in Daemon, DaemonFails(d)
      PROVE  Watched'
  BY <1>21 DEF DaemonFails, PublishFails, ArmFails, SaveFails, Panic,
     ShutdownFails, Kill, OutsideTerm, Step, Die, SigStep, Live, Term,
     marks, super, cmdVars, locks
<1>22. ASSUME NEW d \in Daemon, SupervisorStarts(d)
      PROVE  Watched'
  BY <1>22 DEF SupervisorStarts, Step, Live, FreePid, Zombie, locks,
     marks, super, cmdVars
<1>23. ASSUME NEW d \in Daemon, SupervisorKills(d)
      PROVE  Watched'
  BY <1>23 DEF SupervisorKills, Step, Die, marks, super, cmdVars
<1>24. ASSUME NEW d \in Daemon, Foreground(d)
      PROVE  Watched'
  BY <1>24 DEF Foreground, Step, Live, FreePid, Zombie, locks, marks,
     super, cmdVars
<1>25. ASSUME BadgeExpires
      PROVE  Watched'
  BY <1>25 DEF BadgeExpires, locks, marks, super, cmdVars, dmnVars
<1>26. ASSUME Reboot
      PROVE  Watched'
  BY <1>26 DEF Reboot, marks
<1>27. CASE UNCHANGED vars
  BY <1>27 DEF vars, locks, marks, super, cmdVars, dmnVars
<1> QED
  BY <1>1, <1>2, <1>3, <1>4, <1>5, <1>6, <1>7, <1>8, <1>9, <1>10, <1>11,
     <1>12, <1>13, <1>14, <1>15, <1>16, <1>17, <1>18, <1>19, <1>20, <1>21,
     <1>22, <1>23, <1>24, <1>25, <1>26, <1>27 DEF Next, CmdStep, CmdFails


-----------------------------------------------------------------------------
(* The steps the action properties speak of.                               *)

SettlesOnOk(c) == \/ ProbeHeld(c) \/ Recheck(c) \/ Take(c) \/ Started(c)
                  \/ ChildReady(c) \/ Sweep(c) \/ Delete(c) \/ DeleteFails(c)
                  \/ Present(c) \/ RemoveUnit(c)

ComesToOwn == \/ \E d \in Daemon : GateEnter(d)
              \/ \E c \in Cmd, d \in Daemon : Fork(c, d)

\* A verb settles on Ok by one of these steps.
LEMMA OkStep ==
    ASSUME TypeOK,
           NEW b \in Cmd,
           pc[b] # "ok",
           pc'[b] = "ok",
           [Next]_vars
    PROVE  SettlesOnOk(b)
<1> USE DEF TypeOK, SettlesOnOk, Pc, FreePc, SpawnPc, QuietPc, HeldPc, St,
     OwnerSt, StartSt, RunSt, Armed
<1>1. ASSUME NEW c \in Cmd, NEW v \in Verbs, Invoke(c, v)
      PROVE  SettlesOnOk(b)
  BY <1>1 DEF Invoke, Goto, locks, marks, super, dmnVars
<1>2. ASSUME NEW c \in Cmd, Acquire(c) \/ Reacquire(c) \/ EnableStep(c)
      PROVE  SettlesOnOk(b)
  BY <1>2 DEF Acquire, Goto, FirstStep, marks, super, dmnVars, Reacquire,
     EnableStep, Mark, ProbeHeld, ProbeFree, Recheck, Launch, Start,
     Started, StartTimeout, RemoveStalePid, Live, Running, locks
<1>3. ASSUME NEW c \in Cmd, SpawnStep(c)
      PROVE  SettlesOnOk(b)
  BY <1>3 DEF SpawnStep, Take, Fork, ChildReady, ChildNotReady, Reap,
     Goto, RemoveStalePid, Step, Live, FreePid, Zombie, Die,
     RemovePidIfEquals, super, dmnVars, marks, locks
<1>4. ASSUME NEW c \in Cmd, StopStep(c) \/ ChangeStep(c)
      PROVE  SettlesOnOk(b)
  BY <1>4 DEF StopStep, Unmark, Unload, Unloaded, StopFree, StopHeld,
     ReadPid, RequestStop, Drained, DrainTimeout, Unpid, Relogin, Sweep,
     Goto, Step, Die, Term, Asker, Live, AfterUnload, RemoveStalePid,
     AfterStop, AfterStopError, Strict, GiveUp, Waits, RemovePidIfEquals,
     locks, super, dmnVars, marks, ChangeStep, Delete, Note, Write,
     Activate, Revert, Present, RemoveUnit, AfterDelete
<1>5. ASSUME NEW c \in Cmd, Return(c) \/ CmdFails(c)
      PROVE  SettlesOnOk(b)
  BY <1>5 DEF Return, Goto, Forgotten, marks, super, dmnVars, CmdFails,
     StartFails, ForkFails, UnloadFails, SweepFails, DeleteFails,
     ActivateFails, Crash, AfterUnload, AfterDelete, GiveUp, Waits, locks
<1>6. ASSUME NEW d \in Daemon, BootLock(d) \/ BootStep(d) \/ CycleStep(d) \/ EndStep(d)
      PROVE  SettlesOnOk(b)
  BY <1>6 DEF BootLock, Step, marks, super, cmdVars, BootStep, GateEnter,
     GateDecline, Publish, ClearStop, Announce, Arm, RemoveStalePid, Die,
     locks, CycleStep, Load, Sample, Save, Push, Flagged, EndStep,
     RecordFailure, Unwind, Unwound
<1>7. ASSUME NEW d \in Daemon, SignalStep(d) \/ DaemonFails(d) \/ SupervisorStarts(d) \/
                SupervisorKills(d) \/ Foreground(d)
      PROVE  SettlesOnOk(b)
  BY <1>7 DEF SignalStep, Notice, RecordStop, Shutdown, SigUnpid, Exit,
     SigStep, RemovePidIfEquals, Step, Die, locks, marks, super, cmdVars,
     DaemonFails, PublishFails, ArmFails, SaveFails, Panic, ShutdownFails,
     Kill, OutsideTerm, Live, Term, SupervisorStarts, FreePid, Zombie,
     SupervisorKills, Foreground
<1>8. ASSUME BadgeExpires \/ Reboot
      PROVE  SettlesOnOk(b)
  BY <1>8 DEF BadgeExpires, locks, marks, super, cmdVars, dmnVars, Reboot
<1>9. CASE UNCHANGED vars
  BY <1>9 DEF vars, locks, marks, super, cmdVars, dmnVars
<1> QED
  BY <1>1, <1>2, <1>3, <1>4, <1>5, <1>6, <1>7, <1>8, <1>9 DEF Next,
     CmdStep

\* A free namespace comes to be owned by one of these steps.
LEMMA OwnedStep ==
    ASSUME TypeOK,
           owner \cap Daemon = {},
           owner' \cap Daemon # {},
           [Next]_vars
    PROVE  ComesToOwn
<1> USE ProcessAssumption DEF TypeOK, ComesToOwn
<1>1. ASSUME NEW c \in Cmd, NEW v \in Verbs, Invoke(c, v)
      PROVE  ComesToOwn
  BY <1>1 DEF Invoke, Goto, locks, marks, super, dmnVars
<1>2. ASSUME NEW c \in Cmd, Acquire(c) \/ Reacquire(c) \/ EnableStep(c)
      PROVE  ComesToOwn
  BY <1>2 DEF Acquire, Goto, FirstStep, marks, super, dmnVars, Reacquire,
     EnableStep, Mark, ProbeHeld, ProbeFree, Recheck, Launch, Start,
     Started, StartTimeout, RemoveStalePid, Live, Running, locks
<1>3. ASSUME NEW c \in Cmd, SpawnStep(c)
      PROVE  ComesToOwn
  BY <1>3 DEF SpawnStep, Take, Fork, ChildReady, ChildNotReady, Reap,
     Goto, RemoveStalePid, Step, Live, FreePid, Zombie, Die,
     RemovePidIfEquals, super, dmnVars, marks, locks
<1>4. ASSUME NEW c \in Cmd, StopStep(c) \/ ChangeStep(c)
      PROVE  ComesToOwn
  BY <1>4 DEF StopStep, Unmark, Unload, Unloaded, StopFree, StopHeld,
     ReadPid, RequestStop, Drained, DrainTimeout, Unpid, Relogin, Sweep,
     Goto, Step, Die, Term, Asker, Live, AfterUnload, RemoveStalePid,
     AfterStop, AfterStopError, Strict, GiveUp, Waits, RemovePidIfEquals,
     locks, super, dmnVars, marks, ChangeStep, Delete, Note, Write,
     Activate, Revert, Present, RemoveUnit, AfterDelete
<1>5. ASSUME NEW c \in Cmd, Return(c) \/ CmdFails(c)
      PROVE  ComesToOwn
  BY <1>5 DEF Return, Goto, Forgotten, marks, super, dmnVars, CmdFails,
     StartFails, ForkFails, UnloadFails, SweepFails, DeleteFails,
     ActivateFails, Crash, AfterUnload, AfterDelete, GiveUp, Waits, locks
<1>6. ASSUME NEW d \in Daemon, BootLock(d) \/ BootStep(d) \/ CycleStep(d) \/ EndStep(d)
      PROVE  ComesToOwn
  BY <1>6 DEF BootLock, Step, marks, super, cmdVars, BootStep, GateEnter,
     GateDecline, Publish, ClearStop, Announce, Arm, RemoveStalePid, Die,
     locks, CycleStep, Load, Sample, Save, Push, Flagged, EndStep,
     RecordFailure, Unwind, Unwound
<1>7. ASSUME NEW d \in Daemon, SignalStep(d) \/ DaemonFails(d) \/ SupervisorStarts(d) \/
                SupervisorKills(d) \/ Foreground(d)
      PROVE  ComesToOwn
  BY <1>7 DEF SignalStep, Notice, RecordStop, Shutdown, SigUnpid, Exit,
     SigStep, RemovePidIfEquals, Step, Die, locks, marks, super, cmdVars,
     DaemonFails, PublishFails, ArmFails, SaveFails, Panic, ShutdownFails,
     Kill, OutsideTerm, Live, Term, SupervisorStarts, FreePid, Zombie,
     SupervisorKills, Foreground
<1>8. ASSUME BadgeExpires \/ Reboot
      PROVE  ComesToOwn
  BY <1>8 DEF BadgeExpires, locks, marks, super, cmdVars, dmnVars, Reboot
<1>9. CASE UNCHANGED vars
  BY <1>9 DEF vars, locks, marks, super, cmdVars, dmnVars
<1> QED
  BY <1>1, <1>2, <1>3, <1>4, <1>5, <1>6, <1>7, <1>8, <1>9 DEF Next,
     CmdStep

\* A stop is written down by RecordStop and by nothing else.
LEMMA RecordStep ==
    ASSUME TypeOK,
           NEW a \in Daemon,
           sig[a] = "stopping",
           sig'[a] = "recorded",
           [Next]_vars
    PROVE  RecordStop(a)
<1> USE DEF TypeOK, Sig
<1>1. ASSUME NEW c \in Cmd, NEW v \in Verbs, Invoke(c, v)
      PROVE  RecordStop(a)
  BY <1>1 DEF Invoke, Goto, locks, marks, super, dmnVars
<1>2. ASSUME NEW c \in Cmd, Acquire(c) \/ Reacquire(c) \/ EnableStep(c)
      PROVE  RecordStop(a)
  BY <1>2 DEF Acquire, Goto, FirstStep, marks, super, dmnVars, Reacquire,
     EnableStep, Mark, ProbeHeld, ProbeFree, Recheck, Launch, Start,
     Started, StartTimeout, RemoveStalePid, Live, Running, locks
<1>3. ASSUME NEW c \in Cmd, SpawnStep(c)
      PROVE  RecordStop(a)
  BY <1>3 DEF SpawnStep, Take, Fork, ChildReady, ChildNotReady, Reap,
     Goto, RemoveStalePid, Step, Live, FreePid, Zombie, Die,
     RemovePidIfEquals, super, dmnVars, marks, locks
<1>4. ASSUME NEW c \in Cmd, StopStep(c) \/ ChangeStep(c)
      PROVE  RecordStop(a)
  BY <1>4 DEF StopStep, Unmark, Unload, Unloaded, StopFree, StopHeld,
     ReadPid, RequestStop, Drained, DrainTimeout, Unpid, Relogin, Sweep,
     Goto, Step, Die, Term, Asker, Live, AfterUnload, RemoveStalePid,
     AfterStop, AfterStopError, Strict, GiveUp, Waits, RemovePidIfEquals,
     locks, super, dmnVars, marks, ChangeStep, Delete, Note, Write,
     Activate, Revert, Present, RemoveUnit, AfterDelete
<1>5. ASSUME NEW c \in Cmd, Return(c) \/ CmdFails(c)
      PROVE  RecordStop(a)
  BY <1>5 DEF Return, Goto, Forgotten, marks, super, dmnVars, CmdFails,
     StartFails, ForkFails, UnloadFails, SweepFails, DeleteFails,
     ActivateFails, Crash, AfterUnload, AfterDelete, GiveUp, Waits, locks
<1>6. ASSUME NEW d \in Daemon, BootLock(d) \/ BootStep(d) \/ CycleStep(d) \/ EndStep(d)
      PROVE  RecordStop(a)
  BY <1>6 DEF BootLock, Step, marks, super, cmdVars, BootStep, GateEnter,
     GateDecline, Publish, ClearStop, Announce, Arm, RemoveStalePid, Die,
     locks, CycleStep, Load, Sample, Save, Push, Flagged, EndStep,
     RecordFailure, Unwind, Unwound
<1>7. ASSUME NEW d \in Daemon, SignalStep(d) \/ DaemonFails(d) \/ SupervisorStarts(d) \/
                SupervisorKills(d) \/ Foreground(d)
      PROVE  RecordStop(a)
  BY <1>7 DEF SignalStep, Notice, RecordStop, Shutdown, SigUnpid, Exit,
     SigStep, RemovePidIfEquals, Step, Die, locks, marks, super, cmdVars,
     DaemonFails, PublishFails, ArmFails, SaveFails, Panic, ShutdownFails,
     Kill, OutsideTerm, Live, Term, SupervisorStarts, FreePid, Zombie,
     SupervisorKills, Foreground
<1>8. ASSUME BadgeExpires \/ Reboot
      PROVE  RecordStop(a)
  BY <1>8 DEF BadgeExpires, locks, marks, super, cmdVars, dmnVars, Reboot
<1>9. CASE UNCHANGED vars
  BY <1>9 DEF vars, locks, marks, super, cmdVars, dmnVars
<1> QED
  BY <1>1, <1>2, <1>3, <1>4, <1>5, <1>6, <1>7, <1>8, <1>9 DEF Next,
     CmdStep

-----------------------------------------------------------------------------
(* The promises.                                                           *)

\* A verb that decided to stop the sampler holds the owner's pid: with
\* CONTROL held nobody can come to own the namespace after it was read.
THEOREM StopHitsOwner == Spec => []StopTargetsOwner
<1>1. Kept => StopTargetsOwner
  BY DEF Kept, Named, Targets, StopTargetsOwner
<1> QED
  BY <1>1, Keeping, PTL

\* A child that reported readiness has published its pid and owns the lock.
THEOREM ReadyIsPublished == Spec => []ReadyMeansPublished
<1>1. Kept => ReadyMeansPublished
  BY DEF Kept, IInv, Safe, OwnerInv, Named, Targets, Published,
         ReadyMeansPublished
<1> QED
  BY <1>1, Keeping, PTL

\* Ok of --disable or --toggle: nothing on screen, nobody left to draw it.
THEOREM DisableSettles == Spec => []DisableIsLastWord
<1>1. Kept => DisableIsLastWord
  BY DEF Kept, Word, DisableIsLastWord
<1> QED
  BY <1>1, Keeping, PTL
-----------------------------------------------------------------------------
(* The promises about steps.                                               *)

\* The first sampler to own a namespace finds it enabled, or is the one
\* --forget puts back.
THEOREM OwnedWhenWanted == Spec => OwnedOnlyWhenWanted
<1>1. Kept /\ [Next]_vars
      => (owner \cap Daemon = {} /\ owner' \cap Daemon # {}
          => enabled' \/ \E c \in Cmd : verb[c] = "forget" /\ pc[c] = "fork")
  <2> SUFFICES ASSUME Kept, [Next]_vars,
                      owner \cap Daemon = {}, owner' \cap Daemon # {}
               PROVE  enabled' \/ \E c \in Cmd : verb[c] = "forget" /\ pc[c] = "fork"
    OBVIOUS
  <2>1. ComesToOwn
    BY OwnedStep DEF Kept, IInv
  <2>2. ASSUME NEW d \in Daemon, GateEnter(d)
        PROVE  enabled'
    BY <2>2 DEF GateEnter
  <2>3. ASSUME NEW c \in Cmd, NEW d \in Daemon, Fork(c, d)
        PROVE  enabled' \/ (verb[c] = "forget" /\ pc[c] = "fork")
    BY <2>3 DEF Fork, marks, Kept, Route
  <2> QED
    BY <2>1, <2>2, <2>3, Zenon DEF ComesToOwn
<1> QED
  BY <1>1, Keeping, PTL DEF Spec, OwnedOnlyWhenWanted

\* --enable does not mistake a sampler on its way out for the running one: a
\* user's stop that is still waited for has its asker in CONTROL.
THEOREM EnableStopsShort == Spec => EnableNeverPassesDisable
<1> DEFINE Passes == \A c \in Cmd :
              pc[c] = "probe" /\ verb[c] = "enable" /\ pc'[c] = "ok"
              => \A d \in owner \cap Daemon : by[d] # "user"
<1>1. Kept /\ [Next]_vars => Passes
  <2> SUFFICES ASSUME Kept, NEW c \in Cmd, pc[c] = "probe", verb[c] = "enable",
                      NEW d \in owner \cap Daemon, by[d] = "user"
               PROVE  FALSE
    OBVIOUS
  <2>1. PICK b \in Cmd : Waits(b, d) /\ UserVerb(b)
    BY DEF Kept, Word
  <2>2. control = b /\ control = c
    BY <2>1 DEF Waits, Kept, IInv, Safe, LockInv, HeldPc, QuietPc
  <2> QED
    BY <2>1, <2>2 DEF UserVerb, Asker
<1> QED
  BY <1>1, Keeping, PTL DEF Spec, EnableNeverPassesDisable

\* A user's stop is recorded as the user's, unless a panic let go of OWNER
\* with the signal thread still to run.  Only a build that unwinds does that;
\* the release profile aborts (Cargo.toml), which Panic over-approximates.
THEOREM UserStopIsTheUsers ==
    ASSUME "panic" \notin Env
    PROVE  Spec => UserStopIsNotTerminated
<1> DEFINE Told == \A d \in Daemon :
              by[d] = "user" /\ sig[d] = "stopping" /\ sig'[d] = "recorded"
              => stop' = "disabled"
<1>1. Kept /\ Whole /\ [Next]_vars => Told
  <2> SUFFICES ASSUME Kept, Whole, [Next]_vars, NEW d \in Daemon,
                      by[d] = "user", sig[d] = "stopping", sig'[d] = "recorded"
               PROVE  stop' = "disabled"
    OBVIOUS
  <2>1. RecordStop(d)
    BY RecordStep DEF Kept, IInv
  <2>2. d \in owner
    BY DEF Kept, IInv, Safe, OwnerInv, Named, Posted, Whole, Armed, OwnerSt
  <2>3. PICK c \in Cmd : Waits(c, d) /\ UserVerb(c)
    BY <2>2 DEF Kept, Word
  <2>4. ~enabled
    BY <2>3 DEF Waits, Kept, Route, StopPath
  <2> QED
    BY <2>1, <2>4 DEF RecordStop
<1>2. Init => Whole
  BY DEF Init, Whole
<1>3. TypeOK /\ Whole /\ [Next]_vars => Whole'
  BY WholeStep
<1> QED
  BY <1>1, <1>2, <1>3, Keeping, TypeCorrect, PTL DEF Spec, UserStopIsNotTerminated

\* No sampler starts under an older stop marker, unless a failure or an
\* unwinding panic writes one after OWNER changed hands.
THEOREM EpitaphIsItsOwn ==
    ASSUME "panic" \notin Env, "io" \notin Env
    PROVE  Spec => []NoInheritedEpitaph
<1>1. Init => Fresh
  BY DEF Init, Fresh, Whole, RunSt
<1>2. IInv /\ Named /\ Fresh /\ [Next]_vars => Fresh'
  BY FreshStep
<1>3. Fresh => NoInheritedEpitaph
  BY DEF Fresh, NoInheritedEpitaph, Writer
<1>4. Kept => IInv /\ Named
  BY DEF Kept
<1> QED
  BY <1>1, <1>2, <1>3, <1>4, Keeping, PTL DEF Spec

\* Ok of --enable, settled under CONTROL: a sampler owns the namespace and is
\* published, as long as no process ends at any step it pleases.
THEOREM EnableMeansRunning ==
    ASSUME Env \cap Sudden = {}
    PROVE  Spec => EnableDelivers
<1> DEFINE Runs(c) == \E d \in owner' \cap Daemon : sig'[d] = "none" => pidFile' = d
           Delivers == \A c \in Cmd :
              /\ verb[c] \in {"enable", "toggle"} /\ control = c
              /\ pc[c] # "ok" /\ pc'[c] = "ok" /\ enabled'
              => Runs(c)
<1>1. Kept /\ Whole /\ Watched /\ [Next]_vars => Delivers
  <2> SUFFICES ASSUME Kept, Whole, Watched, [Next]_vars, NEW c \in Cmd,
                      verb[c] \in {"enable", "toggle"}, control = c,
                      pc[c] # "ok", pc'[c] = "ok", enabled'
               PROVE  Runs(c)
    OBVIOUS
  <2>1. SettlesOnOk(c)
    BY OkStep DEF Kept, IInv
  <2>2. CASE ProbeHeld(c)
    <3>1. PICK d \in owner \cap Daemon : TRUE
      BY <2>2 DEF ProbeHeld, Kept, IInv, Safe, TypeOK, LockInv, OwnerInv,
                  SpawnPc, HeldPc
    <3>2. st[d] \notin {"publish", "clear", "announce"}
      BY <2>2, ProcessAssumption DEF ProbeHeld, Watched, Kept, IInv, Safe,
         LockInv, HeldPc, SpawnPc
    <3>3. sig[d] = "none" => pidFile = d
      BY <3>2 DEF Kept, Named, Published, IInv, Safe, OwnerInv
    <3> QED
      BY <2>2, <3>1, <3>3 DEF ProbeHeld, locks, marks, dmnVars
  <2>3. CASE ChildReady(c)
    <3>1. /\ tgt[c] \in owner \cap Daemon
          /\ st[tgt[c]] \in OwnerSt \ {"publish"}
          /\ sig[tgt[c]] = "none"
      BY <2>3 DEF ChildReady, Kept, Named, Targets, Watched, IInv, Safe, OwnerInv
    <3>2. pidFile = tgt[c]
      BY <3>1 DEF Kept, Named, Published
    <3> QED
      BY <2>3, <3>1, <3>2, ProcessAssumption DEF ChildReady, marks, dmnVars
  <2>4. CASE Started(c)
    BY <2>4 DEF Started, Kept, Route, FreePc
  <2>5. CASE Take(c)
    BY <2>5 DEF Take, Goto, Kept, IInv, TypeOK, Safe, OwnerInv, QuietPc
  <2>6. CASE Sweep(c)
    BY <2>6 DEF Sweep, Kept, Route, Path, SpawnPath, Ends, UserVerb, Asker,
                marks, IInv, TypeOK, Goto
  <2>7. CASE \/ Recheck(c) \/ Delete(c) \/ DeleteFails(c)
             \/ Present(c) \/ RemoveUnit(c)
    BY <2>7 DEF Recheck, Delete, DeleteFails, Present, RemoveUnit, Kept,
       Route, Path, Sweeping, StopPath, SpawnPath, Ends
  <2> QED
    BY <2>1, <2>2, <2>3, <2>4, <2>5, <2>6, <2>7 DEF SettlesOnOk
<1>2. Init => Whole /\ Watched
  BY ProcessAssumption DEF Init, Whole, Watched
<1>3. TypeOK /\ Whole /\ [Next]_vars => Whole'
  BY WholeStep DEF Sudden
<1>4. Kept /\ Whole /\ Watched /\ [Next]_vars => Watched'
  BY WatchedStep
<1> QED
  BY <1>1, <1>2, <1>3, <1>4, Keeping, TypeCorrect, PTL DEF Spec, EnableDelivers

=============================================================================
