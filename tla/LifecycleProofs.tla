--------------------------- MODULE LifecycleProofs ---------------------------
(***************************************************************************)
(* What holds of Lifecycle for any number of CLI processes and pids, any   *)
(* set of verbs and any faults: type correctness, and the two promises the *)
(* retained OWNER flock is there for.                                      *)
(*                                                                         *)
(* A sampler is one writer because whoever runs past the gate is in owner, *)
(* and owner changes hands only when it was seen empty: OwnerInv says so   *)
(* location by location.  That a CLI process saw OWNER free some steps ago *)
(* is still true when it acts on it, because only a CONTROL holder adds to *)
(* owner: LockInv.                                                         *)
(***************************************************************************)
EXTENDS Lifecycle, TLAPS

-----------------------------------------------------------------------------
(* Type correctness.                                                       *)

\* The part of TypeOK a signal can touch.
ProcType ==
    /\ control \in Cmd \cup Daemon \cup {Nil}
    /\ owner \subseteq Cmd \cup Daemon
    /\ sup \in Daemon \cup {Nil}
    /\ st \in [Daemon -> St] /\ sig \in [Daemon -> Sig]
    /\ by \in [Daemon -> {"none", "user", "left", "restart", "outside"}]
    /\ mem \in [Daemon -> Data]

\* Sending SIGTERM to any pid, or to the absent one, keeps the types.
LEMMA TermType ==
    ASSUME TypeOK, NEW d \in Daemon \cup {Nil},
           NEW who \in {"user", "restart", "outside"}, Term(d, who)
    PROVE  ProcType'
<1> USE DEF ProcType, TypeOK, Term, Die, Step, Live, locks, dmnVars, St, Sig, Data
<1>1. CASE st[d] \in Armed
  BY <1>1, SMT DEF Armed, RunSt
<1>2. CASE st[d] \notin Armed /\ Live(d)
  BY <1>2, SMT
<1>3. CASE ~Live(d)
  BY <1>3, SMT DEF Armed, RunSt
<1> QED
  BY <1>1, <1>2, <1>3

\* The initial state has the types.
LEMMA TypeInit == Init => TypeOK
<1> SUFFICES ASSUME Init
             PROVE  TypeOK
  OBVIOUS
<1> USE DEF Init
<1>1. /\ enabled \in BOOLEAN /\ off \in BOOLEAN /\ lit \in BOOLEAN
      /\ unit \in BOOLEAN /\ registered \in BOOLEAN /\ active \in BOOLEAN
  BY Zenon
<1>2. /\ control \in Cmd \cup Daemon \cup {Nil}
      /\ owner \subseteq Cmd \cup Daemon
      /\ pidFile \in Daemon \cup {Nil} /\ sup \in Daemon \cup {Nil}
      /\ stop \in Reasons /\ file \in Data
  BY DEF Reasons, Data
<1>3. /\ pc \in [Cmd -> Pc] /\ verb \in [Cmd -> VerbState]
      /\ tgt \in [Cmd -> Daemon \cup {Nil}]
      /\ was \in [Cmd -> BOOLEAN] /\ ready \in [Cmd -> BOOLEAN]
  BY DEF Pc, FreePc, VerbState
<1>4. /\ st \in [Daemon -> St] /\ sig \in [Daemon -> Sig]
      /\ by \in [Daemon -> {"none", "user", "left", "restart", "outside"}]
      /\ mem \in [Daemon -> Data]
  BY DEF St, Sig, Data
<1> QED
  BY <1>1, <1>2, <1>3, <1>4, Zenon DEF TypeOK

\* Every step keeps the types.
LEMMA TypeStep == TypeOK /\ [Next]_vars => TypeOK'
<1> SUFFICES ASSUME TypeOK, [Next]_vars
             PROVE  TypeOK'
  OBVIOUS
<1> USE InstanceAssumption, ProcessAssumption
     DEF TypeOK, Pc, FreePc, SpawnPc, QuietPc, HeldPc, St, OwnerSt, StartSt,
         RunSt, Armed, Sig, Data, Reasons, VerbState, AllVerbs
<1>1. ASSUME NEW c \in Cmd, NEW v \in Verbs, Invoke(c, v)
      PROVE  TypeOK'
  BY <1>1 DEF Invoke, Goto, locks, marks, super, dmnVars
<1>2. ASSUME NEW c \in Cmd, NEW d \in Daemon, Fork(c, d)
      PROVE  TypeOK'
  BY <1>2 DEF Fork, Goto, Step, Live, FreePid, Zombie, marks, super
<1>3. ASSUME NEW c \in Cmd, Acquire(c)
      PROVE  TypeOK'
  BY <1>3 DEF Acquire, Goto, FirstStep, marks, super, dmnVars
<1>4. ASSUME NEW c \in Cmd, Reacquire(c)
      PROVE  TypeOK'
  BY <1>4 DEF Reacquire, Goto, FirstStep, marks, super, dmnVars
<1>5. ASSUME NEW c \in Cmd, Return(c)
      PROVE  TypeOK'
  BY <1>5 DEF Return, Goto, Forgotten, marks, super, dmnVars
<1>6. ASSUME NEW c \in Cmd, Crash(c)
      PROVE  TypeOK'
  BY <1>6 DEF Crash, Goto, Forgotten, GiveUp, marks, super
<1>7. ASSUME NEW c \in Cmd, Mark(c)
      PROVE  TypeOK'
  <2>1. pc' \in [Cmd -> Pc]
    BY <1>7, SMT DEF Mark, Goto
  <2>2. enabled' \in BOOLEAN /\ off' \in BOOLEAN
    BY <1>7 DEF Mark
  <2> HIDE DEF Pc, VerbState, St, Sig, Reasons, Data
  <2> QED
    BY <1>7, <2>1, <2>2, Zenon DEF Mark, locks, super, dmnVars
<1>8. ASSUME NEW c \in Cmd, ProbeHeld(c)
      PROVE  TypeOK'
  BY <1>8 DEF ProbeHeld, Goto, locks, marks, super, dmnVars
<1>9. ASSUME NEW c \in Cmd, ProbeFree(c)
      PROVE  TypeOK'
  BY <1>9 DEF ProbeFree, Goto, locks, marks, super, dmnVars
<1>10. ASSUME NEW c \in Cmd, Recheck(c)
      PROVE  TypeOK'
  BY <1>10 DEF Recheck, Goto, locks, marks, super, dmnVars
<1>11. ASSUME NEW c \in Cmd, Launch(c)
      PROVE  TypeOK'
  BY <1>11 DEF Launch, Goto, RemoveStalePid, locks, super, dmnVars
<1>12. ASSUME NEW c \in Cmd, Start(c)
      PROVE  TypeOK'
  BY <1>12 DEF Start, Goto, marks, dmnVars
<1>13. ASSUME NEW c \in Cmd, StartFails(c)
      PROVE  TypeOK'
  <2>1. pc' \in [Cmd -> Pc]
    BY <1>13, SMT DEF StartFails, Goto
  <2>2. registered' \in BOOLEAN
    BY <1>13, Zenon DEF StartFails, Goto
  <2> HIDE DEF Pc, VerbState, St, Sig, Reasons, Data
  <2> QED
    BY <1>13, <2>1, <2>2, Zenon DEF StartFails, locks, marks, dmnVars
<1>14. ASSUME NEW c \in Cmd, Started(c)
      PROVE  TypeOK'
  BY <1>14 DEF Started, Goto, Live, Running, locks, marks, super, dmnVars
<1>15. ASSUME NEW c \in Cmd, StartTimeout(c)
      PROVE  TypeOK'
  BY <1>15 DEF StartTimeout, Goto, Live, Running, locks, marks, super,
     dmnVars
<1>16. ASSUME NEW c \in Cmd, Take(c)
      PROVE  TypeOK'
  BY <1>16 DEF Take, Goto, RemoveStalePid, super, dmnVars
<1>17. ASSUME NEW c \in Cmd, ForkFails(c)
      PROVE  TypeOK'
  BY <1>17 DEF ForkFails, Goto, marks, super, dmnVars
<1>18. ASSUME NEW c \in Cmd, ChildReady(c)
      PROVE  TypeOK'
  BY <1>18 DEF ChildReady, Goto, marks, super, dmnVars
<1>19. ASSUME NEW c \in Cmd, ChildNotReady(c)
      PROVE  TypeOK'
  BY <1>19 DEF ChildNotReady, Goto, Step, Die, Live, locks, marks, super,
     dmnVars
<1>20. ASSUME NEW c \in Cmd, Reap(c)
      PROVE  TypeOK'
  BY <1>20 DEF Reap, Goto, RemovePidIfEquals, super, dmnVars
<1>21. ASSUME NEW c \in Cmd, Unmark(c)
      PROVE  TypeOK'
  <2>1. pc' \in [Cmd -> Pc]
    BY <1>21, SMT DEF Unmark, Goto
  <2>2. enabled' \in BOOLEAN
    BY <1>21, Zenon DEF Unmark, Goto
  <2> HIDE DEF Pc, VerbState, St, Sig, Reasons, Data
  <2> QED
    BY <1>21, <2>1, <2>2, Zenon DEF Unmark, locks, super, dmnVars
<1>22. ASSUME NEW c \in Cmd, Unload(c)
      PROVE  TypeOK'
  <2>1. pc' \in [Cmd -> Pc]
    BY <1>22, SMT DEF Unload, Goto
  <2>2. registered' \in BOOLEAN /\ active' \in BOOLEAN
    BY <1>22, Zenon DEF Unload
  <2>3. ProcType'
    <3>1. CASE sup = Nil /\ UNCHANGED <<dmnVars, locks>>
      BY <3>1 DEF ProcType, dmnVars, locks
    <3>2. CASE sup # Nil /\ Term(sup, Asker(verb[c]))
      <4>1. Asker(verb[c]) \in {"user", "restart", "outside"}
        BY DEF Asker
      <4> QED
        BY <3>2, <4>1, TermType
    <3> QED
      BY <1>22, <3>1, <3>2 DEF Unload
  <2> HIDE DEF Pc, VerbState, St, Sig, Reasons, Data
  <2> QED
    BY <1>22, <2>1, <2>2, <2>3, Zenon DEF Unload, ProcType, marks
<1>23. ASSUME NEW c \in Cmd, Unloaded(c)
      PROVE  TypeOK'
  BY <1>23 DEF Unloaded, Goto, AfterUnload, locks, marks, super, dmnVars
<1>24. ASSUME NEW c \in Cmd, UnloadFails(c)
      PROVE  TypeOK'
  <2>1. pc' \in [Cmd -> Pc]
    BY <1>24, SMT DEF UnloadFails, Goto, AfterUnload
  <2>2. registered' \in BOOLEAN
    BY <1>24, Zenon DEF UnloadFails, Goto, AfterUnload
  <2> HIDE DEF Pc, VerbState, St, Sig, Reasons, Data
  <2> QED
    BY <1>24, <2>1, <2>2, Zenon DEF UnloadFails, locks, marks, dmnVars
<1>25. ASSUME NEW c \in Cmd, StopFree(c)
      PROVE  TypeOK'
  BY <1>25 DEF StopFree, Goto, RemoveStalePid, AfterStop, locks, super,
     dmnVars
<1>26. ASSUME NEW c \in Cmd, StopHeld(c)
      PROVE  TypeOK'
  BY <1>26 DEF StopHeld, Goto, locks, marks, super, dmnVars
<1>27. ASSUME NEW c \in Cmd, ReadPid(c)
      PROVE  TypeOK'
  BY <1>27 DEF ReadPid, Goto, AfterStopError, locks, marks, super, dmnVars
<1>28. ASSUME NEW c \in Cmd, RequestStop(c)
      PROVE  TypeOK'
  <2>1. pc' \in [Cmd -> Pc]
    BY <1>28, SMT DEF RequestStop, Goto
  <2>2. /\ Term(tgt[c], Asker(verb[c]))
        /\ tgt[c] \in Daemon \cup {Nil}
        /\ Asker(verb[c]) \in {"user", "restart", "outside"}
    BY <1>28 DEF RequestStop, Asker
  <2>3. ProcType'
    BY <2>2, TermType
  <2> HIDE DEF Pc, VerbState, St, Sig, Reasons, Data
  <2> QED
    BY <1>28, <2>1, <2>3, Zenon DEF RequestStop, ProcType, marks, super
<1>29. ASSUME NEW c \in Cmd, Drained(c)
      PROVE  TypeOK'
  BY <1>29 DEF Drained, Goto, locks, marks, super, dmnVars
<1>30. ASSUME NEW c \in Cmd, DrainTimeout(c)
      PROVE  TypeOK'
  BY <1>30 DEF DrainTimeout, Goto, AfterStop, AfterStopError, Strict,
     GiveUp, locks, marks, super, dmnVars
<1>31. ASSUME NEW c \in Cmd, Unpid(c)
      PROVE  TypeOK'
  BY <1>31 DEF Unpid, Goto, RemovePidIfEquals, AfterStop, locks, super,
     dmnVars
<1>32. ASSUME NEW c \in Cmd, Relogin(c)
      PROVE  TypeOK'
  BY <1>32 DEF Relogin, Goto, locks, marks, dmnVars
<1>33. ASSUME NEW c \in Cmd, Sweep(c)
      PROVE  TypeOK'
  <2>1. pc' \in [Cmd -> Pc]
    BY <1>33, SMT DEF Sweep, Goto
  <2>2. lit' \in BOOLEAN
    BY <1>33, Zenon DEF Sweep, Goto
  <2> HIDE DEF Pc, VerbState, St, Sig, Reasons, Data
  <2> QED
    BY <1>33, <2>1, <2>2, Zenon DEF Sweep, locks, marks, super, dmnVars
<1>34. ASSUME NEW c \in Cmd, SweepFails(c)
      PROVE  TypeOK'
  BY <1>34 DEF SweepFails, Goto, locks, marks, super, dmnVars
<1>35. ASSUME NEW c \in Cmd, Delete(c)
      PROVE  TypeOK'
  BY <1>35 DEF Delete, Goto, AfterDelete, locks, marks, super
<1>36. ASSUME NEW c \in Cmd, DeleteFails(c)
      PROVE  TypeOK'
  BY <1>36 DEF DeleteFails, Goto, AfterDelete, locks, marks, super,
     dmnVars
<1>37. ASSUME NEW c \in Cmd, Note(c)
      PROVE  TypeOK'
  BY <1>37 DEF Note, Goto, locks, marks, super, dmnVars
<1>38. ASSUME NEW c \in Cmd, Write(c)
      PROVE  TypeOK'
  BY <1>38 DEF Write, Goto, locks, dmnVars
<1>39. ASSUME NEW c \in Cmd, Activate(c)
      PROVE  TypeOK'
  BY <1>39 DEF Activate, Goto, marks, dmnVars
<1>40. ASSUME NEW c \in Cmd, ActivateFails(c)
      PROVE  TypeOK'
  <2>1. pc' \in [Cmd -> Pc]
    BY <1>40, SMT DEF ActivateFails, Goto
  <2>2. /\ unit' \in BOOLEAN /\ registered' \in BOOLEAN
        /\ enabled' \in BOOLEAN
    BY <1>40 DEF ActivateFails
  <2> HIDE DEF Pc, VerbState, St, Sig, Reasons, Data
  <2> QED
    BY <1>40, <2>1, <2>2, Zenon DEF ActivateFails, locks, dmnVars
<1>41. ASSUME NEW c \in Cmd, Revert(c)
      PROVE  TypeOK'
  <2>1. pc' \in [Cmd -> Pc]
    BY <1>41, SMT DEF Revert, Goto
  <2>2. unit' \in BOOLEAN /\ enabled' \in BOOLEAN
    BY <1>41 DEF Revert
  <2> HIDE DEF Pc, VerbState, St, Sig, Reasons, Data
  <2> QED
    BY <1>41, <2>1, <2>2, Zenon DEF Revert, locks, dmnVars
<1>42. ASSUME NEW c \in Cmd, Present(c)
      PROVE  TypeOK'
  BY <1>42 DEF Present, Goto, locks, marks, super, dmnVars
<1>43. ASSUME NEW c \in Cmd, RemoveUnit(c)
      PROVE  TypeOK'
  <2>1. pc' \in [Cmd -> Pc]
    BY <1>43, SMT DEF RemoveUnit, Goto
  <2>2. unit' \in BOOLEAN
    BY <1>43, Zenon DEF RemoveUnit, Goto
  <2> HIDE DEF Pc, VerbState, St, Sig, Reasons, Data
  <2> QED
    BY <1>43, <2>1, <2>2, Zenon DEF RemoveUnit, locks, marks, dmnVars
<1>44. ASSUME NEW d \in Daemon, BootLock(d)
      PROVE  TypeOK'
  BY <1>44 DEF BootLock, Step, marks, super, cmdVars
<1>45. ASSUME NEW d \in Daemon, GateEnter(d)
      PROVE  TypeOK'
  BY <1>45 DEF GateEnter, Step, RemoveStalePid, super, cmdVars
<1>46. ASSUME NEW d \in Daemon, GateDecline(d)
      PROVE  TypeOK'
  BY <1>46 DEF GateDecline, Step, Die, marks, super, cmdVars
<1>47. ASSUME NEW d \in Daemon, Publish(d)
      PROVE  TypeOK'
  BY <1>47 DEF Publish, Step, locks, super, cmdVars
<1>48. ASSUME NEW d \in Daemon, PublishFails(d)
      PROVE  TypeOK'
  BY <1>48 DEF PublishFails, Step, Die, marks, super, cmdVars
<1>49. ASSUME NEW d \in Daemon, ClearStop(d)
      PROVE  TypeOK'
  BY <1>49 DEF ClearStop, Step, locks, super, cmdVars
<1>50. ASSUME NEW d \in Daemon, Announce(d)
      PROVE  TypeOK'
  BY <1>50 DEF Announce, Step, marks, super
<1>51. ASSUME NEW d \in Daemon, Arm(d)
      PROVE  TypeOK'
  BY <1>51 DEF Arm, Step, locks, marks, super, cmdVars
<1>52. ASSUME NEW d \in Daemon, ArmFails(d)
      PROVE  TypeOK'
  BY <1>52 DEF ArmFails, Step, marks, super, cmdVars
<1>53. ASSUME NEW d \in Daemon, RecordFailure(d)
      PROVE  TypeOK'
  BY <1>53 DEF RecordFailure, Step, Die, super, cmdVars
<1>54. ASSUME NEW d \in Daemon, Load(d)
      PROVE  TypeOK'
  BY <1>54 DEF Load, Step, locks, marks, super, cmdVars
<1>55. ASSUME NEW d \in Daemon, Sample(d)
      PROVE  TypeOK'
  BY <1>55 DEF Sample, Step, Flagged, locks, marks, super, cmdVars
<1>56. ASSUME NEW d \in Daemon, Save(d)
      PROVE  TypeOK'
  BY <1>56 DEF Save, Step, locks, marks, super, cmdVars
<1>57. ASSUME NEW d \in Daemon, SaveFails(d)
      PROVE  TypeOK'
  BY <1>57 DEF SaveFails, Step, locks, marks, super, cmdVars
<1>58. ASSUME NEW d \in Daemon, Push(d)
      PROVE  TypeOK'
  BY <1>58 DEF Push, Step, Flagged, locks, marks, super, cmdVars
<1>59. ASSUME NEW d \in Daemon, Panic(d)
      PROVE  TypeOK'
  BY <1>59 DEF Panic, Step, locks, super, cmdVars
<1>60. ASSUME NEW d \in Daemon, Unwind(d)
      PROVE  TypeOK'
  BY <1>60 DEF Unwind, Step, marks, super, cmdVars
<1>61. ASSUME NEW d \in Daemon, Unwound(d)
      PROVE  TypeOK'
  BY <1>61 DEF Unwound, Step, Die, marks, super, cmdVars
<1>62. ASSUME NEW d \in Daemon, Notice(d)
      PROVE  TypeOK'
  BY <1>62 DEF Notice, SigStep, locks, marks, super, cmdVars
<1>63. ASSUME NEW d \in Daemon, RecordStop(d)
      PROVE  TypeOK'
  BY <1>63 DEF RecordStop, SigStep, locks, super, cmdVars
<1>64. ASSUME NEW d \in Daemon, Shutdown(d)
      PROVE  TypeOK'
  <2>1. sig' \in [Daemon -> Sig]
    BY <1>64, SMT DEF Shutdown, SigStep
  <2>2. lit' \in BOOLEAN
    BY <1>64, Zenon DEF Shutdown, SigStep
  <2> HIDE DEF Pc, VerbState, St, Sig, Reasons, Data
  <2> QED
    BY <1>64, <2>1, <2>2, Zenon DEF Shutdown, locks, marks, super, cmdVars
<1>65. ASSUME NEW d \in Daemon, ShutdownFails(d)
      PROVE  TypeOK'
  BY <1>65 DEF ShutdownFails, SigStep, locks, marks, super, cmdVars
<1>66. ASSUME NEW d \in Daemon, SigUnpid(d)
      PROVE  TypeOK'
  BY <1>66 DEF SigUnpid, SigStep, RemovePidIfEquals, locks, super, cmdVars
<1>67. ASSUME NEW d \in Daemon, Exit(d)
      PROVE  TypeOK'
  BY <1>67 DEF Exit, Step, Die, marks, super, cmdVars
<1>68. ASSUME NEW d \in Daemon, SupervisorStarts(d)
      PROVE  TypeOK'
  BY <1>68 DEF SupervisorStarts, Step, Live, FreePid, Zombie, locks,
     marks, super, cmdVars
<1>69. ASSUME NEW d \in Daemon, SupervisorKills(d)
      PROVE  TypeOK'
  BY <1>69 DEF SupervisorKills, Step, Die, marks, super, cmdVars
<1>70. ASSUME NEW d \in Daemon, Foreground(d)
      PROVE  TypeOK'
  BY <1>70 DEF Foreground, Step, Live, FreePid, Zombie, locks, marks,
     super, cmdVars
<1>71. ASSUME NEW d \in Daemon, Kill(d)
      PROVE  TypeOK'
  BY <1>71 DEF Kill, Step, Die, Live, marks, super, cmdVars
<1>72. ASSUME NEW d \in Daemon, OutsideTerm(d)
      PROVE  TypeOK'
  <2>1. Term(d, "outside")
    BY <1>72 DEF OutsideTerm
  <2> HIDE DEF Pc, VerbState, St, Sig, Reasons, Data
  <2> QED
    BY <1>72, <2>1, TermType, Zenon DEF OutsideTerm, ProcType, marks, super, cmdVars
<1>73. ASSUME BadgeExpires
      PROVE  TypeOK'
  <2> HIDE DEF Pc, VerbState, St, Sig, Reasons, Data
  <2> QED
    BY <1>73, Zenon DEF BadgeExpires, locks, marks, super, cmdVars, dmnVars
<1>74. ASSUME Reboot
      PROVE  TypeOK'
  BY <1>74 DEF Reboot, marks
<1>75. CASE UNCHANGED vars
  BY <1>75 DEF vars, locks, marks, super, cmdVars, dmnVars
<1> QED
  BY <1>1, <1>2, <1>3, <1>4, <1>5, <1>6, <1>7, <1>8, <1>9, <1>10, <1>11,
     <1>12, <1>13, <1>14, <1>15, <1>16, <1>17, <1>18, <1>19, <1>20, <1>21,
     <1>22, <1>23, <1>24, <1>25, <1>26, <1>27, <1>28, <1>29, <1>30, <1>31,
     <1>32, <1>33, <1>34, <1>35, <1>36, <1>37, <1>38, <1>39, <1>40, <1>41,
     <1>42, <1>43, <1>44, <1>45, <1>46, <1>47, <1>48, <1>49, <1>50, <1>51,
     <1>52, <1>53, <1>54, <1>55, <1>56, <1>57, <1>58, <1>59, <1>60, <1>61,
     <1>62, <1>63, <1>64, <1>65, <1>66, <1>67, <1>68, <1>69, <1>70, <1>71,
     <1>72, <1>73, <1>74, <1>75 DEF Next, CmdStep, CmdFails, EnableStep,
     SpawnStep, StopStep, ChangeStep, BootStep, CycleStep, EndStep,
     SignalStep, DaemonFails

\* Every variable has its type in every reachable state.
THEOREM TypeCorrect == Spec => []TypeOK
<1>1. Init => TypeOK
  BY TypeInit
<1>2. TypeOK /\ [Next]_vars => TypeOK'
  BY TypeStep
<1> QED
  BY <1>1, <1>2, PTL DEF Spec

-----------------------------------------------------------------------------
(* The inductive invariant behind SingleWriter and NoResurrection.         *)

\* Whoever acts under CONTROL holds it.
LockInv ==
    /\ \A c \in Cmd : pc[c] \in HeldPc => control = c
    /\ \A d \in Daemon : st[d] = "gate" => control = d

\* Who holds a descriptor of OWNER, read off where everybody is; two of them
\* only while a CLI process waits for the child it forked; and nobody where a
\* CLI process saw OWNER free and still has CONTROL.
OwnerInv ==
    /\ \A d \in Daemon : d \in owner <=> st[d] \in OwnerSt
    /\ \A c \in Cmd : c \in owner <=> pc[c] \in SpawnPc
    /\ \A d, e \in owner \cap Daemon : d = e
    /\ \A c \in owner \cap Cmd, d \in owner \cap Daemon :
         pc[c] = "ready" /\ tgt[c] = d
    /\ \A c \in Cmd : pc[c] \in QuietPc => owner = {}

\* Only a sampler that loaded it holds history, and only one that can no
\* longer save holds history --forget deleted.
MemInv ==
    /\ file # "forgotten"
    /\ \A d \in Daemon : mem[d] # "absent" => st[d] \in Armed
    /\ \A d \in Daemon : mem[d] = "forgotten" => st[d] = "unwound"

Safe == LockInv /\ OwnerInv /\ MemInv

IInv == TypeOK /\ Safe

\* Every step keeps the invariant.
LEMMA SafeStep == IInv /\ [Next]_vars => Safe'
<1> SUFFICES ASSUME IInv, [Next]_vars
             PROVE  Safe'
  OBVIOUS
<1> USE InstanceAssumption, ProcessAssumption
     DEF IInv, Safe, LockInv, OwnerInv, MemInv, TypeOK, Pc, FreePc, SpawnPc,
         QuietPc, HeldPc, St, OwnerSt, StartSt, RunSt, Armed
<1>1. ASSUME NEW c \in Cmd, NEW v \in Verbs, Invoke(c, v)
      PROVE  Safe'
  BY <1>1 DEF Invoke, Goto, locks, marks, super, dmnVars
<1>2. ASSUME NEW c \in Cmd, NEW d \in Daemon, Fork(c, d)
      PROVE  Safe'
  BY <1>2 DEF Fork, Goto, Step, Live, FreePid, Zombie, marks, super
<1>3. ASSUME NEW c \in Cmd, Acquire(c)
      PROVE  Safe'
  BY <1>3 DEF Acquire, Goto, FirstStep, marks, super, dmnVars
<1>4. ASSUME NEW c \in Cmd, Reacquire(c)
      PROVE  Safe'
  BY <1>4 DEF Reacquire, Goto, FirstStep, marks, super, dmnVars
<1>5. ASSUME NEW c \in Cmd, Return(c)
      PROVE  Safe'
  BY <1>5 DEF Return, Goto, Forgotten, marks, super, dmnVars
<1>6. ASSUME NEW c \in Cmd, Crash(c)
      PROVE  Safe'
  BY <1>6 DEF Crash, Goto, Forgotten, marks, super
<1>7. ASSUME NEW c \in Cmd, Mark(c)
      PROVE  Safe'
  BY <1>7 DEF Mark, Goto, locks, super, dmnVars
<1>8. ASSUME NEW c \in Cmd, ProbeHeld(c)
      PROVE  Safe'
  BY <1>8 DEF ProbeHeld, Goto, locks, marks, super, dmnVars
<1>9. ASSUME NEW c \in Cmd, ProbeFree(c)
      PROVE  Safe'
  BY <1>9 DEF ProbeFree, Goto, locks, marks, super, dmnVars
<1>10. ASSUME NEW c \in Cmd, Recheck(c)
      PROVE  Safe'
  BY <1>10 DEF Recheck, Goto, locks, marks, super, dmnVars
<1>11. ASSUME NEW c \in Cmd, Launch(c)
      PROVE  Safe'
  BY <1>11 DEF Launch, Goto, RemoveStalePid, locks, super, dmnVars
<1>12. ASSUME NEW c \in Cmd, Start(c)
      PROVE  Safe'
  BY <1>12 DEF Start, Goto, marks, dmnVars
<1>13. ASSUME NEW c \in Cmd, StartFails(c)
      PROVE  Safe'
  BY <1>13 DEF StartFails, Goto, locks, marks, dmnVars
<1>14. ASSUME NEW c \in Cmd, Started(c)
      PROVE  Safe'
  BY <1>14 DEF Started, Goto, Live, Running, locks, marks, super, dmnVars
<1>15. ASSUME NEW c \in Cmd, StartTimeout(c)
      PROVE  Safe'
  BY <1>15 DEF StartTimeout, Goto, Live, Running, locks, marks, super,
     dmnVars
<1>16. ASSUME NEW c \in Cmd, Take(c)
      PROVE  Safe'
  BY <1>16 DEF Take, Goto, RemoveStalePid, super, dmnVars
<1>17. ASSUME NEW c \in Cmd, ForkFails(c)
      PROVE  Safe'
  BY <1>17 DEF ForkFails, Goto, marks, super, dmnVars
<1>18. ASSUME NEW c \in Cmd, ChildReady(c)
      PROVE  Safe'
  BY <1>18 DEF ChildReady, Goto, marks, super, dmnVars
<1>19. ASSUME NEW c \in Cmd, ChildNotReady(c)
      PROVE  Safe'
  BY <1>19 DEF ChildNotReady, Goto, Step, Die, Live, locks, marks, super,
     dmnVars
<1>20. ASSUME NEW c \in Cmd, Reap(c)
      PROVE  Safe'
  BY <1>20 DEF Reap, Goto, RemovePidIfEquals, super, dmnVars
<1>21. ASSUME NEW c \in Cmd, Unmark(c)
      PROVE  Safe'
  BY <1>21 DEF Unmark, Goto, locks, super, dmnVars
<1>22. ASSUME NEW c \in Cmd, Unload(c)
      PROVE  Safe'
  BY <1>22 DEF Unload, Goto, Step, Die, Term, Asker, Live, locks, marks,
     dmnVars
<1>23. ASSUME NEW c \in Cmd, Unloaded(c)
      PROVE  Safe'
  BY <1>23 DEF Unloaded, Goto, AfterUnload, locks, marks, super, dmnVars
<1>24. ASSUME NEW c \in Cmd, UnloadFails(c)
      PROVE  Safe'
  BY <1>24 DEF UnloadFails, Goto, AfterUnload, locks, marks, dmnVars
<1>25. ASSUME NEW c \in Cmd, StopFree(c)
      PROVE  Safe'
  BY <1>25 DEF StopFree, Goto, RemoveStalePid, AfterStop, locks, super,
     dmnVars
<1>26. ASSUME NEW c \in Cmd, StopHeld(c)
      PROVE  Safe'
  BY <1>26 DEF StopHeld, Goto, locks, marks, super, dmnVars
<1>27. ASSUME NEW c \in Cmd, ReadPid(c)
      PROVE  Safe'
  BY <1>27 DEF ReadPid, Goto, AfterStopError, locks, marks, super, dmnVars
<1>28. ASSUME NEW c \in Cmd, RequestStop(c)
      PROVE  Safe'
  <2>1. Term(tgt[c], Asker(verb[c]))
    BY <1>28 DEF RequestStop
  <2>2. CASE /\ st[tgt[c]] \in Armed
             /\ sig' = [sig EXCEPT ![tgt[c]] = IF @ = "none" THEN "posted" ELSE @]
             /\ UNCHANGED <<st, mem, sup, locks>>
    BY <1>28, <2>2 DEF RequestStop, Goto, locks
  <2>3. CASE st[tgt[c]] \notin Armed /\ Die(tgt[c])
    BY <1>28, <2>3 DEF RequestStop, Die, Step, Goto, locks
  <2>4. CASE UNCHANGED <<dmnVars, locks>>
    BY <1>28, <2>4 DEF RequestStop, dmnVars, Goto, locks
  <2> QED
    BY <2>1, <2>2, <2>3, <2>4, Zenon DEF Term
<1>29. ASSUME NEW c \in Cmd, Drained(c)
      PROVE  Safe'
  BY <1>29 DEF Drained, Goto, locks, marks, super, dmnVars
<1>30. ASSUME NEW c \in Cmd, DrainTimeout(c)
      PROVE  Safe'
  BY <1>30 DEF DrainTimeout, Goto, AfterStop, AfterStopError, Strict,
     locks, marks, super, dmnVars
<1>31. ASSUME NEW c \in Cmd, Unpid(c)
      PROVE  Safe'
  BY <1>31 DEF Unpid, Goto, RemovePidIfEquals, AfterStop, locks, super,
     dmnVars
<1>32. ASSUME NEW c \in Cmd, Relogin(c)
      PROVE  Safe'
  BY <1>32 DEF Relogin, Goto, locks, marks, dmnVars
<1>33. ASSUME NEW c \in Cmd, Sweep(c)
      PROVE  Safe'
  BY <1>33 DEF Sweep, Goto, locks, marks, super, dmnVars
<1>34. ASSUME NEW c \in Cmd, SweepFails(c)
      PROVE  Safe'
  BY <1>34 DEF SweepFails, Goto, locks, marks, super, dmnVars
<1>35. ASSUME NEW c \in Cmd, Delete(c)
      PROVE  Safe'
  BY <1>35 DEF Delete, Goto, AfterDelete, locks, marks, super
<1>36. ASSUME NEW c \in Cmd, DeleteFails(c)
      PROVE  Safe'
  BY <1>36 DEF DeleteFails, Goto, AfterDelete, locks, marks, super,
     dmnVars
<1>37. ASSUME NEW c \in Cmd, Note(c)
      PROVE  Safe'
  BY <1>37 DEF Note, Goto, locks, marks, super, dmnVars
<1>38. ASSUME NEW c \in Cmd, Write(c)
      PROVE  Safe'
  BY <1>38 DEF Write, Goto, locks, dmnVars
<1>39. ASSUME NEW c \in Cmd, Activate(c)
      PROVE  Safe'
  BY <1>39 DEF Activate, Goto, marks, dmnVars
<1>40. ASSUME NEW c \in Cmd, ActivateFails(c)
      PROVE  Safe'
  BY <1>40 DEF ActivateFails, Goto, locks, dmnVars
<1>41. ASSUME NEW c \in Cmd, Revert(c)
      PROVE  Safe'
  BY <1>41 DEF Revert, Goto, locks, dmnVars
<1>42. ASSUME NEW c \in Cmd, Present(c)
      PROVE  Safe'
  BY <1>42 DEF Present, Goto, locks, marks, super, dmnVars
<1>43. ASSUME NEW c \in Cmd, RemoveUnit(c)
      PROVE  Safe'
  BY <1>43 DEF RemoveUnit, Goto, locks, marks, dmnVars
<1>44. ASSUME NEW d \in Daemon, BootLock(d)
      PROVE  Safe'
  BY <1>44 DEF BootLock, Step, marks, super, cmdVars
<1>45. ASSUME NEW d \in Daemon, GateEnter(d)
      PROVE  Safe'
  BY <1>45 DEF GateEnter, Step, RemoveStalePid, super, cmdVars
<1>46. ASSUME NEW d \in Daemon, GateDecline(d)
      PROVE  Safe'
  BY <1>46 DEF GateDecline, Step, Die, marks, super, cmdVars
<1>47. ASSUME NEW d \in Daemon, Publish(d)
      PROVE  Safe'
  BY <1>47 DEF Publish, Step, locks, super, cmdVars
<1>48. ASSUME NEW d \in Daemon, PublishFails(d)
      PROVE  Safe'
  BY <1>48 DEF PublishFails, Step, Die, marks, super, cmdVars
<1>49. ASSUME NEW d \in Daemon, ClearStop(d)
      PROVE  Safe'
  BY <1>49 DEF ClearStop, Step, locks, super, cmdVars
<1>50. ASSUME NEW d \in Daemon, Announce(d)
      PROVE  Safe'
  BY <1>50 DEF Announce, Step, marks, super
<1>51. ASSUME NEW d \in Daemon, Arm(d)
      PROVE  Safe'
  BY <1>51 DEF Arm, Step, locks, marks, super, cmdVars
<1>52. ASSUME NEW d \in Daemon, ArmFails(d)
      PROVE  Safe'
  BY <1>52 DEF ArmFails, Step, marks, super, cmdVars
<1>53. ASSUME NEW d \in Daemon, RecordFailure(d)
      PROVE  Safe'
  BY <1>53 DEF RecordFailure, Step, Die, super, cmdVars
<1>54. ASSUME NEW d \in Daemon, Load(d)
      PROVE  Safe'
  BY <1>54 DEF Load, Step, locks, marks, super, cmdVars
<1>55. ASSUME NEW d \in Daemon, Sample(d)
      PROVE  Safe'
  BY <1>55 DEF Sample, Step, Flagged, locks, marks, super, cmdVars
<1>56. ASSUME NEW d \in Daemon, Save(d)
      PROVE  Safe'
  BY <1>56 DEF Save, Step, locks, marks, super, cmdVars
<1>57. ASSUME NEW d \in Daemon, SaveFails(d)
      PROVE  Safe'
  BY <1>57 DEF SaveFails, Step, locks, marks, super, cmdVars
<1>58. ASSUME NEW d \in Daemon, Push(d)
      PROVE  Safe'
  BY <1>58 DEF Push, Step, Flagged, locks, marks, super, cmdVars
<1>59. ASSUME NEW d \in Daemon, Panic(d)
      PROVE  Safe'
  BY <1>59 DEF Panic, Step, locks, super, cmdVars
<1>60. ASSUME NEW d \in Daemon, Unwind(d)
      PROVE  Safe'
  BY <1>60 DEF Unwind, Step, marks, super, cmdVars
<1>61. ASSUME NEW d \in Daemon, Unwound(d)
      PROVE  Safe'
  BY <1>61 DEF Unwound, Step, Die, marks, super, cmdVars
<1>62. ASSUME NEW d \in Daemon, Notice(d)
      PROVE  Safe'
  BY <1>62 DEF Notice, SigStep, locks, marks, super, cmdVars
<1>63. ASSUME NEW d \in Daemon, RecordStop(d)
      PROVE  Safe'
  BY <1>63 DEF RecordStop, SigStep, locks, super, cmdVars
<1>64. ASSUME NEW d \in Daemon, Shutdown(d)
      PROVE  Safe'
  BY <1>64 DEF Shutdown, SigStep, locks, marks, super, cmdVars
<1>65. ASSUME NEW d \in Daemon, ShutdownFails(d)
      PROVE  Safe'
  BY <1>65 DEF ShutdownFails, SigStep, locks, marks, super, cmdVars
<1>66. ASSUME NEW d \in Daemon, SigUnpid(d)
      PROVE  Safe'
  BY <1>66 DEF SigUnpid, SigStep, RemovePidIfEquals, locks, super, cmdVars
<1>67. ASSUME NEW d \in Daemon, Exit(d)
      PROVE  Safe'
  BY <1>67 DEF Exit, Step, Die, marks, super, cmdVars
<1>68. ASSUME NEW d \in Daemon, SupervisorStarts(d)
      PROVE  Safe'
  BY <1>68 DEF SupervisorStarts, Step, Live, FreePid, Zombie, locks,
     marks, super, cmdVars
<1>69. ASSUME NEW d \in Daemon, SupervisorKills(d)
      PROVE  Safe'
  BY <1>69 DEF SupervisorKills, Step, Die, marks, super, cmdVars
<1>70. ASSUME NEW d \in Daemon, Foreground(d)
      PROVE  Safe'
  BY <1>70 DEF Foreground, Step, Live, FreePid, Zombie, locks, marks,
     super, cmdVars
<1>71. ASSUME NEW d \in Daemon, Kill(d)
      PROVE  Safe'
  BY <1>71 DEF Kill, Step, Die, Live, marks, super, cmdVars
<1>72. ASSUME NEW d \in Daemon, OutsideTerm(d)
      PROVE  Safe'
  <2>1. Term(d, "outside")
    BY <1>72 DEF OutsideTerm
  <2>2. CASE /\ st[d] \in Armed
             /\ sig' = [sig EXCEPT ![d] = IF @ = "none" THEN "posted" ELSE @]
             /\ UNCHANGED <<st, mem, sup, locks>>
    BY <1>72, <2>2 DEF OutsideTerm, locks, cmdVars
  <2>3. CASE st[d] \notin Armed /\ Die(d)
    BY <1>72, <2>3 DEF OutsideTerm, Die, Step, locks, cmdVars
  <2>4. CASE UNCHANGED <<dmnVars, locks>>
    BY <1>72, <2>4 DEF OutsideTerm, dmnVars, locks, cmdVars
  <2> QED
    BY <2>1, <2>2, <2>3, <2>4, Zenon DEF Term
<1>73. ASSUME BadgeExpires
      PROVE  Safe'
  BY <1>73 DEF BadgeExpires, locks, marks, super, cmdVars, dmnVars
<1>74. ASSUME Reboot
      PROVE  Safe'
  BY <1>74 DEF Reboot, marks
<1>75. CASE UNCHANGED vars
  BY <1>75 DEF vars, locks, marks, super, cmdVars, dmnVars
<1> QED
  BY <1>1, <1>2, <1>3, <1>4, <1>5, <1>6, <1>7, <1>8, <1>9, <1>10, <1>11,
     <1>12, <1>13, <1>14, <1>15, <1>16, <1>17, <1>18, <1>19, <1>20, <1>21,
     <1>22, <1>23, <1>24, <1>25, <1>26, <1>27, <1>28, <1>29, <1>30, <1>31,
     <1>32, <1>33, <1>34, <1>35, <1>36, <1>37, <1>38, <1>39, <1>40, <1>41,
     <1>42, <1>43, <1>44, <1>45, <1>46, <1>47, <1>48, <1>49, <1>50, <1>51,
     <1>52, <1>53, <1>54, <1>55, <1>56, <1>57, <1>58, <1>59, <1>60, <1>61,
     <1>62, <1>63, <1>64, <1>65, <1>66, <1>67, <1>68, <1>69, <1>70, <1>71,
     <1>72, <1>73, <1>74, <1>75 DEF Next, CmdStep, CmdFails, EnableStep,
     SpawnStep, StopStep, ChangeStep, BootStep, CycleStep, EndStep,
     SignalStep, DaemonFails

\* The invariant holds initially.
LEMMA InitIInv == Init => IInv
<1> SUFFICES ASSUME Init
             PROVE  Safe
  BY TypeInit DEF IInv
<1> QED
  BY DEF Init, Safe, LockInv, OwnerInv, MemInv, HeldPc, SpawnPc, QuietPc,
         OwnerSt, StartSt, RunSt

\* The invariant holds in every reachable state.
LEMMA Invariance == Spec => []IInv
<1>1. IInv /\ [Next]_vars => IInv'
  BY SafeStep, TypeStep DEF IInv
<1> QED
  BY <1>1, InitIInv, PTL DEF Spec

\* No second history writer, and none while --forget deletes: every writer is
\* in owner, which has one sampler at most and is empty at "delete".
THEOREM OneWriter == Spec => []SingleWriter
<1>1. IInv => SingleWriter
  <2> SUFFICES ASSUME IInv
               PROVE  SingleWriter
    OBVIOUS
  <2>1. \A d \in Daemon : Writer(d) => d \in owner
    BY DEF Writer, IInv, Safe, OwnerInv, OwnerSt
  <2>2. \A d, e \in Daemon : Writer(d) /\ Writer(e) => d = e
    BY <2>1 DEF IInv, Safe, OwnerInv
  <2>3. \A c \in Cmd : pc[c] = "delete" => owner = {}
    BY DEF IInv, Safe, OwnerInv, QuietPc
  <2> QED
    BY <2>1, <2>2, <2>3 DEF SingleWriter
<1> QED
  BY <1>1, Invariance, PTL

\* What --forget deleted is never written back by a sampler that had it.
THEOREM ForgottenStaysForgotten == Spec => []NoResurrection
<1>1. IInv => NoResurrection
  BY DEF IInv, Safe, MemInv, NoResurrection
<1> QED
  BY <1>1, Invariance, PTL

=============================================================================
