---------------------------- MODULE BadgesProofs ----------------------------
(***************************************************************************)
(* What holds of Badges for any workspaces, tokens, TTL and faults.        *)
(*                                                                         *)
(* While everything was confirmed, each workspace shows at most one token, *)
(* and which one is known at every moment: from the old map before its     *)
(* report, from the new one after it, none after its clear.  That is       *)
(* Known, and the mutex is why only one of the three applies.              *)
(***************************************************************************)
EXTENDS Badges, TLAPS

-----------------------------------------------------------------------------
(* Type correctness.                                                       *)

\* A patch leaves every token a lifetime herdr accepts.
LEMMA MergeType ==
    ASSUME NEW shown \in [Tokens -> 0..Ttl], NEW p \in Patch
    PROVE  Merge(shown, p) \in [Tokens -> 0..Ttl]
  BY BadgeAssumption DEF Merge, Patch

\* The plan's patches are patches.
LEMMA PatchType ==
    ASSUME NEW x \in Tokens \cup {None}, NEW y \in Tokens \cup {None}
    PROVE  PatchFor(x, y) \in Patch
  BY DEF PatchFor, Patch

\* A confirmed or unconfirmed report keeps the types of what it touches.
LEMMA ReportType ==
    ASSUME TypeOK, NEW w \in Ws, NEW p \in Patch, NEW kind,
           Confirmed(w, p) \/ Unconfirmed(w, p, kind)
    PROVE  /\ screen' \in [Ws -> [Tokens -> 0..Ttl]]
           /\ wire' \subseteq [w : Ws, p : Patch]
           /\ clean' \in BOOLEAN
<1>1. Merge(screen[w], p) \in [Tokens -> 0..Ttl]
  BY MergeType DEF TypeOK
<1>2. CASE Confirmed(w, p)
  BY <1>1, <1>2 DEF Confirmed, TypeOK
<1>3. CASE NotFound(w)
  BY <1>3 DEF NotFound, TypeOK
<1>4. CASE Failed(w, p, kind)
  <2>1. clean' \in BOOLEAN
    BY <1>4, Zenon DEF Failed
  <2>2. [w |-> w, p |-> p] \in [w : Ws, p : Patch]
    OBVIOUS
  <2> QED
    BY <1>1, <1>4, <2>1, <2>2 DEF Failed, TypeOK
<1> QED
  BY <1>2, <1>3, <1>4 DEF Unconfirmed

\* The initial state has the types.
LEMMA TypeInit == Init => TypeOK
<1> SUFFICES ASSUME Init
             PROVE  TypeOK
  OBVIOUS
<1>1. stopping \in BOOLEAN /\ settled \in BOOLEAN /\ clean \in BOOLEAN
  BY Zenon DEF Init
<1> QED
  BY <1>1, BadgeAssumption DEF Init, TypeOK, Gone, NoPatch, Patch

\* Every step keeps the types.
LEMMA TypeStep == TypeOK /\ [Next]_vars => TypeOK'
<1> SUFFICES ASSUME TypeOK, [Next]_vars
             PROVE  TypeOK'
  OBVIOUS
<1>1. ASSUME Begin
      PROVE  TypeOK'
  <2>1. clean' \in BOOLEAN /\ stopping' \in BOOLEAN /\ settled' \in BOOLEAN
    BY <1>1, Zenon DEF Begin
  <2>2. /\ mutex' = "main" <=> main' = "push"
        /\ mutex' = "signal" <=> sigt' = "clearing"
    BY <1>1 DEF TypeOK, Begin, Gone
  <2>3. /\ alive' = alive /\ screen' = screen /\ wire' = wire
        /\ mutex' = mutex /\ lit' = lit /\ plan' = plan /\ todo' = todo
        /\ swept' = swept /\ main' = "due" /\ sigt' = "none"
        /\ active' = [w \in Ws |-> None] /\ sweeper' = "idle"
    BY <1>1 DEF Begin
  <2> QED
    BY <2>1, <2>2, <2>3 DEF TypeOK, Gone
<1>2. ASSUME StartPush
      PROVE  TypeOK'
  <2>1. plan' \in [Ws -> Patch]
    BY <1>2, PatchType DEF StartPush, TypeOK
  <2> QED
    BY <1>2, <2>1 DEF StartPush, Planned, TypeOK, Gone, disable
<1>3. ASSUME SkipPush
      PROVE  TypeOK'
  BY <1>3 DEF TypeOK, Gone, SkipPush, daemon, disable
<1>4. ASSUME EndPush
      PROVE  TypeOK'
  BY <1>4 DEF TypeOK, Gone, EndPush, NoLocals, NoPatch, Patch, daemon, disable
<1>5. ASSUME Wake
      PROVE  TypeOK'
  BY <1>5 DEF TypeOK, Gone, Wake, daemon, disable
<1>6. ASSUME NEW w \in Ws, ReportBadge(w)
      PROVE  TypeOK'
  <2>1. plan[w] \in Patch
    BY <1>6 DEF TypeOK, ReportBadge
  <2>2. Confirmed(w, plan[w]) \/ Unconfirmed(w, plan[w], "push")
    BY <1>6 DEF ReportBadge
  <2>3. /\ screen' \in [Ws -> [Tokens -> 0..Ttl]]
        /\ wire' \subseteq [w : Ws, p : Patch]
        /\ clean' \in BOOLEAN
    BY <2>1, <2>2, ReportType, Zenon
  <2>4. lit' \in [Ws -> Tokens \cup {None}]
    <3>1. plan[w].set \in Tokens \cup {None}
      BY <2>1 DEF Patch
    <3>2. lit \in [Ws -> Tokens \cup {None}]
      BY DEF TypeOK
    <3>3. lit' = lit \/ lit' = [lit EXCEPT ![w] = plan[w].set]
      BY <1>6 DEF ReportBadge
    <3> QED
      BY <3>1, <3>2, <3>3
  <2>5. /\ todo' = todo \ {w}
        /\ UNCHANGED <<alive, main, sigt, stopping, mutex, active, plan,
                       disable>>
    BY <1>6 DEF ReportBadge
  <2> QED
    BY <2>3, <2>4, <2>5 DEF TypeOK, Gone, disable
<1>7. ASSUME Notice
      PROVE  TypeOK'
  <2>1. stopping' \in BOOLEAN
    BY <1>7, Zenon DEF TypeOK, Notice, Gone
  <2> QED
    BY <1>7, <2>1 DEF TypeOK, Notice, Gone, daemon, disable
<1>8. ASSUME StartShutdown
      PROVE  TypeOK'
  <2>1. clean' \in BOOLEAN
    BY <1>8, Zenon DEF TypeOK, StartShutdown
  <2> QED
    BY <1>8, <2>1 DEF TypeOK, Gone, StartShutdown, ClearBadge, Patch, daemon,
     disable
<1>9. ASSUME EndShutdown
      PROVE  TypeOK'
  BY <1>9 DEF TypeOK, Gone, EndShutdown, NoLocals, NoPatch, Patch, daemon,
     disable
<1>10. ASSUME Exit
      PROVE  TypeOK'
  <2>1. stopping' \in BOOLEAN
    BY <1>10, Zenon DEF TypeOK, Exit, Ended, NoLocals
  <2> QED
    BY <1>10, <2>1 DEF TypeOK, Gone, Exit, Ended, NoLocals, NoPatch, Patch,
     daemon, disable
<1>11. ASSUME NEW w \in Ws, ClearOne(w)
      PROVE  TypeOK'
  <2>1. plan[w] \in Patch
    BY <1>11 DEF TypeOK, ClearOne
  <2>2. Confirmed(w, plan[w]) \/ Unconfirmed(w, plan[w], "clear")
    BY <1>11 DEF ClearOne
  <2>3. /\ screen' \in [Ws -> [Tokens -> 0..Ttl]]
        /\ wire' \subseteq [w : Ws, p : Patch]
        /\ clean' \in BOOLEAN
    BY <2>1, <2>2, ReportType, Zenon
  <2> QED
    BY <1>11, <2>1, <2>3 DEF ClearOne, TypeOK, Gone, daemon, disable
<1>12. ASSUME Disable
      PROVE  TypeOK'
  <2>1. stopping' \in BOOLEAN
    BY <1>12, Zenon DEF TypeOK, Disable, Gone
  <2> QED
    BY <1>12, <2>1 DEF TypeOK, Disable, Gone, daemon, disable
<1>13. ASSUME StartSweep
      PROVE  TypeOK'
  <2>1. settled' \in BOOLEAN
    BY <1>13, Zenon DEF TypeOK, StartSweep, Gone
  <2> QED
    BY <1>13, <2>1 DEF TypeOK, StartSweep, Gone, daemon, disable
<1>14. ASSUME NoSweep \/ EndSweep
      PROVE  TypeOK'
  BY <1>14 DEF TypeOK, Gone, NoSweep, EndSweep, daemon, disable
<1>15. ASSUME NEW w \in Ws, SweepOne(w)
      PROVE  TypeOK'
  <2>1. SweepAll \in Patch
    BY <1>15 DEF TypeOK, SweepOne, SweepAll, Patch
  <2>2. Confirmed(w, SweepAll) \/ Unconfirmed(w, SweepAll, "sweep")
    BY <1>15 DEF SweepOne
  <2>3. /\ screen' \in [Ws -> [Tokens -> 0..Ttl]]
        /\ wire' \subseteq [w : Ws, p : Patch]
        /\ clean' \in BOOLEAN
    BY <2>1, <2>2, ReportType, Zenon
  <2> QED
    BY <1>15, <2>1, <2>3 DEF SweepOne, TypeOK, Gone, daemon, disable
<1>16. ASSUME Tick
      PROVE  TypeOK'
  <2>1. \A x \in 0..Ttl : (IF x = 0 THEN 0 ELSE x - 1) \in 0..Ttl
    BY BadgeAssumption
  <2>2. screen' \in [Ws -> [Tokens -> 0..Ttl]]
    BY <1>16, <2>1 DEF Tick, TypeOK
  <2> QED
    BY <1>16, <2>2 DEF Tick, TypeOK, Gone, daemon, disable
<1>17. ASSUME NEW w \in Ws, Close(w)
      PROVE  TypeOK'
  BY <1>17, BadgeAssumption DEF TypeOK, Gone, Close, daemon, disable
<1>18. ASSUME NEW w \in Ws, Open(w)
      PROVE  TypeOK'
  BY <1>18 DEF TypeOK, Gone, Open, daemon, disable
<1>19. ASSUME NEW r \in wire, Arrive(r)
      PROVE  TypeOK'
  <2>1. r.w \in Ws /\ r.p \in Patch
    BY <1>19 DEF TypeOK, Arrive
  <2>2. Merge(screen[r.w], r.p) \in [Tokens -> 0..Ttl]
    BY <2>1, MergeType DEF TypeOK
  <2> QED
    BY <1>19, <2>1, <2>2 DEF Arrive, TypeOK, Gone, daemon, disable
<1>20. ASSUME Kill
      PROVE  TypeOK'
  <2>1. clean' \in BOOLEAN /\ stopping' \in BOOLEAN
    BY <1>20, Zenon DEF TypeOK, Kill, Ended, NoLocals, Gone
  <2> QED
    BY <1>20, <2>1 DEF TypeOK, Kill, Ended, NoLocals, NoPatch, Patch, Gone,
     daemon, disable
<1>21. CASE UNCHANGED vars
  BY <1>21 DEF TypeOK, Gone, vars, daemon, disable
<1> QED
  BY <1>1, <1>2, <1>3, <1>4, <1>5, <1>6, <1>7, <1>8, <1>9, <1>10, <1>11,
     <1>12, <1>13, <1>14, <1>15, <1>16, <1>17, <1>18, <1>19, <1>20, <1>21
     DEF Next, MainStep, SignalStep, DisableStep, HerdrStep

\* Every variable has its type, and the guard its holder, in every reachable
\* state.
THEOREM TypeCorrect == Spec => []TypeOK
<1>1. Init => TypeOK
  BY TypeInit
<1>2. TypeOK /\ [Next]_vars => TypeOK'
  BY TypeStep
<1> QED
  BY <1>1, <1>2, PTL DEF Spec

-----------------------------------------------------------------------------
(* The invariant.                                                          *)

NothingLit == [w \in Ws |-> None]

\* A closed workspace has no tokens.
ClosedInv == \A w \in Ws \ alive : Shown(w) = {}

\* A sampler on its way out does not push again, and its map is empty.
StopInv ==
    /\ sigt # "none" => stopping
    /\ sigt = "exiting" => main # "push" /\ active = NothingLit
    /\ Gone => active = NothingLit

\* What is still to be reported was planned from the map as it still is.
PlanInv ==
    /\ main = "push" =>
         \A w \in todo : plan[w] = PatchFor(active[w], plan[w].set)
    /\ sigt = "clearing" => \A w \in todo : plan[w] = ClearBadge(w)

\* The token that a workspace may show: the new one once push has reported
\* it, none once shutdown has, else what the map says.
Known(w) ==
    IF main = "push" /\ w \notin todo THEN lit[w]
    ELSE IF sigt = "clearing" /\ w \notin todo THEN None
    ELSE active[w]

KnownInv ==
    clean => /\ wire = {} /\ main # "killed"
             /\ \A w \in Ws : Shown(w) \subseteq {Known(w)}

\* The sweep of a sampler that is gone leaves darkness behind it.
SweepInv ==
    /\ settled /\ sweeper \in {"sweeping", "ok"} =>
         /\ Gone /\ wire = {}
         /\ \A w \in Ws \ swept : Shown(w) = {}
    /\ sweeper = "ok" => swept = {}

IInv == TypeOK /\ ClosedInv /\ StopInv /\ PlanInv /\ KnownInv /\ SweepInv

-----------------------------------------------------------------------------
(* What a report does to the screen.                                       *)

\* The plan's patch takes a workspace from its old token to its new one.
LEMMA MergeFlip ==
    ASSUME NEW shown \in [Tokens -> 0..Ttl],
           NEW x \in Tokens \cup {None}, NEW y \in Tokens \cup {None},
           \A t \in Tokens : shown[t] > 0 => t = x
    PROVE  \A t \in Tokens : Merge(shown, PatchFor(x, y))[t] > 0 => t = y
  BY BadgeAssumption DEF Merge, PatchFor

\* The clear of shutdown leaves a workspace that showed its token dark.
LEMMA MergeClear ==
    ASSUME NEW shown \in [Tokens -> 0..Ttl], NEW w \in Ws,
           \A t \in Tokens : shown[t] > 0 => t = active[w]
    PROVE  \A t \in Tokens : Merge(shown, ClearBadge(w))[t] = 0
  BY BadgeAssumption DEF Merge, ClearBadge

\* The sweep's patch leaves a workspace dark, whatever it showed.
LEMMA MergeSweep ==
    ASSUME NEW shown \in [Tokens -> 0..Ttl]
    PROVE  \A t \in Tokens : Merge(shown, SweepAll)[t] = 0
  BY BadgeAssumption DEF Merge, SweepAll

\* A report touches one workspace, and none that is closed; while all is
\* clean, one that is open has merged the patch or the report was not
\* confirmed.
LEMMA ReportScreen ==
    ASSUME TypeOK, NEW w \in Ws, NEW p \in Patch, NEW kind,
           Confirmed(w, p) \/ Unconfirmed(w, p, kind)
    PROVE  /\ \A v \in Ws : v # w => screen'[v] = screen[v]
           /\ w \notin alive => screen' = screen
           /\ clean' => clean /\ wire' = wire
           /\ w \in alive /\ clean' => screen'[w] = Merge(screen[w], p)
<1>1. CASE Confirmed(w, p)
  BY <1>1 DEF Confirmed, TypeOK
<1>2. CASE NotFound(w)
  BY <1>2 DEF NotFound
<1>3. CASE Failed(w, p, kind)
  BY <1>3 DEF Failed, TypeOK
<1> QED
  BY <1>1, <1>2, <1>3 DEF Unconfirmed

-----------------------------------------------------------------------------
(* The invariant holds at the start and through every step.                *)

\* The initial state satisfies the invariant.
LEMMA InvInit == Init => IInv
<1> SUFFICES ASSUME Init
             PROVE  IInv
  OBVIOUS
<1>1. TypeOK
  BY TypeInit
<1>2. \A w \in Ws : Shown(w) = {}
  BY DEF Init, Shown
<1> QED
  BY <1>1, <1>2 DEF Init, IInv, ClosedInv, StopInv, PlanInv, KnownInv,
     SweepInv, NothingLit, Gone

\* Nothing is reported to, or applied at, a closed workspace.
LEMMA ClosedStep == IInv /\ [Next]_vars => ClosedInv'
<1> SUFFICES ASSUME IInv, [Next]_vars
             PROVE  ClosedInv'
  OBVIOUS
<1> USE DEF IInv, ClosedInv, Shown
<1>1. CASE UNCHANGED <<alive, screen>>
  BY <1>1
<1>2. ASSUME NEW w \in Ws, NEW p \in Patch, NEW kind, alive' = alive,
             Confirmed(w, p) \/ Unconfirmed(w, p, kind)
      PROVE  ClosedInv'
  BY <1>2, ReportScreen
<1>3. ASSUME NEW w \in Ws, ReportBadge(w)
      PROVE  ClosedInv'
  <2>1. plan[w] \in Patch
    BY <1>3 DEF TypeOK
  <2> QED
    BY <1>2, <1>3, <2>1 DEF ReportBadge
<1>4. ASSUME NEW w \in Ws, ClearOne(w)
      PROVE  ClosedInv'
  <2>1. plan[w] \in Patch
    BY <1>4 DEF TypeOK
  <2> QED
    BY <1>2, <1>4, <2>1 DEF ClearOne
<1>5. ASSUME NEW w \in Ws, SweepOne(w)
      PROVE  ClosedInv'
  <2>1. SweepAll \in Patch
    BY DEF SweepAll, Patch
  <2> QED
    BY <1>2, <1>5, <2>1 DEF SweepOne
<1>6. CASE Tick
  BY <1>6 DEF Tick, TypeOK
<1>7. ASSUME NEW w \in Ws, Close(w)
      PROVE  ClosedInv'
  BY <1>7 DEF Close, TypeOK
<1>8. ASSUME NEW w \in Ws, Open(w)
      PROVE  ClosedInv'
  BY <1>8 DEF Open
<1>9. ASSUME NEW r \in wire, Arrive(r)
      PROVE  ClosedInv'
  BY <1>9 DEF Arrive, TypeOK
<1> QED
  BY <1>1, <1>3, <1>4, <1>5, <1>6, <1>7, <1>8, <1>9
     DEF Next, MainStep, SignalStep, DisableStep, HerdrStep, vars, Begin,
         StartPush, SkipPush, EndPush, Wake, Notice, StartShutdown,
         EndShutdown, Exit, Ended, Kill, Disable, StartSweep, NoSweep, EndSweep

\* The flag is never lowered under a signal thread, and a sampler leaves its
\* map empty.
LEMMA StopStep == IInv /\ [Next]_vars => StopInv'
<1> SUFFICES ASSUME IInv, [Next]_vars
             PROVE  StopInv'
  OBVIOUS
<1> USE DEF IInv, TypeOK, StopInv, NothingLit, Gone
<1>1. CASE UNCHANGED <<main, sigt, stopping, active>>
  BY <1>1
<1>2. CASE Begin
  BY <1>2 DEF Begin
<1>3. CASE StartPush
  BY <1>3 DEF StartPush
<1>4. CASE SkipPush
  BY <1>4 DEF SkipPush
<1>5. CASE EndPush
  BY <1>5 DEF EndPush
<1>6. CASE Wake
  BY <1>6 DEF Wake
<1>7. CASE Notice
  BY <1>7 DEF Notice
<1>8. CASE StartShutdown
  BY <1>8 DEF StartShutdown
<1>9. CASE EndShutdown
  BY <1>9 DEF EndShutdown
<1>10. CASE Exit
  BY <1>10 DEF Exit, Ended
<1>11. CASE Kill
  BY <1>11 DEF Kill, Ended
<1>12. CASE Disable
  BY <1>12 DEF Disable
<1> QED
  BY <1>1, <1>2, <1>3, <1>4, <1>5, <1>6, <1>7, <1>8, <1>9, <1>10, <1>11,
     <1>12
     DEF Next, MainStep, SignalStep, DisableStep, HerdrStep, vars, daemon,
         disable, ReportBadge, ClearOne, SweepOne, StartSweep, NoSweep,
         EndSweep, Tick, Close, Open, Arrive

\* Reporting one workspace leaves the plans of the others valid.
LEMMA PlanStep == IInv /\ [Next]_vars => PlanInv'
<1> SUFFICES ASSUME IInv, [Next]_vars
             PROVE  PlanInv'
  OBVIOUS
<1> USE DEF IInv, TypeOK, PlanInv, ClearBadge
<1>1. CASE UNCHANGED <<main, sigt, active, plan, todo>>
  BY <1>1
<1>2. CASE Begin
  BY <1>2 DEF Begin, Gone
<1>3. CASE StartPush
  <2>1. PICK wanted \in [Ws -> Tokens \cup {None}] :
          plan' = [w \in Ws |-> PatchFor(active[w], wanted[w])]
    BY <1>3 DEF StartPush
  <2>2. \A w \in Ws : PatchFor(active[w], wanted[w]).set = wanted[w]
    BY DEF PatchFor
  <2>3. \A w \in Ws : plan'[w] = PatchFor(active'[w], plan'[w].set)
    BY <1>3, <2>1, <2>2 DEF StartPush
  <2>4. sigt' # "clearing" /\ todo' \subseteq Ws
    BY <1>3 DEF StartPush, Planned
  <2> QED
    BY <2>3, <2>4
<1>4. CASE SkipPush
  BY <1>4 DEF SkipPush
<1>5. CASE EndPush
  BY <1>5 DEF EndPush, NoLocals
<1>6. CASE Wake
  BY <1>6 DEF Wake
<1>7. CASE Notice
  BY <1>7 DEF Notice
<1>8. CASE StartShutdown
  BY <1>8 DEF StartShutdown
<1>9. CASE EndShutdown
  BY <1>9 DEF EndShutdown, NoLocals
<1>10. CASE Exit
  BY <1>10 DEF Exit, Ended
<1>11. CASE Kill
  BY <1>11 DEF Kill, Ended
<1>12. CASE Disable
  BY <1>12 DEF Disable
<1>13. ASSUME NEW w \in Ws, ReportBadge(w)
       PROVE  PlanInv'
  BY <1>13 DEF ReportBadge
<1>14. ASSUME NEW w \in Ws, ClearOne(w)
       PROVE  PlanInv'
  BY <1>14 DEF ClearOne
<1> QED
  BY <1>1, <1>2, <1>3, <1>4, <1>5, <1>6, <1>7, <1>8, <1>9, <1>10, <1>11,
     <1>12, <1>13, <1>14
     DEF Next, MainStep, SignalStep, DisableStep, HerdrStep, vars, daemon,
         disable, SweepOne, StartSweep, NoSweep, EndSweep, Tick, Close, Open,
         Arrive

\* Every confirmed report takes its workspace from what was known to be lit
\* to what is now.
LEMMA KnownStep == IInv /\ [Next]_vars => KnownInv'
<1> SUFFICES ASSUME IInv, [Next]_vars, clean'
             PROVE  /\ wire' = {} /\ main' # "killed"
                    /\ \A w \in Ws : Shown(w)' \subseteq {Known(w)'}
  BY DEF KnownInv
<1> DEFINE Goal == /\ wire' = {} /\ main' # "killed"
                   /\ \A w \in Ws : Shown(w)' \subseteq {Known(w)'}
<1> USE DEF IInv
<1>1. CASE Begin
  <2>1. clean => wire = {} /\ Dark
    <3> SUFFICES ASSUME clean
                 PROVE  wire = {} /\ Dark
      OBVIOUS
    <3>1. /\ wire = {} /\ Gone /\ sigt = "none" /\ active = NothingLit
          /\ \A w \in Ws : Shown(w) \subseteq {Known(w)}
      BY <1>1 DEF Begin, TypeOK, KnownInv, StopInv
    <3>2. \A w \in Ws : Known(w) = None
      BY <3>1 DEF Known, Gone, NothingLit
    <3>3. \A w \in Ws : Shown(w) = {}
      BY <3>1, <3>2, BadgeAssumption DEF Shown
    <3> QED
      BY <3>1, <3>3 DEF Dark, Shown, TypeOK
  <2>2. wire = {} /\ Dark
    BY <1>1, <2>1 DEF Begin
  <2> QED
    BY <1>1, <2>2 DEF Begin, TypeOK, Dark, Shown
<1>2. CASE StartPush
  BY <1>2 DEF StartPush, TypeOK, KnownInv, Known, Shown, Planned
<1>3. CASE SkipPush
  BY <1>3 DEF SkipPush, TypeOK, KnownInv, Known, Shown
<1>4. ASSUME NEW w \in Ws, ReportBadge(w)
      PROVE  Goal
  <2>1. /\ main = "push" /\ w \in todo /\ plan[w] \in Patch
        /\ Confirmed(w, plan[w]) \/ Unconfirmed(w, plan[w], "push")
    BY <1>4 DEF ReportBadge, TypeOK
  <2>2. clean /\ wire' = wire
    BY <2>1, ReportScreen
  <2>3. /\ wire' = {} /\ main' = "push"
        /\ \A v \in Ws : Shown(v) \subseteq {Known(v)}
    BY <1>4, <2>1, <2>2 DEF ReportBadge, KnownInv
  <2>4. ASSUME NEW v \in Ws, v # w
        PROVE  Shown(v)' \subseteq {Known(v)'}
    <3>1. screen'[v] = screen[v]
      BY <2>1, <2>4, ReportScreen
    <3>2. Known(v)' = Known(v)
      BY <1>4, <2>1, <2>4 DEF ReportBadge, Known, TypeOK
    <3> QED
      BY <2>3, <3>1, <3>2 DEF Shown
  <2>5. CASE w \in alive
    <3>1. /\ plan[w] = PatchFor(active[w], plan[w].set)
          /\ plan[w].set \in Tokens \cup {None}
          /\ active[w] \in Tokens \cup {None}
          /\ screen[w] \in [Tokens -> 0..Ttl]
      BY <2>1 DEF PlanInv, TypeOK, Patch
    <3>2. \A t \in Tokens : screen[w][t] > 0 => t = active[w]
      BY <2>1, <2>3 DEF Known, TypeOK, Shown
    <3>3. \A t \in Tokens : screen'[w][t] > 0 => t = plan[w].set
      <4>1. screen'[w] = Merge(screen[w], plan[w])
        BY <2>1, <2>5, ReportScreen
      <4>2. \A t \in Tokens :
              Merge(screen[w], PatchFor(active[w], plan[w].set))[t] > 0
                => t = plan[w].set
        BY <3>1, <3>2, MergeFlip
      <4> QED
        BY <3>1, <4>1, <4>2
    <3>4. lit' = [lit EXCEPT ![w] = plan[w].set] /\ todo' = todo \ {w}
      <4>1. ~Unconfirmed(w, plan[w], "push")
        BY <2>5 DEF Unconfirmed, NotFound, Failed
      <4> QED
        BY <1>4, <4>1 DEF ReportBadge
    <3>5. Known(w)' = plan[w].set
      BY <2>3, <3>4 DEF Known, TypeOK
    <3> QED
      BY <2>3, <2>4, <3>3, <3>5 DEF Shown
  <2>6. CASE w \notin alive
    <3>1. Shown(w)' = {}
      BY <2>1, <2>6, ReportScreen DEF ClosedInv, Shown
    <3> QED
      BY <2>3, <2>4, <3>1
  <2> QED
    BY <2>5, <2>6
<1>5. CASE EndPush
  BY <1>5 DEF EndPush, NoLocals, TypeOK, KnownInv, Known, Shown
<1>6. CASE Wake
  BY <1>6 DEF Wake, TypeOK, KnownInv, Known, Shown
<1>7. CASE Notice
  BY <1>7 DEF Notice, TypeOK, KnownInv, Known, Shown
<1>8. CASE StartShutdown
  BY <1>8 DEF StartShutdown, TypeOK, KnownInv, Known, Shown
<1>9. ASSUME NEW w \in Ws, ClearOne(w)
      PROVE  Goal
  <2>1. /\ sigt = "clearing" /\ main # "push" /\ w \in todo
        /\ plan[w] \in Patch /\ plan[w] = ClearBadge(w)
        /\ Confirmed(w, plan[w]) \/ Unconfirmed(w, plan[w], "clear")
    BY <1>9 DEF ClearOne, PlanInv, TypeOK
  <2>2. clean /\ wire' = wire
    BY <2>1, ReportScreen
  <2>3. /\ wire' = {} /\ main' # "killed"
        /\ \A v \in Ws : Shown(v) \subseteq {Known(v)}
    BY <1>9, <2>2 DEF ClearOne, KnownInv
  <2>4. ASSUME NEW v \in Ws, v # w
        PROVE  Shown(v)' \subseteq {Known(v)'}
    <3>1. screen'[v] = screen[v]
      BY <2>1, <2>4, ReportScreen
    <3>2. Known(v)' = Known(v)
      BY <1>9, <2>1, <2>4 DEF ClearOne, Known
    <3> QED
      BY <2>3, <3>1, <3>2 DEF Shown
  <2>5. Shown(w)' = {}
    <3>1. CASE w \in alive
      <4>1. screen[w] \in [Tokens -> 0..Ttl]
        BY DEF TypeOK
      <4>2. \A t \in Tokens : screen[w][t] > 0 => t = active[w]
        BY <2>1, <2>3 DEF Known, Shown
      <4>3. \A t \in Tokens : Merge(screen[w], ClearBadge(w))[t] = 0
        BY <4>1, <4>2, MergeClear
      <4>4. screen'[w] = Merge(screen[w], ClearBadge(w))
        BY <2>1, <3>1, ReportScreen
      <4> QED
        BY <4>3, <4>4 DEF Shown
    <3>2. CASE w \notin alive
      BY <2>1, <3>2, ReportScreen DEF ClosedInv, Shown
    <3> QED
      BY <3>1, <3>2
  <2> QED
    BY <2>3, <2>4, <2>5
<1>10. CASE EndShutdown
  BY <1>10 DEF EndShutdown, NoLocals, TypeOK, KnownInv, Known, Shown
<1>11. CASE Exit
  BY <1>11 DEF Exit, Ended, NoLocals, TypeOK, KnownInv, StopInv, NothingLit,
     Known, Shown
<1>12. CASE Kill
  BY <1>12 DEF Kill
<1>13. CASE Disable
  BY <1>13 DEF Disable, TypeOK, KnownInv, Known, Shown, Gone
<1>14. CASE StartSweep \/ NoSweep \/ EndSweep
  BY <1>14 DEF StartSweep, NoSweep, EndSweep, daemon, KnownInv, Known,
     Shown
<1>15. ASSUME NEW w \in Ws, SweepOne(w)
       PROVE  Goal
  <2>1. /\ SweepAll \in Patch
        /\ Confirmed(w, SweepAll) \/ Unconfirmed(w, SweepAll, "sweep")
    BY <1>15 DEF SweepOne, SweepAll, Patch
  <2>2. clean /\ wire' = wire
    BY <2>1, ReportScreen
  <2>3. /\ wire' = {} /\ main' # "killed"
        /\ \A v \in Ws : Shown(v) \subseteq {Known(v)} /\ Known(v)' = Known(v)
    BY <1>15, <2>2 DEF SweepOne, KnownInv, Known, daemon
  <2>4. ASSUME NEW v \in Ws, v # w
        PROVE  Shown(v)' = Shown(v)
    BY <2>1, <2>4, ReportScreen DEF Shown
  <2>5. Shown(w)' = {}
    <3>1. CASE w \in alive
      <4>1. screen'[w] = Merge(screen[w], SweepAll)
        BY <2>1, <3>1, ReportScreen
      <4>2. \A t \in Tokens : Merge(screen[w], SweepAll)[t] = 0
        BY MergeSweep DEF TypeOK
      <4> QED
        BY <4>1, <4>2 DEF Shown
    <3>2. CASE w \notin alive
      BY <2>1, <3>2, ReportScreen DEF ClosedInv, Shown
    <3> QED
      BY <3>1, <3>2
  <2> QED
    BY <2>3, <2>4, <2>5
<1>16. CASE Tick
  BY <1>16 DEF Tick, daemon, TypeOK, KnownInv, Known, Shown
<1>17. ASSUME NEW w \in Ws, Close(w)
       PROVE  Goal
  BY <1>17 DEF Close, daemon, TypeOK, KnownInv, Known, Shown
<1>18. ASSUME NEW w \in Ws, Open(w)
       PROVE  Goal
  BY <1>18 DEF Open, daemon, TypeOK, KnownInv, Known, Shown
<1>19. ASSUME NEW r \in wire, Arrive(r)
       PROVE  Goal
  BY <1>19 DEF Arrive, KnownInv
<1>20. CASE UNCHANGED vars
  BY <1>20 DEF vars, daemon, KnownInv, Known, Shown
<1> QED
  BY <1>1, <1>2, <1>3, <1>4, <1>5, <1>6, <1>7, <1>8, <1>9, <1>10, <1>11,
     <1>12, <1>13, <1>14, <1>15, <1>16, <1>17, <1>18, <1>19, <1>20
     DEF Next, MainStep, SignalStep, DisableStep, HerdrStep

\* Nobody lights a workspace behind a sweep that found the sampler gone.
LEMMA SweepStep == IInv /\ [Next]_vars => SweepInv'
<1> SUFFICES ASSUME IInv, [Next]_vars
             PROVE  SweepInv'
  OBVIOUS
<1> USE DEF IInv, SweepInv
<1>1. ASSUME main' = main \/ ~Gone, UNCHANGED <<wire, screen, disable>>
      PROVE  SweepInv'
  BY <1>1 DEF disable, Gone, Shown
<1>2. CASE Begin
  BY <1>2 DEF Begin
<1>3. ASSUME NEW w \in Ws, ReportBadge(w) \/ ClearOne(w)
      PROVE  SweepInv'
  <2>1. ~Gone
    BY <1>3 DEF ReportBadge, ClearOne, TypeOK, Gone
  <2> QED
    BY <1>3, <2>1 DEF ReportBadge, ClearOne, disable
<1>4. CASE Disable
  BY <1>4 DEF Disable
<1>5. CASE StartSweep
  BY <1>5 DEF StartSweep, daemon, ClosedInv, Gone, Shown
<1>6. CASE NoSweep \/ EndSweep
  BY <1>6 DEF NoSweep, EndSweep, daemon, Gone, Shown
<1>7. ASSUME NEW w \in Ws, SweepOne(w)
      PROVE  SweepInv'
  <2>1. CASE sweeper' = "failing"
    BY <2>1
  <2>2. CASE sweeper' # "failing"
    <3>1. /\ sweeper = "sweeping" /\ Confirmed(w, SweepAll)
          /\ sweeper' = "sweeping" /\ settled' = settled /\ Gone' = Gone
          /\ swept' = swept \ {w}
      BY <1>7, <2>2 DEF SweepOne, daemon, Gone
    <3>2. screen' = [screen EXCEPT ![w] = Merge(@, SweepAll)]
          /\ wire' = wire
      BY <3>1 DEF Confirmed
    <3>3. \A t \in Tokens : Merge(screen[w], SweepAll)[t] = 0
      BY MergeSweep DEF TypeOK
    <3>4. Shown(w)' = {}
      BY <3>2, <3>3 DEF Shown, TypeOK
    <3>5. \A v \in Ws : v # w => Shown(v)' = Shown(v)
      BY <3>2 DEF Shown, TypeOK
    <3> QED
      BY <3>1, <3>2, <3>4, <3>5
  <2> QED
    BY <2>1, <2>2
<1>8. CASE Tick
  BY <1>8 DEF Tick, TypeOK, daemon, disable, Gone, Shown
<1>9. ASSUME NEW w \in Ws, Close(w)
      PROVE  SweepInv'
  BY <1>9 DEF Close, TypeOK, daemon, disable, Gone, Shown
<1>10. ASSUME NEW w \in Ws, Open(w)
       PROVE  SweepInv'
  BY <1>10 DEF Open, daemon, disable, Gone, Shown
<1>11. ASSUME NEW r \in wire, Arrive(r)
       PROVE  SweepInv'
  BY <1>11 DEF Arrive, daemon, disable, Gone
<1>12. CASE UNCHANGED vars
  BY <1>1, <1>12 DEF vars, daemon
<1> QED
  BY <1>1, <1>2, <1>3, <1>4, <1>5, <1>6, <1>7, <1>8, <1>9, <1>10, <1>11,
     <1>12
     DEF Next, MainStep, SignalStep, DisableStep, HerdrStep, StartPush,
         SkipPush, EndPush, Wake, Notice, StartShutdown, EndShutdown, Exit,
         Ended, Kill, Gone, TypeOK

\* IInv is an invariant.
LEMMA Invariance == Spec => []IInv
<1>1. Init => IInv
  BY InvInit
<1>2. IInv /\ [Next]_vars => IInv'
  <2> SUFFICES ASSUME IInv, [Next]_vars
               PROVE  IInv'
    OBVIOUS
  <2>1. TypeOK'
    BY TypeStep DEF IInv
  <2>2. ClosedInv' /\ StopInv' /\ PlanInv' /\ KnownInv' /\ SweepInv'
    BY ClosedStep, StopStep, PlanStep, KnownStep, SweepStep
  <2> QED
    BY <2>1, <2>2 DEF IInv
<1> QED
  BY <1>1, <1>2, PTL DEF Spec

-----------------------------------------------------------------------------
(* The properties.                                                         *)

\* While every report was confirmed herdr never draws two badges for one
\* workspace, not even during a tone flip: plan_for's clear and set are one
\* patch.
THEOREM NeverTwoBadges == Spec => []OneBadge
<1>1. IInv => OneBadge
  BY DEF IInv, KnownInv, OneBadge
<1> QED
  BY <1>1, Invariance, PTL

\* Whoever takes the guard of the active map finds in it everything the
\* screen shows, while every report was confirmed.
THEOREM MapIsComplete == Spec => []ScreenIsMap
<1>1. IInv => ScreenIsMap
  BY DEF IInv, TypeOK, KnownInv, Known, ScreenIsMap
<1> QED
  BY <1>1, Invariance, PTL

\* A sampler that could reach herdr leaves a dark screen when it exits,
\* wherever in a push or a nap the signal met it.
THEOREM ShutdownIsLast == Spec => []ExitIsDark
<1>1. IInv => ExitIsDark
  <2> SUFFICES ASSUME IInv, main = "exited", clean
               PROVE  Dark
    BY DEF ExitIsDark
  <2>1. \A w \in Ws : Known(w) = None /\ Shown(w) \subseteq {Known(w)}
    BY DEF IInv, TypeOK, StopInv, KnownInv, Known, Gone, NothingLit
  <2>2. \A w \in Ws : Shown(w) = {}
    BY <2>1, BadgeAssumption DEF Shown
  <2> QED
    BY <2>2 DEF IInv, TypeOK, Dark, Shown
<1> QED
  BY <1>1, Invariance, PTL

\* A --disable whose sweep began after the sampler was gone, and was confirmed
\* throughout, leaves a dark screen, whatever was lit and by whom.
THEOREM SweepIsEnough == Spec => []DisableIsDark
<1>1. IInv => DisableIsDark
  <2> SUFFICES ASSUME IInv, sweeper = "ok", settled
               PROVE  Dark
    BY DEF DisableIsDark
  <2>1. \A w \in Ws : Shown(w) = {}
    BY DEF IInv, SweepInv
  <2> QED
    BY <2>1 DEF IInv, TypeOK, Dark, Shown
<1> QED
  BY <1>1, Invariance, PTL

=============================================================================
