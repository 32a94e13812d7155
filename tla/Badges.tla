------------------------------- MODULE Badges -------------------------------
(***************************************************************************)
(* The badges of one sampler on herdr's screen: push by the main thread,   *)
(* shutdown by the signal thread, both under the mutex of the active map,  *)
(* and the sweep of --disable (src/src/daemon.rs, herdr.rs).  This opens   *)
(* the steps Push, Shutdown and Sweep of Lifecycle, whose locks decide     *)
(* when a sampler may start.                                               *)
(*                                                                         *)
(* One report is one merge patch for one workspace.  It is confirmed, or   *)
(* it fails; and one that failed may have been applied all the same, or be *)
(* applied later, because a client that gives up waiting takes nothing     *)
(* back.                                                                   *)
(***************************************************************************)
EXTENDS Naturals, FiniteSets

CONSTANTS
    Ws,       \* workspace ids
    Tokens,   \* the token names, one per tone
    None,     \* no token
    Ttl,      \* lifetime of a token, in sampling intervals
    MaxLate,  \* bound: requests at herdr that nobody waits for any more
    Faults    \* what may go wrong, a subset of FaultKinds

FaultKinds == {"push",    \* a report of push is not confirmed
               "clear",   \* shutdown cannot connect, or a clear fails
               "sweep",   \* a report of the sweep is not confirmed
               "late",    \* one of them is applied after its client gave up
               "kill"}    \* SIGKILL of the sampler

ASSUME BadgeAssumption ==
    /\ None \notin Tokens
    /\ Ttl \in Nat \ {0} /\ MaxLate \in Nat
    /\ Faults \subseteq FaultKinds

VARIABLES
    alive,     \* workspaces herdr has
    screen,    \* intervals each token of each workspace has left, 0 if unlit
    wire,      \* patches herdr may still apply, though nobody waits
    main,      \* where the main thread is
    sigt,      \* where the signal thread is
    stopping,  \* the flag between them
    mutex,     \* holder of the active map: "free", "main" or "signal"
    active,    \* the map: the token each workspace is lit with
    lit,       \* the map push is building
    plan,      \* the patches of the push or shutdown under way
    todo,      \* the workspaces it has not reported yet
    sweeper,   \* where --disable is
    swept,     \* the workspaces its sweep has not reported yet
    settled,   \* it began its sweep after the sampler was gone
    clean      \* ghost: nothing went wrong since a sampler started in the dark

daemon == <<main, sigt, stopping, mutex, active, lit, plan, todo>>
disable == <<sweeper, swept, settled>>
vars == <<alive, screen, wire, daemon, disable, clean>>

-----------------------------------------------------------------------------
(* Patches.                                                                *)

\* The tokens a report clears and the one it sets, if any.
Patch == [clear : SUBSET Tokens, set : Tokens \cup {None}]
NoPatch == [clear |-> {}, set |-> None]

\* herdr's merge of a patch; setting is what (re)starts a token's TTL.
Merge(shown, p) ==
    [t \in Tokens |-> IF t = p.set THEN Ttl
                      ELSE IF t \in p.clear THEN 0 ELSE shown[t]]

\* Mutant: the new tone is set and the old one left to expire.
PatchSetOnly(previous, next) == [clear |-> {}, set |-> next]

\* plan_for and batch, for one workspace: what it is lit with, what it wants.
PatchFor(previous, next) ==
    [clear |-> IF previous \in {next, None} THEN {} ELSE {previous},
     set |-> next]

\* Mutant: a badge that did not change is not sent again.
ChangedOnly(wanted) == {w \in Ws : active[w] # wanted[w]}

\* The workspaces the plan has an operation for.
Planned(wanted) == {w \in Ws : active[w] # None \/ wanted[w] # None}

\* shutdown clears what the map says, sweep every name it may ever have set.
ClearBadge(w) == [clear |-> {active[w]} \ {None}, set |-> None]

\* Mutant: sweep clears what the map says, and its map is empty.
SweepLit == NoPatch
SweepAll == [clear |-> Tokens, set |-> None]

Dark == \A w \in Ws, t \in Tokens : screen[w][t] = 0

-----------------------------------------------------------------------------
Init ==
    /\ alive = Ws /\ wire = {} /\ clean = TRUE
    /\ screen = [w \in Ws |-> [t \in Tokens |-> 0]]
    /\ main = "exited" /\ sigt = "none" /\ stopping = FALSE /\ mutex = "free"
    /\ active = [w \in Ws |-> None] /\ lit = [w \in Ws |-> None]
    /\ plan = [w \in Ws |-> NoPatch] /\ todo = {}
    /\ sweeper = "idle" /\ swept = {} /\ settled = FALSE

Gone == main \in {"exited", "killed"}

\* The plan and the new map are locals of push, the clears of shutdown.
NoLocals ==
    /\ lit' = [w \in Ws |-> None]
    /\ plan' = [w \in Ws |-> NoPatch]
    /\ todo' = {}

\* One workspace.report_metadata that was confirmed.
Confirmed(w, p) ==
    /\ w \in alive
    /\ screen' = [screen EXCEPT ![w] = Merge(@, p)]
    /\ UNCHANGED <<wire, clean>>

\* One that was not: workspace_not_found, lost, applied without the client
\* learning of it, or left on the wire.
NotFound(w) == w \notin alive /\ UNCHANGED <<screen, wire, clean>>

Failed(w, p, kind) ==
    /\ kind \in Faults /\ w \in alive
    /\ clean' = FALSE
    /\ \/ UNCHANGED <<screen, wire>>
       \/ screen' = [screen EXCEPT ![w] = Merge(@, p)] /\ UNCHANGED wire
       \/ /\ "late" \in Faults /\ Cardinality(wire) < MaxLate
          /\ wire' = wire \cup {[w |-> w, p |-> p]}
          /\ UNCHANGED screen

Unconfirmed(w, p, kind) == NotFound(w) \/ Failed(w, p, kind)

-----------------------------------------------------------------------------
(* The main thread.                                                        *)

\* run: a new sampler, with an empty map whatever the screen shows.  CONTROL
\* keeps it from starting while --disable is at work.
Begin ==
    /\ Gone /\ sweeper \in {"idle", "ok", "failed"}
    /\ main' = "due" /\ sigt' = "none" /\ stopping' = FALSE
    /\ active' = [w \in Ws |-> None]
    /\ clean' = (clean \/ (Dark /\ wire = {}))
    /\ sweeper' = "idle" /\ settled' = FALSE
    /\ UNCHANGED <<alive, screen, wire, mutex, lit, plan, todo, swept>>

\* Mutant: the flag was read at the top of the loop, and that is enough.
StartPushBlind ==
    /\ main = "due" /\ mutex = "free"
    /\ mutex' = "main" /\ main' = "push"
    /\ \E wanted \in [Ws -> Tokens \cup {None}] :
         /\ plan' = [w \in Ws |-> PatchFor(active[w], wanted[w])]
         /\ todo' = Planned(wanted)
    /\ lit' = [w \in Ws |-> None]
    /\ UNCHANGED <<alive, screen, wire, sigt, stopping, active, disable,
                   clean>>

\* push: lock, re-read stopping, plan.  A workspace wants no token when its
\* badge renders empty and when this session did not report it.
StartPush ==
    /\ main = "due" /\ mutex = "free" /\ ~stopping
    /\ mutex' = "main" /\ main' = "push"
    /\ \E wanted \in [Ws -> Tokens \cup {None}] :
         /\ plan' = [w \in Ws |-> PatchFor(active[w], wanted[w])]
         /\ todo' = Planned(wanted)
    /\ lit' = [w \in Ws |-> None]
    /\ UNCHANGED <<alive, screen, wire, sigt, stopping, active, disable,
                   clean>>

\* The sample failed and there is nothing to push, or stopping was set.
SkipPush ==
    /\ main = "due"
    /\ main' = IF stopping THEN "parked" ELSE "nap"
    /\ UNCHANGED <<alive, screen, wire, sigt, stopping, mutex, active, lit,
                   plan, todo, disable, clean>>

\* Only a confirmed set is remembered as lit.  Any order of the workspaces.
ReportBadge(w) ==
    /\ main = "push" /\ w \in todo
    /\ todo' = todo \ {w}
    /\ \/ /\ Confirmed(w, plan[w])
          /\ lit' = [lit EXCEPT ![w] = plan[w].set]
       \/ /\ Unconfirmed(w, plan[w], "push")
          /\ UNCHANGED lit
    /\ UNCHANGED <<alive, main, sigt, stopping, mutex, active, plan, disable>>

\* Mutant: the guard outlives the push.
EndPushLocked ==
    /\ main = "push" /\ todo = {}
    /\ active' = lit
    /\ main' = "nap"
    /\ NoLocals
    /\ UNCHANGED <<alive, screen, wire, sigt, stopping, mutex, disable, clean>>

\* *active = lit, still under the guard that is dropped with it.
EndPush ==
    /\ main = "push" /\ todo = {}
    /\ active' = lit
    /\ mutex' = "free" /\ main' = "nap"
    /\ NoLocals
    /\ UNCHANGED <<alive, screen, wire, sigt, stopping, disable, clean>>

\* nap, then the top of the loop: park for good once stopping.
Wake ==
    /\ main = "nap"
    /\ main' = IF stopping THEN "parked" ELSE "due"
    /\ UNCHANGED <<alive, screen, wire, sigt, stopping, mutex, active, lit,
                   plan, todo, disable, clean>>

-----------------------------------------------------------------------------
(* The signal thread.                                                      *)

\* SIGTERM from anybody; the first one ends signals.forever().
Notice ==
    /\ ~Gone /\ sigt = "none"
    /\ stopping' = TRUE /\ sigt' = "stopping"
    /\ UNCHANGED <<alive, screen, wire, main, mutex, active, lit, plan, todo,
                   disable, clean>>

\* shutdown: lock, and connect or give the clears up.
StartShutdown ==
    /\ sigt = "stopping" /\ mutex = "free"
    /\ mutex' = "signal" /\ sigt' = "clearing"
    /\ plan' = [w \in Ws |-> ClearBadge(w)]
    /\ \/ todo' = {w \in Ws : active[w] # None} /\ UNCHANGED clean
       \/ /\ "clear" \in Faults
          /\ todo' = {} /\ clean' = FALSE
    /\ UNCHANGED <<alive, screen, wire, main, stopping, active, lit, disable>>

ClearOne(w) ==
    /\ sigt = "clearing" /\ w \in todo
    /\ todo' = todo \ {w}
    /\ Confirmed(w, plan[w]) \/ Unconfirmed(w, plan[w], "clear")
    /\ UNCHANGED <<alive, main, sigt, stopping, mutex, active, lit, plan,
                   disable>>

\* active.clear(), drop(active); the pid file; only then exit.
EndShutdown ==
    /\ sigt = "clearing" /\ todo = {}
    /\ active' = [w \in Ws |-> None]
    /\ mutex' = "free" /\ sigt' = "exiting"
    /\ NoLocals
    /\ UNCHANGED <<alive, screen, wire, main, stopping, disable, clean>>

\* The process is gone, with both threads and whatever they were doing.
Ended(how) ==
    /\ main' = how /\ sigt' = "none" /\ mutex' = "free"
    /\ active' = [w \in Ws |-> None]
    /\ stopping' = FALSE
    /\ NoLocals

Exit ==
    /\ sigt = "exiting"
    /\ Ended("exited")
    /\ UNCHANGED <<alive, screen, wire, disable, clean>>

Kill ==
    /\ "kill" \in Faults /\ ~Gone
    /\ Ended("killed")
    /\ clean' = FALSE
    /\ UNCHANGED <<alive, screen, wire, disable>>

-----------------------------------------------------------------------------
(* --disable, as far as the screen is concerned: it signals, it waits, it  *)
(* sweeps.                                                                 *)

\* request_stop, when there is a sampler to stop.
Disable ==
    /\ sweeper = "idle"
    /\ sweeper' = "waiting"
    /\ IF ~Gone /\ sigt = "none"
       THEN sigt' = "stopping" /\ stopping' = TRUE
       ELSE UNCHANGED <<sigt, stopping>>
    /\ UNCHANGED <<alive, screen, wire, main, mutex, active, lit, plan, todo,
                   swept, settled, clean>>

\* OWNER is free, or STOP_TIMEOUT is over; then herdr lists the workspaces.
StartSweep ==
    /\ sweeper = "waiting"
    /\ sweeper' = "sweeping" /\ swept' = alive
    /\ settled' = (Gone /\ wire = {})
    /\ UNCHANGED <<alive, screen, wire, daemon, clean>>

\* The stop failed, or herdr cannot be reached: --disable ends without a sweep.
NoSweep ==
    /\ "sweep" \in Faults /\ sweeper = "waiting"
    /\ sweeper' = "failed"
    /\ UNCHANGED <<alive, screen, wire, daemon, swept, settled, clean>>

\* One failed report does not keep the sweep from the next workspace.
SweepOne(w) ==
    /\ sweeper \in {"sweeping", "failing"} /\ w \in swept
    /\ swept' = swept \ {w}
    /\ \/ Confirmed(w, SweepAll) /\ UNCHANGED sweeper
       \/ Unconfirmed(w, SweepAll, "sweep") /\ sweeper' = "failing"
    /\ UNCHANGED <<alive, daemon, settled>>

EndSweep ==
    /\ sweeper \in {"sweeping", "failing"} /\ swept = {}
    /\ sweeper' = IF sweeper = "sweeping" THEN "ok" ELSE "failed"
    /\ UNCHANGED <<alive, screen, wire, daemon, swept, settled, clean>>

-----------------------------------------------------------------------------
(* herdr and its users.                                                    *)

\* An interval passes.
Tick ==
    /\ ~Dark
    /\ screen' = [w \in Ws |-> [t \in Tokens |->
                    IF screen[w][t] = 0 THEN 0 ELSE screen[w][t] - 1]]
    /\ UNCHANGED <<alive, wire, daemon, disable, clean>>

\* A workspace closes and takes its tokens along; later its id is used again.
Close(w) ==
    /\ w \in alive
    /\ alive' = alive \ {w}
    /\ screen' = [screen EXCEPT ![w] = [t \in Tokens |-> 0]]
    /\ UNCHANGED <<wire, daemon, disable, clean>>

Open(w) ==
    /\ w \notin alive
    /\ alive' = alive \cup {w}
    /\ UNCHANGED <<screen, wire, daemon, disable, clean>>

\* herdr gets to a request whose client is gone, or never does.
Arrive(r) ==
    /\ r \in wire
    /\ wire' = wire \ {r}
    /\ \/ /\ r.w \in alive
          /\ screen' = [screen EXCEPT ![r.w] = Merge(@, r.p)]
       \/ UNCHANGED screen
    /\ UNCHANGED <<alive, daemon, disable, clean>>

MainStep == Begin \/ StartPush \/ SkipPush \/ EndPush \/ Wake
            \/ \E w \in Ws : ReportBadge(w)
SignalStep == Notice \/ StartShutdown \/ EndShutdown \/ Exit
              \/ \E w \in Ws : ClearOne(w)
DisableStep == Disable \/ StartSweep \/ NoSweep \/ EndSweep
               \/ \E w \in Ws : SweepOne(w)
HerdrStep == Tick \/ (\E w \in Ws : Close(w) \/ Open(w))
             \/ \E r \in wire : Arrive(r)

Next == MainStep \/ SignalStep \/ DisableStep \/ HerdrStep \/ Kill

Spec == Init /\ [][Next]_vars

-----------------------------------------------------------------------------
\* Types, and the guard is held exactly where the code holds it.
TypeOK ==
    /\ alive \subseteq Ws
    /\ screen \in [Ws -> [Tokens -> 0..Ttl]]
    /\ wire \subseteq [w : Ws, p : Patch]
    /\ main \in {"due", "push", "nap", "parked", "exited", "killed"}
    /\ sigt \in {"none", "stopping", "clearing", "exiting"}
    /\ stopping \in BOOLEAN
    /\ mutex \in {"free", "main", "signal"}
    /\ active \in [Ws -> Tokens \cup {None}]
    /\ lit \in [Ws -> Tokens \cup {None}]
    /\ plan \in [Ws -> Patch] /\ todo \subseteq Ws
    /\ sweeper \in {"idle", "waiting", "sweeping", "failing", "ok", "failed"}
    /\ swept \subseteq Ws /\ settled \in BOOLEAN
    /\ clean \in BOOLEAN
    /\ mutex = "main" <=> main = "push"
    /\ mutex = "signal" <=> sigt = "clearing"
    /\ Gone => sigt = "none"

Shown(w) == {t \in Tokens : screen[w][t] > 0}

\* herdr never draws two badges for one workspace, not even for the moment of
\* a tone flip, as long as every report was confirmed (plan_for, batch).
OneBadge ==
    clean => \A w \in Ws : \A t, u \in Shown(w) : t = u

\* Whenever the guard is free, nothing is on the screen that the map does not
\* know, as long as every report was confirmed: shutdown, which clears what
\* the map knows, cannot miss a badge (push's assignment under the guard).
ScreenIsMap ==
    clean /\ mutex = "free" =>
        \A w \in Ws : Shown(w) \subseteq {active[w]}

\* The clears of shutdown are the last word on the wire: once the sampler has
\* exited nothing it lit is on the screen, whenever the signal came (push
\* re-reads stopping under the guard).
ExitIsDark == main = "exited" /\ clean => Dark

\* --disable that swept after the sampler was gone, and had every report
\* confirmed, leaves nothing lit, whatever happened before (sweep).
DisableIsDark == sweeper = "ok" /\ settled /\ Gone => Dark

\* The header of daemon.rs names three ways for a badge to outlive a sampler:
\* SIGKILL, a rejected clear, and --disable giving up.  Where none of them can
\* happen, and Faults is {"push"}, an exit leaves the screen dark.
ExitLeavesNothing ==
    main = "exited" => Dark
=============================================================================
