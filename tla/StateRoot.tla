------------------------------ MODULE StateRoot ------------------------------
(***************************************************************************)
(* The state root: which socket owns it (config.rs) and how the history    *)
(* kept in it is saved, loaded and forgotten (history.rs).                 *)
(*                                                                         *)
(* Processes of any number of sockets resolve the default at once, each    *)
(* with the HOME and XDG_CONFIG_HOME of its own shell.  Every file         *)
(* operation is a step, a process may be killed between any two, and what  *)
(* it leaves on disk is what the next one finds.                           *)
(***************************************************************************)
EXTENDS Naturals

CONSTANTS
  Proc,     \* the processes that can be running at one time
  Socket,   \* absolute socket pathnames
  Legacy,   \* whoever used the root before sockets were told apart
  None,     \* no file; nobody
  MaxEra    \* bound: how often the history is forgotten

(* A file: what was meant to be in it, and whether all of it was written.  *)
(* A history holds what `of` recorded since it was last forgotten.         *)
History == [of : SUBSET (Socket \cup {Legacy}), era : 0..MaxEra]
Whole(c) == [data |-> c, whole |-> TRUE]
Partial(c) == [data |-> c, whole |-> FALSE]
Files(C) == {Whole(c) : c \in C} \cup {Partial(c) : c \in C}

ASSUME NoneIsNobody ==
  /\ None \notin Proc \cup Socket \cup History
  /\ None \notin Files(Socket) \cup Files(History)
  /\ Legacy \notin Socket /\ MaxEra \in Nat

VARIABLES
  marker,     \* default.socket
  markerTemp, \* default.socket.tmp
  lock,       \* who holds default.socket.lock
  history,    \* history.json of the root
  temp,       \* history.json.tmp of the root
  marks,      \* enabled, sampler.pid or sampler.stop is in the root
  owner,      \* who has the root's history to itself (Lifecycle's OWNER, or
              \* CONTROL with OWNER free)
  at,         \* what each process is about to do
  sock,       \* its socket, while it runs
  claim,      \* what its environment says: "no", or the default socket, which
              \* a command ("user") may record and a daemon may not
  mem,        \* the history a running sampler has in memory
  era         \* ghost: how often the history has been forgotten

resolving == <<marker, markerTemp, lock>>
keeping   == <<history, temp, marks, owner, mem, era>>
asking    == <<sock, claim>>
vars == <<resolving, keeping, asking, at>>

Resolving == {"look", "lock", "relook", "create", "write", "rename", "claimed"}
Locked    == {"relook", "create", "write", "rename", "claimed"}
InRoot    == {"root", "sampling", "saveWrite", "saveRename", "forget",
              "forgetTemp"}
Pc == {"idle", "scoped"} \cup Resolving \cup InRoot

Init ==
  /\ marker = None /\ markerTemp = None /\ lock = None
  /\ history \in {None, Whole([of |-> {Legacy}, era |-> 0])}
  /\ temp \in {None, Partial([of |-> {Legacy}, era |-> 0])}
  /\ marks \in BOOLEAN
  /\ owner = None /\ era = 0
  /\ at = [p \in Proc |-> "idle"]
  /\ sock = [p \in Proc |-> None]
  /\ claim = [p \in Proc |-> "no"]
  /\ mem = [p \in Proc |-> None]

Goes(p, pc) == at' = [at EXCEPT ![p] = pc]

---------------------------------------------------------------------------
(* stable_default_classification *)

Resolve(p, s, c) ==
  /\ at[p] = "idle"
  /\ sock' = [sock EXCEPT ![p] = s]
  /\ claim' = [claim EXCEPT ![p] = c]
  /\ Goes(p, "look")
  /\ UNCHANGED <<resolving, keeping>>

(* read_default_marker, before the lock: a marker is the answer; an empty  *)
(* one would be an error.                                                  *)
Answered(p) == marker # None
Answer(p) == IF marker = Whole(sock[p]) THEN "root" ELSE "scoped"

Look(p) ==
  /\ at[p] = "look"
  /\ Goes(p, IF Answered(p) THEN Answer(p) ELSE "lock")
  /\ UNCHANGED <<resolving, keeping, asking>>

\* Mutant: nothing excludes another first process.
LockBlind(p) ==
  /\ at[p] = "lock"
  /\ Goes(p, "relook")
  /\ lock' = p
  /\ UNCHANGED <<marker, markerTemp, keeping, asking>>

(* lock_default_marker *)
Lock(p) ==
  /\ at[p] = "lock"
  /\ lock = None
  /\ lock' = p
  /\ Goes(p, "relook")
  /\ UNCHANGED <<marker, markerTemp, keeping, asking>>

Unlock(p) == lock' = IF lock = p THEN None ELSE lock

(* A process that is gone holds nothing. *)
Exits(p) ==
  /\ Goes(p, "idle")
  /\ Unlock(p)
  /\ owner' = IF owner = p THEN None ELSE owner
  /\ sock' = [sock EXCEPT ![p] = None]
  /\ claim' = [claim EXCEPT ![p] = "no"]
  /\ mem' = [mem EXCEPT ![p] = None]

Unscoped == history # None \/ temp # None \/ marks

\* Mutant: the marker read before the lock is believed.
RelookNot(p) ==
  /\ at[p] = "relook"
  /\ IF claim[p] = "user"
       THEN Goes(p, "create") /\ UNCHANGED lock
       ELSE /\ Goes(p, IF Answered(p) THEN Answer(p) ELSE "scoped")
            /\ Unlock(p)
  /\ UNCHANGED <<marker, markerTemp, keeping, asking>>

(* The marker again, under the lock.  A command whose environment says     *)
(* default records it; a daemon that would have to is refused, and so is   *)
(* any other socket while state of nobody's is in the root (Ends).         *)
Relook(p) ==
  /\ at[p] = "relook"
  /\ \/ marker # None /\ Goes(p, Answer(p)) /\ Unlock(p)
     \/ marker = None /\ claim[p] = "user" /\ Goes(p, "create") /\ UNCHANGED lock
     \/ /\ marker = None /\ claim[p] = "no" /\ ~Unscoped
        /\ Goes(p, "scoped") /\ Unlock(p)
  /\ UNCHANGED <<marker, markerTemp, keeping, asking>>

(* A temporary a dead process left is removed first. *)
CreateMarker(p) ==
  /\ at[p] = "create"
  /\ markerTemp' = Partial(sock[p])
  /\ Goes(p, "write")
  /\ UNCHANGED <<marker, lock, keeping, asking>>

WriteMarker(p) ==
  /\ at[p] = "write"
  /\ markerTemp' = Whole(sock[p])
  /\ Goes(p, "rename")
  /\ UNCHANGED <<marker, lock, keeping, asking>>

RenameMarker(p) ==
  /\ at[p] = "rename"
  /\ marker' = markerTemp
  /\ markerTemp' = None
  /\ Goes(p, "claimed")
  /\ UNCHANGED <<lock, keeping, asking>>

Claimed(p) ==
  /\ at[p] = "claimed"
  /\ Goes(p, "root")
  /\ Unlock(p)
  /\ UNCHANGED <<marker, markerTemp, keeping, asking>>

MarkerFails(p) ==
  /\ at[p] \in {"create", "write", "rename", "claimed"}
  /\ markerTemp' = None
  /\ Exits(p)
  /\ UNCHANGED <<marker, history, temp, marks, era>>

---------------------------------------------------------------------------
(* The history of the root.  Lifecycle shows that a sampler has it to      *)
(* itself, and --forget finds none running.                                *)

Owns(p, pc) ==
  /\ at[p] = "root" /\ owner = None
  /\ owner' = p
  /\ Goes(p, pc)

\* Mutant: the loader brings back a temporary it finds alone.
LoadRecovers(p) ==
  /\ Owns(p, "sampling")
  /\ marks' = TRUE
  /\ mem' = [mem EXCEPT ![p] =
               LET found == IF history = None THEN temp ELSE history
               IN  IF found # None /\ found.whole THEN found.data
                   ELSE [of |-> {}, era |-> era]]
  /\ UNCHANGED <<resolving, asking, history, temp, era>>

(* load_from: no file, or one that does not parse, is an empty history. *)
Load(p) ==
  /\ Owns(p, "sampling")
  /\ marks' = TRUE
  /\ mem' = [mem EXCEPT ![p] =
               IF history # None /\ history.whole THEN history.data
               ELSE [of |-> {}, era |-> era]]
  /\ UNCHANGED <<resolving, asking, history, temp, era>>

(* save_to: the temporary, its bytes, the rename. *)
SaveCreate(p) ==
  /\ at[p] = "sampling"
  /\ mem' = [mem EXCEPT ![p] = [of |-> @.of \cup {sock[p]}, era |-> @.era]]
  /\ temp' = Partial(mem'[p])
  /\ Goes(p, "saveWrite")
  /\ UNCHANGED <<resolving, asking, history, marks, owner, era>>

\* Mutant: the bytes go straight into history.json.
SaveWriteInPlace(p) ==
  /\ at[p] = "saveWrite"
  /\ temp' = Whole(mem[p])
  /\ history' = Partial(mem[p])
  /\ Goes(p, "saveRename")
  /\ UNCHANGED <<resolving, asking, marks, owner, mem, era>>

SaveWrite(p) ==
  /\ at[p] = "saveWrite"
  /\ temp' = Whole(mem[p])
  /\ Goes(p, "saveRename")
  /\ UNCHANGED <<resolving, asking, history, marks, owner, mem, era>>

SaveRename(p) ==
  /\ at[p] = "saveRename"
  /\ history' = temp
  /\ temp' = None
  /\ Goes(p, "sampling")
  /\ UNCHANGED <<resolving, asking, marks, owner, mem, era>>

(* Never fatal: the temporary goes, the sampler goes on. *)
SaveFails(p) ==
  /\ at[p] \in {"saveWrite", "saveRename"}
  /\ temp' = None
  /\ Goes(p, "sampling")
  /\ UNCHANGED <<resolving, asking, history, marks, owner, mem, era>>

Forget(p) ==
  /\ era < MaxEra
  /\ Owns(p, "forget")
  /\ UNCHANGED <<resolving, asking, history, temp, marks, mem, era>>

(* forget_in: history.json, then history.json.tmp. *)
ForgetHistory(p) ==
  /\ at[p] = "forget"
  /\ history' = None
  /\ era' = era + 1
  /\ Goes(p, "forgetTemp")
  /\ UNCHANGED <<resolving, asking, temp, marks, owner, mem>>

ForgetTemp(p) ==
  /\ at[p] = "forgetTemp"
  /\ temp' = None
  /\ owner' = None
  /\ Goes(p, "root")
  /\ UNCHANGED <<resolving, asking, history, marks, mem, era>>

(* The process ends: it is done, an error is returned, or it is killed.    *)
Ends(p) ==
  /\ at[p] # "idle"
  /\ Exits(p)
  /\ UNCHANGED <<marker, markerTemp, history, temp, marks, era>>

Step(p) ==
  \/ \E s \in Socket, c \in {"no", "user", "daemon"} : Resolve(p, s, c)
  \/ Look(p)         \/ Lock(p)         \/ Relook(p)    \/ CreateMarker(p)
  \/ WriteMarker(p)  \/ RenameMarker(p) \/ Claimed(p)   \/ MarkerFails(p)
  \/ Load(p)         \/ SaveCreate(p)   \/ SaveWrite(p) \/ SaveRename(p)
  \/ SaveFails(p)    \/ Forget(p)       \/ ForgetHistory(p)
  \/ ForgetTemp(p)   \/ Ends(p)

Next == \E p \in Proc : Step(p)

Spec == Init /\ [][Next]_vars

---------------------------------------------------------------------------
(* Properties *)

(* What every process is told about its socket, and the marker, are what   *)
(* Namespace allows: the default is decided once, whoever races for it,    *)
(* and nobody is in the root but its processes.                            *)
Told(p) == IF at[p] \in InRoot THEN [socket |-> sock[p], root |-> TRUE]
           ELSE IF at[p] = "scoped" THEN [socket |-> sock[p], root |-> FALSE]
           ELSE None
Root == INSTANCE Namespace
          WITH default <- IF marker = None THEN None ELSE marker.data,
               answer  <- [p \in Proc |-> Told(p)]
DecidedOnce == Root!Spec

(* The root's history, on disk, half written or in memory, was recorded at *)
(* the socket its marker names, or before there was one.                   *)
OneTenant ==
  \A c \in ({mem[p] : p \in Proc} \ {None})
           \cup {f.data : f \in {history, temp} \ {None}} :
    c.of \subseteq {Legacy} \cup (IF marker = None THEN {} ELSE {marker.data})

(* However a process dies, the files that are read are whole: history.json *)
(* is one complete save and default.socket one complete pathname.          *)
WholeFiles == \A f \in {history, marker} \ {None} : f.whole

(* What was forgotten is never loaded again, not from a temporary left by  *)
(* a save that died and a --forget that was killed after its first file.   *)
ForgottenStaysGone ==
  /\ history # None => history.data.era = era
  /\ \A p \in Proc : at[p] \in {"sampling", "saveWrite", "saveRename"} =>
                       mem[p].era = era
=============================================================================
