------------------------------- MODULE Setup -------------------------------
(***************************************************************************)
(* `pulse --setup` and `pulse --setup-rollback` (setup.rs): the edit of    *)
(* herdr's config.toml, a file the plugin does not own, as a transaction   *)
(* over three files: the config, a backup of it published by hard_link,    *)
(* and a metadata file holding the original and the installed text and     *)
(* whether herdr has reloaded since.                                       *)
(*                                                                         *)
(* Every file operation is a step.  Nothing locks: any number of commands  *)
(* run at once, the user edits the config whenever he likes, and a command *)
(* may be killed, or return an I/O error, between any two steps.           *)
(***************************************************************************)

CONSTANTS
  Proc,     \* the commands that can be running at one time
  Text,     \* what the user may have written in config.toml
  NoRow,    \* the texts whose section has no row to splice into
  None      \* no file; no value

ASSUME NoRowIsText == NoRow \subseteq Text

(* A config: the user's text and the token entries in it, none of them,    *)
(* exactly those plan_edit splices in, or some the user wrote or altered.  *)
Content == [text : Text, tokens : {"none", "planned", "handmade"}]

SetupTransaction ==
  [original : Content, installed : Content, reloaded : BOOLEAN]

ASSUME NoneIsNoFile == None \notin Content \cup SetupTransaction

VARIABLES
  config,   \* config.toml
  backup,   \* config.toml.pulse-backup
  metadata, \* config.toml.pulse-backup.meta
  shown,    \* the config herdr last loaded
  at,       \* what each command is about to do
  read,     \* the config as the command read it
  original, \* its `original`
  installed,\* its `installed`
  last,     \* the text the user last wrote
  ours,     \* setup wrote the config and the user left it alone since
  edited,   \* the user has edited the config while a command ran
  crowded   \* two commands have run at once

files  == <<config, backup, metadata>>
locals == <<read, original, installed>>
ghosts == <<last, ours, edited, crowded>>
vars   == <<files, shown, at, locals, ghosts>>

---------------------------------------------------------------------------
(* plan_edit *)

AlreadyConfigured(c) == c.tokens # "none"
Editable(c) == ~AlreadyConfigured(c) /\ c.text \notin NoRow
Edit(c) == [text |-> c.text, tokens |-> "planned"]

(* load_transaction, for a command that has read the backup as `o`.  A     *)
(* backup without metadata is a legacy one, kept only after a reload.      *)
Loadable(o) == IF metadata = None THEN Editable(o) ELSE metadata.original = o
LoadedInstalled(o) == IF metadata = None THEN Edit(o) ELSE metadata.installed
LoadedReloaded == metadata = None \/ metadata.reloaded

Pc == {"idle", "fresh", "mkBackup", "mkMeta", "unBackup", "install", "reload",
       "configured", "load", "reloadPending", "mark", "markWrite", "restore",
       "rmMeta", "rmBackup", "rbBackup", "rbLoad", "rbReplace", "rbReload",
       "reinstall"}

Busy == \E p \in Proc : at[p] # "idle"

(* A fresh config, or one installed by a version that wrote no metadata.   *)
Init ==
  /\ config \in Content
  /\ shown = config
  /\ \/ backup = None /\ ours = FALSE
     \/ /\ ours = TRUE
        /\ backup \in {c \in Content : Editable(c) /\ Edit(c) = config}
  /\ metadata = None
  /\ at = [p \in Proc |-> "idle"]
  /\ read = [p \in Proc |-> None]
  /\ original = [p \in Proc |-> None]
  /\ installed = [p \in Proc |-> None]
  /\ last = config.text
  /\ edited = FALSE
  /\ crowded = FALSE

Goes(p, pc) == at' = [at EXCEPT ![p] = pc]
Begins(p, pc) ==
  /\ at[p] = "idle"
  /\ Goes(p, pc)
  /\ crowded' = (crowded \/ Busy)
  /\ UNCHANGED <<files, shown, last, ours, edited>>

(* A command that returns forgets what it read. *)
Returns(p) ==
  /\ Goes(p, "idle")
  /\ read' = [read EXCEPT ![p] = None]
  /\ original' = [original EXCEPT ![p] = None]
  /\ installed' = [installed EXCEPT ![p] = None]

---------------------------------------------------------------------------
(* run_setup *)

SetupPlansEdit(p) ==
  /\ Begins(p, "fresh")
  /\ Editable(config)
  /\ original' = [original EXCEPT ![p] = config]
  /\ installed' = [installed EXCEPT ![p] = Edit(config)]
  /\ UNCHANGED read

SetupFindsTokens(p) ==
  /\ Begins(p, "configured")
  /\ AlreadyConfigured(config)
  /\ read' = [read EXCEPT ![p] = config]
  /\ UNCHANGED <<original, installed>>

(* Recovery files already there are never overwritten. *)
Fresh(p) ==
  /\ at[p] = "fresh"
  /\ IF backup = None /\ metadata = None
       THEN Goes(p, "mkBackup") /\ UNCHANGED locals
       ELSE Returns(p)
  /\ UNCHANGED <<files, shown, ghosts>>

\* Mutant: the backup replaces whatever has its name.
MkBackupClobbers(p) ==
  /\ at[p] = "mkBackup"
  /\ backup' = original[p]
  /\ Goes(p, "mkMeta")
  /\ UNCHANGED <<config, metadata, shown, locals, ghosts>>

(* atomic_create_new: hard_link fails on a name that exists. *)
MkBackup(p) ==
  /\ at[p] = "mkBackup"
  /\ IF backup = None
       THEN backup' = original[p] /\ Goes(p, "mkMeta") /\ UNCHANGED locals
       ELSE Returns(p) /\ UNCHANGED backup
  /\ UNCHANGED <<config, metadata, shown, ghosts>>

\* Mutant: the transaction is recorded as already reloaded.
MkMetaDone(p) ==
  /\ at[p] = "mkMeta"
  /\ \/ /\ metadata = None
        /\ metadata' = [original |-> original[p], installed |-> installed[p],
                        reloaded |-> TRUE]
        /\ Goes(p, "install")
     \/ Goes(p, "unBackup") /\ UNCHANGED metadata
  /\ UNCHANGED <<config, backup, shown, locals, ghosts>>

MkMeta(p) ==
  /\ at[p] = "mkMeta"
  /\ \/ /\ metadata = None
        /\ metadata' = [original |-> original[p], installed |-> installed[p],
                        reloaded |-> FALSE]
        /\ at' \in {[at EXCEPT ![p] = "install"], [at EXCEPT ![p] = "unBackup"]}
     \/ Goes(p, "unBackup") /\ UNCHANGED metadata
  /\ UNCHANGED <<config, backup, shown, locals, ghosts>>

UnBackup(p) ==
  /\ at[p] = "unBackup"
  /\ backup' = None
  /\ Returns(p)
  /\ UNCHANGED <<config, metadata, shown, ghosts>>

(* atomic_replace of the config, with no look at what it replaces. *)
Replace(bytes) ==
  /\ config' = bytes
  /\ UNCHANGED <<backup, metadata, shown, last, edited, crowded>>

\* Mutant: the wrong one of the three texts is written.
InstallRead(p) ==
  /\ at[p] = "install"
  /\ Replace(read[p])
  /\ ours' = TRUE
  /\ Goes(p, "reload")
  /\ UNCHANGED locals

Install(p) ==
  /\ at[p] = "install"
  /\ Replace(installed[p])
  /\ ours' = TRUE
  /\ Goes(p, "reload")
  /\ UNCHANGED locals

---------------------------------------------------------------------------
(* finish_setup_reload *)

ReloadOk(p) ==
  /\ at[p] \in {"reload", "reloadPending"}
  /\ shown' = config
  /\ Goes(p, "mark")
  /\ UNCHANGED <<files, locals, ghosts>>

\* Mutant: the recovery files go before the config is back.
RejectedCleansFirst(p) ==
  /\ at[p] = "reload"
  /\ Goes(p, "rmMeta")
  /\ UNCHANGED <<files, shown, locals, ghosts>>

(* herdr keeps what it shows; a fresh install is taken back, a pending one *)
(* is left as it is, and that command returns (Stops).                     *)
Rejected(p) ==
  /\ at[p] = "reload"
  /\ Goes(p, "restore")
  /\ UNCHANGED <<files, shown, locals, ghosts>>

Restore(p) ==
  /\ at[p] = "restore"
  /\ Replace(original[p])
  /\ UNCHANGED ours
  /\ Goes(p, "rmMeta")
  /\ UNCHANGED locals

(* mark_transaction_reloaded: read, then replace whatever is there. *)
Mark(p) ==
  /\ at[p] = "mark"
  /\ IF metadata = None
       THEN Returns(p)
       ELSE /\ original' = [original EXCEPT ![p] = metadata.original]
            /\ installed' = [installed EXCEPT ![p] = metadata.installed]
            /\ Goes(p, "markWrite")
            /\ UNCHANGED read
  /\ UNCHANGED <<files, shown, ghosts>>

MarkWrite(p) ==
  /\ at[p] = "markWrite"
  /\ metadata' = [original |-> original[p], installed |-> installed[p],
                  reloaded |-> TRUE]
  /\ Returns(p)
  /\ UNCHANGED <<config, backup, shown, ghosts>>

(* remove_transaction: metadata first. *)
RmMeta(p) ==
  /\ at[p] = "rmMeta"
  /\ metadata' = None
  /\ Goes(p, "rmBackup")
  /\ UNCHANGED <<config, backup, shown, locals, ghosts>>

RmBackup(p) ==
  /\ at[p] = "rmBackup"
  /\ backup' = None
  /\ Returns(p)
  /\ UNCHANGED <<config, metadata, shown, ghosts>>

---------------------------------------------------------------------------
(* A setup that found tokens: its own, pending, or somebody else's *)

ReadsBackup(p, from, to) ==
  /\ at[p] = from
  /\ IF backup = None
       THEN Returns(p)
       ELSE /\ original' = [original EXCEPT ![p] = backup]
            /\ Goes(p, to)
            /\ UNCHANGED <<read, installed>>
  /\ UNCHANGED <<files, shown, ghosts>>

Configured(p) == ReadsBackup(p, "configured", "load")

Load(p) ==
  /\ at[p] = "load"
  /\ IF /\ Loadable(original[p])
        /\ LoadedInstalled(original[p]) = read[p]
        /\ ~LoadedReloaded
       THEN Goes(p, "reloadPending") /\ UNCHANGED locals
       ELSE Returns(p)
  /\ UNCHANGED <<files, shown, ghosts>>

---------------------------------------------------------------------------
(* run_rollback *)

RollbackReads(p) ==
  /\ Begins(p, "rbBackup")
  /\ backup # None
  /\ read' = [read EXCEPT ![p] = config]
  /\ UNCHANGED <<original, installed>>

RollbackBackup(p) == ReadsBackup(p, "rbBackup", "rbLoad")

\* Mutant: a config changed since setup is restored over.
RollbackLoadTrusts(p) ==
  /\ at[p] = "rbLoad"
  /\ Loadable(original[p])
  /\ installed' = [installed EXCEPT ![p] = LoadedInstalled(original[p])]
  /\ Goes(p, "rbReplace")
  /\ UNCHANGED <<read, original, files, shown, ghosts>>

(* Nothing to restore, or a config changed since setup, or the rollback. *)
RollbackLoad(p) ==
  /\ at[p] = "rbLoad"
  /\ IF Loadable(original[p])
       THEN \/ /\ read[p] = original[p]
               /\ Goes(p, "rmMeta")
               /\ UNCHANGED locals
            \/ /\ read[p] # original[p]
               /\ read[p] # LoadedInstalled(original[p])
               /\ Returns(p)
            \/ /\ read[p] # original[p]
               /\ read[p] = LoadedInstalled(original[p])
               /\ installed' = [installed EXCEPT ![p] = LoadedInstalled(original[p])]
               /\ Goes(p, "rbReplace")
               /\ UNCHANGED <<read, original>>
       ELSE Returns(p)
  /\ UNCHANGED <<files, shown, ghosts>>

RollbackReplace(p) ==
  /\ at[p] = "rbReplace"
  /\ Replace(original[p])
  /\ UNCHANGED ours
  /\ Goes(p, "rbReload")
  /\ UNCHANGED locals

RollbackReloadOk(p) ==
  /\ at[p] = "rbReload"
  /\ shown' = config
  /\ Goes(p, "rmMeta")
  /\ UNCHANGED <<files, locals, ghosts>>

RollbackRejected(p) ==
  /\ at[p] = "rbReload"
  /\ Goes(p, "reinstall")
  /\ UNCHANGED <<files, shown, locals, ghosts>>

Reinstall(p) ==
  /\ at[p] = "reinstall"
  /\ Replace(installed[p])
  /\ UNCHANGED ours
  /\ Returns(p)

---------------------------------------------------------------------------
(* A command is killed, or an operation of it fails and it returns the     *)
(* error, before or after that operation took effect; a herdr that cannot  *)
(* be launched, and one that rejects a pending reload, end here too.       *)
Stops(p) ==
  /\ at[p] # "idle"
  /\ Returns(p)
  /\ UNCHANGED <<files, shown, ghosts>>

(* The user writes the config: other text, with the tokens left in, taken  *)
(* out or reworked; or deletes the recovery files once no command runs.    *)
UserEdits ==
  /\ config' \in {c \in Content : c.tokens \in {"none", "handmade", config.tokens}}
  /\ config' # config
  /\ last' = config'.text
  /\ ours' = FALSE
  /\ edited' = (edited \/ Busy)
  /\ UNCHANGED <<backup, metadata, shown, at, locals, crowded>>

UserTidies ==
  /\ ~Busy
  /\ backup' = None
  /\ metadata' = None
  /\ ours' = FALSE
  /\ UNCHANGED <<config, shown, at, locals, last, edited, crowded>>

HerdrRestarts ==
  /\ ~Busy
  /\ shown' = config
  /\ UNCHANGED <<files, at, locals, ghosts>>

Step(p) ==
  \/ SetupPlansEdit(p)    \/ SetupFindsTokens(p) \/ Fresh(p)
  \/ MkBackup(p)          \/ MkMeta(p)           \/ UnBackup(p)
  \/ Install(p)           \/ ReloadOk(p)         \/ Rejected(p)
  \/ Restore(p)           \/ Mark(p)             \/ MarkWrite(p)
  \/ RmMeta(p)            \/ RmBackup(p)         \/ Configured(p)
  \/ Load(p)              \/ RollbackReads(p)    \/ RollbackBackup(p)
  \/ RollbackLoad(p)      \/ RollbackReplace(p)  \/ RollbackReloadOk(p)
  \/ RollbackRejected(p)  \/ Reinstall(p)        \/ Stops(p)

Next == (\E p \in Proc : Step(p)) \/ UserEdits \/ UserTidies \/ HerdrRestarts

Spec == Init /\ [][Next]_vars

---------------------------------------------------------------------------
(* Properties *)

(* Every variable has its type. *)
TypeOK ==
  /\ config \in Content /\ shown \in Content
  /\ backup \in Content \cup {None}
  /\ metadata \in SetupTransaction \cup {None}
  /\ at \in [Proc -> Pc]
  /\ read \in [Proc -> Content \cup {None}]
  /\ original \in [Proc -> Content \cup {None}]
  /\ installed \in [Proc -> Content \cup {None}]
  /\ last \in Text
  /\ ours \in BOOLEAN /\ edited \in BOOLEAN /\ crowded \in BOOLEAN

(* However setups and rollbacks interleave, and wherever they stop, the    *)
(* config holds what the user last wrote, as long as he does not write it  *)
(* while a command is running (setup.rs: rollback refuses if anything      *)
(* changed after setup).                                                   *)
UserTextKept == ~edited => config.text = last

(* Setup's tokens are in, nothing runs, and commands came one at a time.   *)
Installed ==
  ours /\ AlreadyConfigured(config) /\ ~Busy /\ ~crowded /\ ~edited

(* Tokens setup put in can always be taken out again: whenever no command  *)
(* runs, whatever stopped where, a rollback would read a backup it can     *)
(* load, find the config to be the one installed, and restore that text    *)
(* without the tokens (with one command at a time).                        *)
Recoverable ==
  Installed =>
    /\ backup # None
    /\ Loadable(backup)
    /\ LoadedInstalled(backup) = config
    /\ backup = [text |-> config.text, tokens |-> "none"]

(* A setup is never taken for finished before herdr shows it: with the     *)
(* tokens installed, a transaction that says reloaded, or a backup with    *)
(* none, means herdr has loaded this very config (one command at a time).  *)
(* Otherwise the next --setup would report nothing to do.                  *)
PendingUntilShown == Installed /\ LoadedReloaded => shown = config

(* A recovery point is never overwritten: until it is deleted, the backup  *)
(* holds what it was published with, with any number of commands running   *)
(* and the user editing all the while.                                     *)
BackupKept == [][backup # None => backup' \in {backup, None}]_vars
=============================================================================
