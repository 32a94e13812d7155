---------------------------- MODULE SetupProofs ----------------------------
(* The setup transaction, for any number of commands and any texts.        *)
(*                                                                         *)
(* Three invariants, each on top of the one before.  Sound says what the   *)
(* locals of a command and the metadata hold, whatever interleaves: an     *)
(* editable original and the edit of it.  From it follows that nothing a   *)
(* command writes differs from what it read but in the tokens, so the      *)
(* user's text survives (TextHeld).  Calm follows one command at a time    *)
(* through the steps of a transaction, and keeps, between any two of them, *)
(* what the next rollback and the next setup will rely on.                 *)
EXTENDS Setup, TLAPS

Holding == {"fresh", "mkBackup", "mkMeta", "install", "reload", "restore",
            "markWrite", "rbReplace", "rbReload", "reinstall"}
Reading == {"configured", "load", "rbBackup", "rbLoad"}
Loading == {"load", "rbLoad"}

(* What the metadata and a command's locals hold at each step. *)
Sound ==
  /\ metadata # None =>
       Editable(metadata.original) /\ metadata.installed =
             Edit(metadata.original)
  /\ \A p \in Proc :
       /\ at[p] \in Holding => /\ original[p] \in Content
                               /\ Editable(original[p])
                               /\ installed[p] = Edit(original[p])
       /\ at[p] \in Reading => read[p] \in Content
       /\ at[p] \in Loading => original[p] \in Content

(* What a command is about to write is the user's text. *)
Writing == Holding \ {"markWrite"}
TextHeld ==
  ~edited => /\ config.text = last
             /\ \A p \in Proc :
                  /\ at[p] \in Writing => original[p].text = last
                  /\ at[p] \in {"rbBackup", "rbLoad"} => read[p].text = last

(* One command at a time, and no edit while it ran. *)
Alone == \A p, q \in Proc : at[p] # "idle" /\ at[q] # "idle" => p = q
Ready == /\ backup # None
         /\ Editable(backup)
         /\ config = Edit(backup)
         /\ metadata = None \/ metadata.original = backup
Ours  == ours /\ AlreadyConfigured(config)
(* Where each step of a transaction finds the files. *)
Stage(p) ==
  /\ at[p] \in {"fresh", "mkBackup", "mkMeta", "unBackup", "install"} =>
       ~AlreadyConfigured(config)
  /\ at[p] \in {"mkBackup", "mkMeta"} => metadata = None
  /\ at[p] \in {"mkMeta", "install"} =>
       backup = original[p]
  /\ at[p] = "install" => /\ metadata # None
                          /\ metadata.original = original[p]
                          /\ ~metadata.reloaded
  /\ at[p] \in {"rbBackup", "rbLoad"} => read[p] = config
  /\ at[p] = "rbLoad" => backup = original[p]
  /\ at[p] \in {"rbReplace", "rbReload", "reinstall"} =>
       backup = original[p] /\ (metadata = None \/ metadata.original = backup)
  /\ at[p] = "rbReplace" => config = installed[p]
  /\ at[p] \in {"rbReload", "reinstall"} /\ ours /\ LoadedReloaded =>
       shown = installed[p]
  /\ at[p] \in {"rmMeta", "rmBackup", "rbReload", "reinstall"} =>
       ~AlreadyConfigured(config)
  /\ at[p] \in {"mark", "markWrite"} => shown = config
  /\ at[p] = "markWrite" => metadata # None /\ metadata.original = original[p]
Calm ==
  ~crowded =>
    /\ Alone
    /\ ~edited => /\ Ours => Ready
                  /\ Ours /\ LoadedReloaded => shown = config
                  /\ \A p \in Proc : Stage(p)

-----------------------------------------------------------------------------
(* A metadata file made of two configs and a flag. *)
LEMMA Recorded ==
  ASSUME NEW o \in Content, NEW i \in Content, NEW r \in BOOLEAN
  PROVE  [original |-> o, installed |-> i, reloaded |-> r] \in SetupTransaction
  BY DEF SetupTransaction

LEMMA InitTypeOK == Init => TypeOK
  BY DEF Init, TypeOK, Content, Pc

LEMMA InitSound == Init => Sound
  BY DEF Init, Sound, Holding, Reading, Loading

(* Every step keeps the types; the locals are the edits they should be.    *)
LEMMA TypeStep ==
  ASSUME TypeOK, Sound, [Next]_vars PROVE TypeOK'
<1> USE NoRowIsText, NoneIsNoFile DEF TypeOK, Sound, Pc, Content,
      SetupTransaction, Edit, files, locals, ghosts, Holding, Reading, Loading
<1>SetupPlansEdit. ASSUME NEW p \in Proc, SetupPlansEdit(p) PROVE TypeOK'
  BY <1>SetupPlansEdit DEF SetupPlansEdit, Begins, Goes
<1>SetupFindsTokens. ASSUME NEW p \in Proc, SetupFindsTokens(p) PROVE TypeOK'
  BY <1>SetupFindsTokens DEF SetupFindsTokens, Begins, Goes
<1>Fresh. ASSUME NEW p \in Proc, Fresh(p) PROVE TypeOK'
  BY <1>Fresh DEF Fresh, Goes, Returns
<1>MkBackup. ASSUME NEW p \in Proc, MkBackup(p) PROVE TypeOK'
  BY <1>MkBackup DEF MkBackup, Goes, Returns
<1>MkMeta. ASSUME NEW p \in Proc, MkMeta(p) PROVE TypeOK'
  <2>1. original[p] \in Content /\ installed[p] \in Content
    BY <1>MkMeta DEF MkMeta
  <2>2. metadata' \in SetupTransaction \cup {None}
    <3>1. [original |-> original[p], installed |-> installed[p],
           reloaded |-> FALSE] \in SetupTransaction
      BY <2>1, Recorded
    <3> QED
      BY <1>MkMeta, <3>1 DEF MkMeta
  <2>3. at' \in [Proc -> Pc]
    BY <1>MkMeta DEF MkMeta, Goes
  <2> QED
    BY <1>MkMeta, <2>2, <2>3 DEF MkMeta
<1>UnBackup. ASSUME NEW p \in Proc, UnBackup(p) PROVE TypeOK'
  BY <1>UnBackup DEF UnBackup, Goes, Returns
<1>Install. ASSUME NEW p \in Proc, Install(p) PROVE TypeOK'
  BY <1>Install DEF Install, Goes, Returns, Replace
<1>ReloadOk. ASSUME NEW p \in Proc, ReloadOk(p) PROVE TypeOK'
  BY <1>ReloadOk DEF ReloadOk, Goes, Returns
<1>Rejected. ASSUME NEW p \in Proc, Rejected(p) PROVE TypeOK'
  BY <1>Rejected DEF Rejected, Goes, Returns
<1>Restore. ASSUME NEW p \in Proc, Restore(p) PROVE TypeOK'
  BY <1>Restore DEF Restore, Goes, Returns, Replace
<1>Mark. ASSUME NEW p \in Proc, Mark(p) PROVE TypeOK'
  BY <1>Mark DEF Mark, Goes, Returns
<1>MarkWrite. ASSUME NEW p \in Proc, MarkWrite(p) PROVE TypeOK'
  BY <1>MarkWrite DEF MarkWrite, Goes, Returns
<1>RmMeta. ASSUME NEW p \in Proc, RmMeta(p) PROVE TypeOK'
  BY <1>RmMeta DEF RmMeta, Goes, Returns
<1>RmBackup. ASSUME NEW p \in Proc, RmBackup(p) PROVE TypeOK'
  BY <1>RmBackup DEF RmBackup, Goes, Returns
<1>Configured. ASSUME NEW p \in Proc, Configured(p) PROVE TypeOK'
  <2>1. original' \in [Proc -> Content \cup {None}]
    BY <1>Configured DEF Configured, ReadsBackup, Goes, Returns
  <2>2. at' \in [Proc -> Pc]
    BY <1>Configured DEF Configured, ReadsBackup, Goes, Returns
  <2>3. /\ read' \in [Proc -> Content \cup {None}]
        /\ installed' \in [Proc -> Content \cup {None}]
    BY <1>Configured DEF Configured, ReadsBackup, Goes, Returns
  <2> QED
    BY <1>Configured, <2>1, <2>2, <2>3 DEF Configured, ReadsBackup, Goes,
          Returns
<1>Load. ASSUME NEW p \in Proc, Load(p) PROVE TypeOK'
  BY <1>Load DEF Load, Goes, Returns
<1>RollbackReads. ASSUME NEW p \in Proc, RollbackReads(p) PROVE TypeOK'
  BY <1>RollbackReads DEF RollbackReads, Begins, Goes
<1>RollbackBackup. ASSUME NEW p \in Proc, RollbackBackup(p) PROVE TypeOK'
  BY <1>RollbackBackup DEF RollbackBackup, Goes, Returns, ReadsBackup
<1>RollbackLoad. ASSUME NEW p \in Proc, RollbackLoad(p) PROVE TypeOK'
  BY <1>RollbackLoad DEF RollbackLoad, Goes, Returns
<1>RollbackReplace. ASSUME NEW p \in Proc, RollbackReplace(p) PROVE TypeOK'
  BY <1>RollbackReplace DEF RollbackReplace, Goes, Returns, Replace
<1>RollbackReloadOk. ASSUME NEW p \in Proc, RollbackReloadOk(p) PROVE TypeOK'
  BY <1>RollbackReloadOk DEF RollbackReloadOk, Goes, Returns
<1>RollbackRejected. ASSUME NEW p \in Proc, RollbackRejected(p) PROVE TypeOK'
  BY <1>RollbackRejected DEF RollbackRejected, Goes, Returns
<1>Reinstall. ASSUME NEW p \in Proc, Reinstall(p) PROVE TypeOK'
  BY <1>Reinstall DEF Reinstall, Goes, Returns, Replace
<1>Stops. ASSUME NEW p \in Proc, Stops(p) PROVE TypeOK'
  BY <1>Stops DEF Stops, Goes, Returns
<1>UserEdits. ASSUME UserEdits PROVE TypeOK'
  BY <1>UserEdits DEF UserEdits
<1>UserTidies. ASSUME UserTidies PROVE TypeOK'
  BY <1>UserTidies DEF UserTidies
<1>HerdrRestarts. ASSUME HerdrRestarts PROVE TypeOK'
  BY <1>HerdrRestarts DEF HerdrRestarts
<1>stutter. ASSUME UNCHANGED vars PROVE TypeOK'
  BY <1>stutter DEF vars
<1> QED
  BY <1>SetupPlansEdit, <1>SetupFindsTokens, <1>Fresh, <1>MkBackup, <1>MkMeta,
        <1>UnBackup, <1>Install, <1>ReloadOk, <1>Rejected, <1>Restore,
        <1>Mark, <1>MarkWrite, <1>RmMeta, <1>RmBackup, <1>Configured, <1>Load,
        <1>RollbackReads, <1>RollbackBackup, <1>RollbackLoad,
        <1>RollbackReplace, <1>RollbackReloadOk, <1>RollbackRejected,
        <1>Reinstall, <1>Stops,
     <1>UserEdits, <1>UserTidies, <1>HerdrRestarts, <1>stutter DEF Next, Step

LEMMA SoundStep ==
  ASSUME TypeOK, Sound, [Next]_vars PROVE Sound'
<1> USE NoRowIsText, NoneIsNoFile DEF TypeOK, Sound, Pc, Content,
      SetupTransaction, Edit, Editable, AlreadyConfigured, files, locals,
      ghosts, Holding, Reading, Loading
<1>SetupPlansEdit. ASSUME NEW p \in Proc, SetupPlansEdit(p) PROVE Sound'
  BY <1>SetupPlansEdit DEF SetupPlansEdit, Begins, Goes
<1>SetupFindsTokens. ASSUME NEW p \in Proc, SetupFindsTokens(p) PROVE Sound'
  BY <1>SetupFindsTokens DEF SetupFindsTokens, Begins, Goes
<1>Fresh. ASSUME NEW p \in Proc, Fresh(p) PROVE Sound'
  BY <1>Fresh DEF Fresh, Goes, Returns
<1>MkBackup. ASSUME NEW p \in Proc, MkBackup(p) PROVE Sound'
  BY <1>MkBackup DEF MkBackup, Goes, Returns
<1>MkMeta. ASSUME NEW p \in Proc, MkMeta(p) PROVE Sound'
  BY <1>MkMeta DEF MkMeta, Goes, Returns
<1>UnBackup. ASSUME NEW p \in Proc, UnBackup(p) PROVE Sound'
  BY <1>UnBackup DEF UnBackup, Goes, Returns
<1>Install. ASSUME NEW p \in Proc, Install(p) PROVE Sound'
  BY <1>Install DEF Install, Goes, Returns, Replace
<1>ReloadOk. ASSUME NEW p \in Proc, ReloadOk(p) PROVE Sound'
  BY <1>ReloadOk DEF ReloadOk, Goes, Returns
<1>Rejected. ASSUME NEW p \in Proc, Rejected(p) PROVE Sound'
  BY <1>Rejected DEF Rejected, Goes, Returns
<1>Restore. ASSUME NEW p \in Proc, Restore(p) PROVE Sound'
  BY <1>Restore DEF Restore, Goes, Returns, Replace
<1>Mark. ASSUME NEW p \in Proc, Mark(p) PROVE Sound'
  BY <1>Mark DEF Mark, Goes, Returns
<1>MarkWrite. ASSUME NEW p \in Proc, MarkWrite(p) PROVE Sound'
  BY <1>MarkWrite DEF MarkWrite, Goes, Returns
<1>RmMeta. ASSUME NEW p \in Proc, RmMeta(p) PROVE Sound'
  BY <1>RmMeta DEF RmMeta, Goes, Returns
<1>RmBackup. ASSUME NEW p \in Proc, RmBackup(p) PROVE Sound'
  BY <1>RmBackup DEF RmBackup, Goes, Returns
<1>Configured. ASSUME NEW p \in Proc, Configured(p) PROVE Sound'
  BY <1>Configured DEF Configured, Goes, Returns, ReadsBackup
<1>Load. ASSUME NEW p \in Proc, Load(p) PROVE Sound'
  BY <1>Load DEF Load, Goes, Returns
<1>RollbackReads. ASSUME NEW p \in Proc, RollbackReads(p) PROVE Sound'
  BY <1>RollbackReads DEF RollbackReads, Begins, Goes
<1>RollbackBackup. ASSUME NEW p \in Proc, RollbackBackup(p) PROVE Sound'
  BY <1>RollbackBackup DEF RollbackBackup, Goes, Returns, ReadsBackup
<1>RollbackLoad. ASSUME NEW p \in Proc, RollbackLoad(p) PROVE Sound'
  <2>1. CASE Loadable(original[p]) /\ at' = [at EXCEPT ![p] = "rbReplace"]
    <3>1. Editable(original[p])
      BY <1>RollbackLoad, <2>1 DEF RollbackLoad, Loadable
    <3>2. LoadedInstalled(original[p]) = Edit(original[p])
      BY <2>1 DEF Loadable, LoadedInstalled
    <3> QED
      BY <1>RollbackLoad, <2>1, <3>1, <3>2 DEF RollbackLoad, Goes, Returns
  <2>2. CASE ~(Loadable(original[p]) /\ at' = [at EXCEPT ![p] = "rbReplace"])
    BY <1>RollbackLoad, <2>2 DEF RollbackLoad, Goes, Returns
  <2> QED
    BY <2>1, <2>2
<1>RollbackReplace. ASSUME NEW p \in Proc, RollbackReplace(p) PROVE Sound'
  BY <1>RollbackReplace DEF RollbackReplace, Goes, Returns, Replace
<1>RollbackReloadOk. ASSUME NEW p \in Proc, RollbackReloadOk(p) PROVE Sound'
  BY <1>RollbackReloadOk DEF RollbackReloadOk, Goes, Returns
<1>RollbackRejected. ASSUME NEW p \in Proc, RollbackRejected(p) PROVE Sound'
  BY <1>RollbackRejected DEF RollbackRejected, Goes, Returns
<1>Reinstall. ASSUME NEW p \in Proc, Reinstall(p) PROVE Sound'
  BY <1>Reinstall DEF Reinstall, Goes, Returns, Replace
<1>Stops. ASSUME NEW p \in Proc, Stops(p) PROVE Sound'
  BY <1>Stops DEF Stops, Goes, Returns
<1>UserEdits. ASSUME UserEdits PROVE Sound'
  BY <1>UserEdits DEF UserEdits
<1>UserTidies. ASSUME UserTidies PROVE Sound'
  BY <1>UserTidies DEF UserTidies
<1>HerdrRestarts. ASSUME HerdrRestarts PROVE Sound'
  BY <1>HerdrRestarts DEF HerdrRestarts
<1>stutter. ASSUME UNCHANGED vars PROVE Sound'
  BY <1>stutter DEF vars
<1> QED
  BY <1>SetupPlansEdit, <1>SetupFindsTokens, <1>Fresh, <1>MkBackup, <1>MkMeta,
        <1>UnBackup, <1>Install, <1>ReloadOk, <1>Rejected, <1>Restore,
        <1>Mark, <1>MarkWrite, <1>RmMeta, <1>RmBackup, <1>Configured, <1>Load,
        <1>RollbackReads, <1>RollbackBackup, <1>RollbackLoad,
        <1>RollbackReplace, <1>RollbackReloadOk, <1>RollbackRejected,
        <1>Reinstall, <1>Stops,
     <1>UserEdits, <1>UserTidies, <1>HerdrRestarts, <1>stutter DEF Next, Step

-----------------------------------------------------------------------------
(* What is written is the user's text. *)

LEMMA InitText == Init => TextHeld
  BY DEF Init, TextHeld, Writing, Holding

LEMMA TextStep ==
  ASSUME TypeOK, Sound, TextHeld, [Next]_vars PROVE TextHeld'
<1> USE NoRowIsText, NoneIsNoFile DEF TypeOK, Sound, TextHeld, Writing, Busy,
      Edit, files, locals, ghosts, Holding, Reading, Loading
<1>SetupPlansEdit. ASSUME NEW p \in Proc, SetupPlansEdit(p) PROVE TextHeld'
  BY <1>SetupPlansEdit DEF SetupPlansEdit, Begins, Goes
<1>SetupFindsTokens. ASSUME NEW p \in Proc, SetupFindsTokens(p) PROVE TextHeld'
  BY <1>SetupFindsTokens DEF SetupFindsTokens, Begins, Goes
<1>Fresh. ASSUME NEW p \in Proc, Fresh(p) PROVE TextHeld'
  BY <1>Fresh DEF Fresh, Goes, Returns
<1>MkBackup. ASSUME NEW p \in Proc, MkBackup(p) PROVE TextHeld'
  BY <1>MkBackup DEF MkBackup, Goes, Returns
<1>MkMeta. ASSUME NEW p \in Proc, MkMeta(p) PROVE TextHeld'
  BY <1>MkMeta DEF MkMeta, Goes, Returns
<1>UnBackup. ASSUME NEW p \in Proc, UnBackup(p) PROVE TextHeld'
  BY <1>UnBackup DEF UnBackup, Goes, Returns
<1>Install. ASSUME NEW p \in Proc, Install(p) PROVE TextHeld'
  BY <1>Install DEF Install, Goes, Returns, Replace
<1>ReloadOk. ASSUME NEW p \in Proc, ReloadOk(p) PROVE TextHeld'
  BY <1>ReloadOk DEF ReloadOk, Goes, Returns
<1>Rejected. ASSUME NEW p \in Proc, Rejected(p) PROVE TextHeld'
  BY <1>Rejected DEF Rejected, Goes, Returns
<1>Restore. ASSUME NEW p \in Proc, Restore(p) PROVE TextHeld'
  BY <1>Restore DEF Restore, Goes, Returns, Replace
<1>Mark. ASSUME NEW p \in Proc, Mark(p) PROVE TextHeld'
  BY <1>Mark DEF Mark, Goes, Returns
<1>MarkWrite. ASSUME NEW p \in Proc, MarkWrite(p) PROVE TextHeld'
  BY <1>MarkWrite DEF MarkWrite, Goes, Returns
<1>RmMeta. ASSUME NEW p \in Proc, RmMeta(p) PROVE TextHeld'
  BY <1>RmMeta DEF RmMeta, Goes, Returns
<1>RmBackup. ASSUME NEW p \in Proc, RmBackup(p) PROVE TextHeld'
  BY <1>RmBackup DEF RmBackup, Goes, Returns
<1>Configured. ASSUME NEW p \in Proc, Configured(p) PROVE TextHeld'
  BY <1>Configured DEF Configured, Goes, Returns, ReadsBackup
<1>Load. ASSUME NEW p \in Proc, Load(p) PROVE TextHeld'
  BY <1>Load DEF Load, Goes, Returns
<1>RollbackReads. ASSUME NEW p \in Proc, RollbackReads(p) PROVE TextHeld'
  BY <1>RollbackReads DEF RollbackReads, Begins, Goes
<1>RollbackBackup. ASSUME NEW p \in Proc, RollbackBackup(p) PROVE TextHeld'
  BY <1>RollbackBackup DEF RollbackBackup, Goes, Returns, ReadsBackup
<1>RollbackLoad. ASSUME NEW p \in Proc, RollbackLoad(p) PROVE TextHeld'
  <2>1. CASE Loadable(original[p]) /\ at' = [at EXCEPT ![p] = "rbReplace"]
    <3>1. LoadedInstalled(original[p]).text = original[p].text
      BY <2>1 DEF Loadable, LoadedInstalled
    <3>2. read[p] = LoadedInstalled(original[p])
      BY <1>RollbackLoad, <2>1 DEF RollbackLoad, Goes, Returns
    <3> QED
      BY <1>RollbackLoad, <2>1, <3>1, <3>2 DEF RollbackLoad
  <2>2. CASE ~(Loadable(original[p]) /\ at' = [at EXCEPT ![p] = "rbReplace"])
    BY <1>RollbackLoad, <2>2 DEF RollbackLoad, Goes, Returns
  <2> QED
    BY <2>1, <2>2
<1>RollbackReplace. ASSUME NEW p \in Proc, RollbackReplace(p) PROVE TextHeld'
  BY <1>RollbackReplace DEF RollbackReplace, Goes, Returns, Replace
<1>RollbackReloadOk. ASSUME NEW p \in Proc, RollbackReloadOk(p) PROVE TextHeld'
  BY <1>RollbackReloadOk DEF RollbackReloadOk, Goes, Returns
<1>RollbackRejected. ASSUME NEW p \in Proc, RollbackRejected(p) PROVE TextHeld'
  BY <1>RollbackRejected DEF RollbackRejected, Goes, Returns
<1>Reinstall. ASSUME NEW p \in Proc, Reinstall(p) PROVE TextHeld'
  BY <1>Reinstall DEF Reinstall, Goes, Returns, Replace
<1>Stops. ASSUME NEW p \in Proc, Stops(p) PROVE TextHeld'
  BY <1>Stops DEF Stops, Goes, Returns
<1>UserEdits. ASSUME UserEdits PROVE TextHeld'
  BY <1>UserEdits DEF UserEdits
<1>UserTidies. ASSUME UserTidies PROVE TextHeld'
  BY <1>UserTidies DEF UserTidies
<1>HerdrRestarts. ASSUME HerdrRestarts PROVE TextHeld'
  BY <1>HerdrRestarts DEF HerdrRestarts
<1>stutter. ASSUME UNCHANGED vars PROVE TextHeld'
  BY <1>stutter DEF vars
<1> QED
  BY <1>SetupPlansEdit, <1>SetupFindsTokens, <1>Fresh, <1>MkBackup, <1>MkMeta,
        <1>UnBackup, <1>Install, <1>ReloadOk, <1>Rejected, <1>Restore,
        <1>Mark, <1>MarkWrite, <1>RmMeta, <1>RmBackup, <1>Configured, <1>Load,
        <1>RollbackReads, <1>RollbackBackup, <1>RollbackLoad,
        <1>RollbackReplace, <1>RollbackReloadOk, <1>RollbackRejected,
        <1>Reinstall, <1>Stops,
     <1>UserEdits, <1>UserTidies, <1>HerdrRestarts, <1>stutter DEF Next, Step

-----------------------------------------------------------------------------
(* One command at a time. *)

LEMMA InitCalm == Init => Calm
  BY NoneIsNoFile DEF Init, Calm, Alone, Ours, Ready, Stage,
        AlreadyConfigured, Editable,
         Edit, LoadedReloaded, Content

LEMMA CalmStep ==
  ASSUME TypeOK, Sound, Calm, [Next]_vars PROVE Calm'
<1> USE NoRowIsText, NoneIsNoFile DEF TypeOK, Sound, Calm, Alone, Busy, Stage,
      Ours, Ready, Edit, Editable, AlreadyConfigured, LoadedReloaded, files,
      locals, ghosts, Holding, Reading, Loading
<1>SetupPlansEdit. ASSUME NEW p \in Proc, SetupPlansEdit(p) PROVE Calm'
  BY <1>SetupPlansEdit DEF SetupPlansEdit, Begins, Goes
<1>SetupFindsTokens. ASSUME NEW p \in Proc, SetupFindsTokens(p) PROVE Calm'
  BY <1>SetupFindsTokens DEF SetupFindsTokens, Begins, Goes
<1>Fresh. ASSUME NEW p \in Proc, Fresh(p) PROVE Calm'
  BY <1>Fresh DEF Fresh, Goes, Returns
<1>MkBackup. ASSUME NEW p \in Proc, MkBackup(p) PROVE Calm'
  BY <1>MkBackup DEF MkBackup, Goes, Returns
<1>MkMeta. ASSUME NEW p \in Proc, MkMeta(p) PROVE Calm'
  <2>1. CASE Goes(p, "unBackup") /\ UNCHANGED metadata
    BY <1>MkMeta, <2>1 DEF MkMeta, Goes
  <2>2. CASE /\ metadata = None
             /\ metadata' = [original |-> original[p],
                             installed |-> installed[p], reloaded |-> FALSE]
    <3>1. /\ metadata' # None /\ ~metadata'.reloaded
          /\ metadata'.original = original[p]
      <4>1. original[p] \in Content /\ installed[p] \in Content
        BY <1>MkMeta DEF MkMeta, Content
      <4>2. metadata' \in SetupTransaction
        BY <2>2, <4>1, Recorded
      <4> QED
        BY <2>2, <4>2
    <3> QED
      BY <1>MkMeta, <2>2, <3>1 DEF MkMeta, Goes
  <2> QED
    BY <1>MkMeta, <2>1, <2>2 DEF MkMeta
<1>UnBackup. ASSUME NEW p \in Proc, UnBackup(p) PROVE Calm'
  BY <1>UnBackup DEF UnBackup, Goes, Returns
<1>Install. ASSUME NEW p \in Proc, Install(p) PROVE Calm'
  BY <1>Install DEF Install, Goes, Returns, Replace
<1>ReloadOk. ASSUME NEW p \in Proc, ReloadOk(p) PROVE Calm'
  BY <1>ReloadOk DEF ReloadOk, Goes, Returns
<1>Rejected. ASSUME NEW p \in Proc, Rejected(p) PROVE Calm'
  BY <1>Rejected DEF Rejected, Goes, Returns
<1>Restore. ASSUME NEW p \in Proc, Restore(p) PROVE Calm'
  BY <1>Restore DEF Restore, Goes, Returns, Replace
<1>Mark. ASSUME NEW p \in Proc, Mark(p) PROVE Calm'
  BY <1>Mark DEF Mark, Goes, Returns
<1>MarkWrite. ASSUME NEW p \in Proc, MarkWrite(p) PROVE Calm'
  BY <1>MarkWrite DEF MarkWrite, Goes, Returns
<1>RmMeta. ASSUME NEW p \in Proc, RmMeta(p) PROVE Calm'
  BY <1>RmMeta DEF RmMeta, Goes, Returns
<1>RmBackup. ASSUME NEW p \in Proc, RmBackup(p) PROVE Calm'
  BY <1>RmBackup DEF RmBackup, Goes, Returns
<1>Configured. ASSUME NEW p \in Proc, Configured(p) PROVE Calm'
  BY <1>Configured DEF Configured, Goes, Returns, ReadsBackup
<1>Load. ASSUME NEW p \in Proc, Load(p) PROVE Calm'
  BY <1>Load DEF Load, Goes, Returns
<1>RollbackReads. ASSUME NEW p \in Proc, RollbackReads(p) PROVE Calm'
  BY <1>RollbackReads DEF RollbackReads, Begins, Goes
<1>RollbackBackup. ASSUME NEW p \in Proc, RollbackBackup(p) PROVE Calm'
  BY <1>RollbackBackup DEF RollbackBackup, Goes, Returns, ReadsBackup
<1>RollbackLoad. ASSUME NEW p \in Proc, RollbackLoad(p) PROVE Calm'
  <2>1. CASE Loadable(original[p]) /\ at' = [at EXCEPT ![p] = "rbReplace"]
    <3>1. /\ read[p] = LoadedInstalled(original[p])
          /\ installed' = [installed EXCEPT ![p] =
                LoadedInstalled(original[p])]
      BY <1>RollbackLoad, <2>1 DEF RollbackLoad, Goes, Returns
    <3>2. metadata = None \/ metadata.original = original[p]
      BY <2>1 DEF Loadable
    <3> QED
      BY <1>RollbackLoad, <2>1, <3>1, <3>2 DEF RollbackLoad
  <2>2. CASE Loadable(original[p]) /\ at' = [at EXCEPT ![p] = "rmMeta"]
    <3>1. Editable(original[p]) /\ read[p] = original[p]
      BY <1>RollbackLoad, <2>2 DEF RollbackLoad, Goes, Returns, Loadable
    <3> QED
      BY <1>RollbackLoad, <2>2, <3>1 DEF RollbackLoad, Goes, Returns
  <2>3. CASE Returns(p)
    BY <1>RollbackLoad, <2>3 DEF RollbackLoad, Goes, Returns
  <2> QED
    BY <1>RollbackLoad, <2>1, <2>2, <2>3 DEF RollbackLoad, Goes
<1>RollbackReplace. ASSUME NEW p \in Proc, RollbackReplace(p) PROVE Calm'
  BY <1>RollbackReplace DEF RollbackReplace, Goes, Returns, Replace
<1>RollbackReloadOk. ASSUME NEW p \in Proc, RollbackReloadOk(p) PROVE Calm'
  BY <1>RollbackReloadOk DEF RollbackReloadOk, Goes, Returns
<1>RollbackRejected. ASSUME NEW p \in Proc, RollbackRejected(p) PROVE Calm'
  BY <1>RollbackRejected DEF RollbackRejected, Goes, Returns
<1>Reinstall. ASSUME NEW p \in Proc, Reinstall(p) PROVE Calm'
  BY <1>Reinstall DEF Reinstall, Goes, Returns, Replace
<1>Stops. ASSUME NEW p \in Proc, Stops(p) PROVE Calm'
  BY <1>Stops DEF Stops, Goes, Returns
<1>UserEdits. ASSUME UserEdits PROVE Calm'
  BY <1>UserEdits DEF UserEdits
<1>UserTidies. ASSUME UserTidies PROVE Calm'
  BY <1>UserTidies DEF UserTidies
<1>HerdrRestarts. ASSUME HerdrRestarts PROVE Calm'
  BY <1>HerdrRestarts DEF HerdrRestarts
<1>stutter. ASSUME UNCHANGED vars PROVE Calm'
  BY <1>stutter DEF vars
<1> QED
  BY <1>SetupPlansEdit, <1>SetupFindsTokens, <1>Fresh, <1>MkBackup, <1>MkMeta,
        <1>UnBackup, <1>Install, <1>ReloadOk, <1>Rejected, <1>Restore,
        <1>Mark, <1>MarkWrite, <1>RmMeta, <1>RmBackup, <1>Configured, <1>Load,
        <1>RollbackReads, <1>RollbackBackup, <1>RollbackLoad,
        <1>RollbackReplace, <1>RollbackReloadOk, <1>RollbackRejected,
        <1>Reinstall, <1>Stops,
     <1>UserEdits, <1>UserTidies, <1>HerdrRestarts, <1>stutter DEF Next, Step

-----------------------------------------------------------------------------
(* The theorems. *)

IInv == TypeOK /\ Sound /\ TextHeld /\ Calm

LEMMA InvInit == Init => IInv
  BY InitTypeOK, InitSound, InitText, InitCalm DEF IInv

LEMMA InvStep == IInv /\ [Next]_vars => IInv'
  BY TypeStep, SoundStep, TextStep, CalmStep DEF IInv

LEMMA InvAlways == Spec => []IInv
  BY InvInit, InvStep, PTL DEF Spec

(* Every variable keeps its type, with any number of commands. *)
THEOREM TypesHold == Spec => []TypeOK
  <1>1. IInv => TypeOK
    BY DEF IInv
  <1> QED
    BY <1>1, InvAlways, PTL

(* The user's text survives every interleaving of setups, rollbacks, their *)
(* failures and their deaths, if he writes it while none runs.             *)
THEOREM TextSurvives == Spec => []UserTextKept
  <1>1. IInv => UserTextKept
    BY DEF IInv, TextHeld, UserTextKept
  <1> QED
    BY <1>1, InvAlways, PTL

(* As long as commands came one at a time and no edit was made while one   *)
(* ran (~crowded, ~edited), installed tokens can always be taken out.      *)
THEOREM AlwaysRecoverable == Spec => []Recoverable
  <1>1. ASSUME IInv, Installed
        PROVE  /\ backup # None /\ Loadable(backup)
               /\ LoadedInstalled(backup) = config
               /\ backup = [text |-> config.text, tokens |-> "none"]
    <2>1. Ready
      BY <1>1 DEF IInv, Calm, Installed, Ours
    <2>2. backup \in Content /\ backup.tokens = "none"
      BY <1>1, <2>1 DEF IInv, TypeOK, Ready, Editable, AlreadyConfigured
    <2>3. config.text = backup.text
      BY <2>1 DEF Ready, Edit
    <2>4. backup = [text |-> config.text, tokens |-> "none"]
      BY <2>2, <2>3 DEF Content
    <2>5. Loadable(backup) /\ LoadedInstalled(backup) = config
      BY <1>1, <2>1 DEF IInv, Sound, Ready, Loadable, LoadedInstalled
    <2> QED
      BY <2>1, <2>4, <2>5 DEF Ready
  <1>2. IInv => Recoverable
    BY <1>1 DEF Recoverable
  <1> QED
    BY <1>2, InvAlways, PTL

(* As long as commands came one at a time and no edit was made while one   *)
(* ran (~crowded, ~edited), a setup that reports nothing to do is right.   *)
THEOREM PendingIsPending == Spec => []PendingUntilShown
  <1>1. IInv => PendingUntilShown
    BY DEF IInv, Calm, PendingUntilShown, Installed, Ours
  <1> QED
    BY <1>1, InvAlways, PTL

(* No interleaving at all overwrites a recovery point. *)
THEOREM BackupNeverReplaced == Spec => BackupKept
  <1>1. [Next]_vars => [backup # None => backup' \in {backup, None}]_vars
    BY DEF Next, Step, vars, files, locals, ghosts, Begins, Returns, Goes,
           Replace, ReadsBackup, SetupPlansEdit, SetupFindsTokens, Fresh,
           MkBackup, MkMeta, UnBackup, Install, ReloadOk, Rejected, Restore,
           Mark, MarkWrite, RmMeta, RmBackup, Configured, Load, RollbackReads,
           RollbackBackup, RollbackLoad, RollbackReplace, RollbackReloadOk,
           RollbackRejected, Reinstall, Stops, UserEdits, UserTidies,
           HerdrRestarts
  <1> QED
    BY <1>1, PTL DEF Spec, BackupKept
=============================================================================
