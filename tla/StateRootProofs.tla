--------------------------- MODULE StateRootProofs ---------------------------
(* The state root, for any number of processes and sockets: what is proved *)
(* is that the resolution of the default implements Namespace, and the     *)
(* three invariants of the root's history.                                 *)
(*                                                                         *)
(* Claiming is about the marker: whoever is past the second look holds the *)
(* lock, and whoever writes holds it over a marker that is not there; so   *)
(* the rename is the one decision, and nothing in the root precedes it.    *)
(* Keeping is about the history: an owner is alone, so what it renames is  *)
(* what it wrote, and what it has in memory dates from the last --forget.  *)
EXTENDS StateRoot, TLAPS

Sampling == {"sampling", "saveWrite", "saveRename"}
Owning   == Sampling \cup {"forget", "forgetTemp"}

AtOK == at \in [Proc -> Pc] /\ sock \in [Proc -> Socket \cup {None}]

Claiming ==
  /\ marker # None => \E s \in Socket : marker = Whole(s)
  /\ \A p \in Proc :
       /\ at[p] # "idle" => sock[p] \in Socket
       /\ at[p] \in Locked => lock = p
       /\ at[p] \in {"create", "write", "rename"} => marker = None
       /\ at[p] = "rename" => markerTemp = Whole(sock[p])
       /\ at[p] \in InRoot \cup {"claimed"} => marker = Whole(sock[p])

Tenants == {Legacy} \cup (IF marker = None THEN {} ELSE {marker.data})

Keeping ==
  /\ mem \in [Proc -> History \cup {None}]
  /\ era \in 0..MaxEra
  /\ history # None => /\ history.whole
                       /\ history.data \in History
                       /\ history.data.era = era
                       /\ history.data.of \subseteq Tenants
  /\ temp # None => temp.data \in History /\ temp.data.of \subseteq Tenants
  /\ \A p \in Proc :
       /\ at[p] \in Owning => owner = p
       /\ at[p] = "forget" => era < MaxEra
       /\ at[p] \in Sampling => /\ mem[p] # None
                                /\ mem[p].era = era
                                /\ mem[p].of \subseteq Tenants
       /\ at[p] \notin Sampling => mem[p] = None
       /\ at[p] = "saveRename" => temp = Whole(mem[p])

-----------------------------------------------------------------------------
LEMMA NotNone ==
  /\ \A s \in Socket : Whole(s) # None
  /\ \A c \in History : Whole(c) # None /\ Partial(c) # None
  /\ None \notin History
  BY NoneIsNobody DEF Files

LEMMA InitInv == Init => AtOK /\ Claiming
  BY NoneIsNobody DEF Init, AtOK, Claiming, Pc, Locked, InRoot

LEMMA InitKeeping == Init => Keeping
  BY NoneIsNobody DEF Init, Keeping, Owning, Sampling, History, Tenants,
     Whole, Partial

(* Every process is somewhere, and has a socket while it runs.             *)
LEMMA AtStep ==
  ASSUME AtOK, Claiming, [Next]_vars PROVE AtOK'
<1> USE NoneIsNobody DEF AtOK, Pc, Resolving, InRoot, resolving, keeping,
        asking, Goes, Exits, Unlock, Owns, Answer, Answered
<1>Resolve. ASSUME NEW p \in Proc, NEW s \in Socket,
                    NEW c \in {"no", "user", "daemon"}, Resolve(p, s, c)
             PROVE  AtOK'
  BY <1>Resolve DEF Resolve
<1>Look. ASSUME NEW p \in Proc, Look(p) PROVE AtOK'
  BY <1>Look DEF Look
<1>Lock. ASSUME NEW p \in Proc, Lock(p) PROVE AtOK'
  BY <1>Lock DEF Lock
<1>Relook. ASSUME NEW p \in Proc, Relook(p) PROVE AtOK'
  BY <1>Relook DEF Relook
<1>CreateMarker. ASSUME NEW p \in Proc, CreateMarker(p) PROVE AtOK'
  BY <1>CreateMarker DEF CreateMarker
<1>WriteMarker. ASSUME NEW p \in Proc, WriteMarker(p) PROVE AtOK'
  BY <1>WriteMarker DEF WriteMarker
<1>RenameMarker. ASSUME NEW p \in Proc, RenameMarker(p) PROVE AtOK'
  BY <1>RenameMarker DEF RenameMarker
<1>Claimed. ASSUME NEW p \in Proc, Claimed(p) PROVE AtOK'
  BY <1>Claimed DEF Claimed
<1>MarkerFails. ASSUME NEW p \in Proc, MarkerFails(p) PROVE AtOK'
  BY <1>MarkerFails DEF MarkerFails
<1>Load. ASSUME NEW p \in Proc, Load(p) PROVE AtOK'
  BY <1>Load DEF Load
<1>SaveCreate. ASSUME NEW p \in Proc, SaveCreate(p) PROVE AtOK'
  BY <1>SaveCreate DEF SaveCreate
<1>SaveWrite. ASSUME NEW p \in Proc, SaveWrite(p) PROVE AtOK'
  BY <1>SaveWrite DEF SaveWrite
<1>SaveRename. ASSUME NEW p \in Proc, SaveRename(p) PROVE AtOK'
  BY <1>SaveRename DEF SaveRename
<1>SaveFails. ASSUME NEW p \in Proc, SaveFails(p) PROVE AtOK'
  BY <1>SaveFails DEF SaveFails
<1>Forget. ASSUME NEW p \in Proc, Forget(p) PROVE AtOK'
  BY <1>Forget DEF Forget
<1>ForgetHistory. ASSUME NEW p \in Proc, ForgetHistory(p) PROVE AtOK'
  BY <1>ForgetHistory DEF ForgetHistory
<1>ForgetTemp. ASSUME NEW p \in Proc, ForgetTemp(p) PROVE AtOK'
  BY <1>ForgetTemp DEF ForgetTemp
<1>Ends. ASSUME NEW p \in Proc, Ends(p) PROVE AtOK'
  BY <1>Ends DEF Ends
<1>stutter. ASSUME UNCHANGED vars PROVE AtOK'
  BY <1>stutter DEF vars
<1> HIDE NoneIsNobody DEF AtOK, Pc, Resolving, InRoot, resolving, keeping,
        asking, Goes, Exits, Unlock, Owns, Answer, Answered
<1> QED
  BY <1>Resolve, <1>Look, <1>Lock, <1>Relook, <1>CreateMarker, <1>WriteMarker,
     <1>RenameMarker, <1>Claimed, <1>MarkerFails, <1>Load, <1>SaveCreate,
     <1>SaveWrite, <1>SaveRename, <1>SaveFails, <1>Forget, <1>ForgetHistory,
     <1>ForgetTemp, <1>Ends, <1>stutter DEF Next, Step

(* The lock makes the rename the one decision.                             *)
LEMMA ClaimStep ==
  ASSUME AtOK, Claiming, [Next]_vars PROVE Claiming'
<1> USE NoneIsNobody DEF AtOK, Claiming, Pc, Resolving, Locked, InRoot,
        resolving, keeping, asking, Goes, Exits, Unlock, Owns, Answer,
        Answered, Whole
<1>Resolve. ASSUME NEW p \in Proc, NEW s \in Socket,
                    NEW c \in {"no", "user", "daemon"}, Resolve(p, s, c)
             PROVE  Claiming'
  BY <1>Resolve DEF Resolve
<1>Look. ASSUME NEW p \in Proc, Look(p) PROVE Claiming'
  BY <1>Look DEF Look
<1>Lock. ASSUME NEW p \in Proc, Lock(p) PROVE Claiming'
  BY <1>Lock DEF Lock
<1>Relook. ASSUME NEW p \in Proc, Relook(p) PROVE Claiming'
  BY <1>Relook DEF Relook
<1>CreateMarker. ASSUME NEW p \in Proc, CreateMarker(p) PROVE Claiming'
  BY <1>CreateMarker DEF CreateMarker
<1>WriteMarker. ASSUME NEW p \in Proc, WriteMarker(p) PROVE Claiming'
  BY <1>WriteMarker DEF WriteMarker
<1>RenameMarker. ASSUME NEW p \in Proc, RenameMarker(p) PROVE Claiming'
  <2>1. \A q \in Proc : at[q] \notin InRoot \cup {"claimed"}
    BY <1>RenameMarker, NotNone DEF RenameMarker
  <2>2. marker' = Whole(sock[p]) /\ sock[p] \in Socket
    BY <1>RenameMarker DEF RenameMarker
  <2>3. \A q \in Proc : at'[q] \in {"create", "write", "rename"} => FALSE
    BY <1>RenameMarker DEF RenameMarker
  <2> QED
    BY <1>RenameMarker, <2>1, <2>2, <2>3 DEF RenameMarker
<1>Claimed. ASSUME NEW p \in Proc, Claimed(p) PROVE Claiming'
  BY <1>Claimed DEF Claimed
<1>MarkerFails. ASSUME NEW p \in Proc, MarkerFails(p) PROVE Claiming'
  BY <1>MarkerFails DEF MarkerFails
<1>Load. ASSUME NEW p \in Proc, Load(p) PROVE Claiming'
  BY <1>Load DEF Load
<1>SaveCreate. ASSUME NEW p \in Proc, SaveCreate(p) PROVE Claiming'
  BY <1>SaveCreate DEF SaveCreate
<1>SaveWrite. ASSUME NEW p \in Proc, SaveWrite(p) PROVE Claiming'
  BY <1>SaveWrite DEF SaveWrite
<1>SaveRename. ASSUME NEW p \in Proc, SaveRename(p) PROVE Claiming'
  BY <1>SaveRename DEF SaveRename
<1>SaveFails. ASSUME NEW p \in Proc, SaveFails(p) PROVE Claiming'
  BY <1>SaveFails DEF SaveFails
<1>Forget. ASSUME NEW p \in Proc, Forget(p) PROVE Claiming'
  BY <1>Forget DEF Forget
<1>ForgetHistory. ASSUME NEW p \in Proc, ForgetHistory(p) PROVE Claiming'
  BY <1>ForgetHistory DEF ForgetHistory
<1>ForgetTemp. ASSUME NEW p \in Proc, ForgetTemp(p) PROVE Claiming'
  BY <1>ForgetTemp DEF ForgetTemp
<1>Ends. ASSUME NEW p \in Proc, Ends(p) PROVE Claiming'
  BY <1>Ends DEF Ends
<1>stutter. ASSUME UNCHANGED vars PROVE Claiming'
  BY <1>stutter DEF vars
<1> HIDE NoneIsNobody DEF AtOK, Claiming, Pc, Resolving, Locked, InRoot,
        resolving, keeping, asking, Goes, Exits, Unlock, Owns, Answer,
        Answered, Whole
<1> QED
  BY <1>Resolve, <1>Look, <1>Lock, <1>Relook, <1>CreateMarker, <1>WriteMarker,
     <1>RenameMarker, <1>Claimed, <1>MarkerFails, <1>Load, <1>SaveCreate,
     <1>SaveWrite, <1>SaveRename, <1>SaveFails, <1>Forget, <1>ForgetHistory,
     <1>ForgetTemp, <1>Ends, <1>stutter DEF Next, Step

(* An owner is alone with the history.                                     *)
LEMMA KeepStep ==
  ASSUME AtOK, Claiming, Keeping, [Next]_vars PROVE Keeping'
<1> USE NoneIsNobody DEF AtOK, Claiming, Keeping, Pc, Resolving, Locked,
        InRoot, Sampling, Owning, resolving, keeping, asking, Goes, Exits,
        Unlock, Owns, Answer, Answered, Whole, Partial, Tenants, History
<1>Resolve. ASSUME NEW p \in Proc, NEW s \in Socket,
                    NEW c \in {"no", "user", "daemon"}, Resolve(p, s, c)
             PROVE  Keeping'
  BY <1>Resolve DEF Resolve
<1>Look. ASSUME NEW p \in Proc, Look(p) PROVE Keeping'
  BY <1>Look DEF Look
<1>Lock. ASSUME NEW p \in Proc, Lock(p) PROVE Keeping'
  BY <1>Lock DEF Lock
<1>Relook. ASSUME NEW p \in Proc, Relook(p) PROVE Keeping'
  BY <1>Relook DEF Relook
<1>CreateMarker. ASSUME NEW p \in Proc, CreateMarker(p) PROVE Keeping'
  BY <1>CreateMarker DEF CreateMarker
<1>WriteMarker. ASSUME NEW p \in Proc, WriteMarker(p) PROVE Keeping'
  BY <1>WriteMarker DEF WriteMarker
<1>RenameMarker. ASSUME NEW p \in Proc, RenameMarker(p) PROVE Keeping'
  BY <1>RenameMarker DEF RenameMarker
<1>Claimed. ASSUME NEW p \in Proc, Claimed(p) PROVE Keeping'
  BY <1>Claimed DEF Claimed
<1>MarkerFails. ASSUME NEW p \in Proc, MarkerFails(p) PROVE Keeping'
  BY <1>MarkerFails DEF MarkerFails
<1>Load. ASSUME NEW p \in Proc, Load(p) PROVE Keeping'
  <2>1. mem'[p] \in History /\ mem'[p].era = era /\ mem'[p].of \subseteq Tenants
    BY <1>Load DEF Load
  <2>2. mem'[p] # None
    BY <2>1, NotNone
  <2>3. mem' \in [Proc -> History \cup {None}]
    BY <1>Load, <2>1 DEF Load
  <2> QED
    BY <1>Load, <2>1, <2>2, <2>3 DEF Load
<1>SaveCreate. ASSUME NEW p \in Proc, SaveCreate(p) PROVE Keeping'
  <2>1. mem[p] \in History /\ mem[p].era = era /\ mem[p].of \subseteq Tenants
    BY <1>SaveCreate DEF SaveCreate
  <2>2. mem'[p] = [of |-> mem[p].of \cup {sock[p]}, era |-> mem[p].era]
    BY <1>SaveCreate DEF SaveCreate
  <2>3. sock[p] \in Tenants /\ sock[p] \in Socket
    BY <1>SaveCreate, NotNone DEF SaveCreate
  <2>4. mem'[p] \in History /\ mem'[p].era = era /\ mem'[p].of \subseteq Tenants
    BY <2>1, <2>2, <2>3
  <2>5. mem'[p] # None
    BY <2>4, NotNone
  <2>6. mem' \in [Proc -> History \cup {None}]
    BY <1>SaveCreate, <2>4 DEF SaveCreate
  <2> QED
    BY <1>SaveCreate, <2>4, <2>5, <2>6 DEF SaveCreate
<1>SaveWrite. ASSUME NEW p \in Proc, SaveWrite(p) PROVE Keeping'
  BY <1>SaveWrite DEF SaveWrite
<1>SaveRename. ASSUME NEW p \in Proc, SaveRename(p) PROVE Keeping'
  BY <1>SaveRename DEF SaveRename
<1>SaveFails. ASSUME NEW p \in Proc, SaveFails(p) PROVE Keeping'
  BY <1>SaveFails DEF SaveFails
<1>Forget. ASSUME NEW p \in Proc, Forget(p) PROVE Keeping'
  BY <1>Forget DEF Forget
<1>ForgetHistory. ASSUME NEW p \in Proc, ForgetHistory(p) PROVE Keeping'
  BY <1>ForgetHistory DEF ForgetHistory
<1>ForgetTemp. ASSUME NEW p \in Proc, ForgetTemp(p) PROVE Keeping'
  BY <1>ForgetTemp DEF ForgetTemp
<1>Ends. ASSUME NEW p \in Proc, Ends(p) PROVE Keeping'
  BY <1>Ends DEF Ends
<1>stutter. ASSUME UNCHANGED vars PROVE Keeping'
  BY <1>stutter DEF vars
<1> HIDE NoneIsNobody DEF AtOK, Claiming, Keeping, Pc, Resolving, Locked,
        InRoot, Sampling, Owning, resolving, keeping, asking, Goes, Exits,
        Unlock, Owns, Answer, Answered, Whole, Partial, Tenants, History
<1> QED
  BY <1>Resolve, <1>Look, <1>Lock, <1>Relook, <1>CreateMarker, <1>WriteMarker,
     <1>RenameMarker, <1>Claimed, <1>MarkerFails, <1>Load, <1>SaveCreate,
     <1>SaveWrite, <1>SaveRename, <1>SaveFails, <1>Forget, <1>ForgetHistory,
     <1>ForgetTemp, <1>Ends, <1>stutter DEF Next, Step

-----------------------------------------------------------------------------
(* The refinement: every step is a step of Namespace, or changes nothing   *)
(* it sees.                                                                *)

default == IF marker = None THEN None ELSE marker.data
answer  == [p \in Proc |-> Told(p)]

LEMMA InitRefines == Init => Root!Init
  BY NoneIsNobody DEF Init, Root!Init, Told, InRoot

LEMMA StepRefines ==
  ASSUME AtOK, Claiming, AtOK', Claiming', [Next]_vars
  PROVE  [Root!Next]_(Root!vars)
<1> DEFINE Sees == UNCHANGED <<default, answer>>
<1>0. Sees => [Root!Next]_(Root!vars)
  BY DEF Root!vars, default, answer
<1>1. \A p \in Proc :
        answer' = [answer EXCEPT ![p] = None] /\ default' = default
        => [Root!Next]_(Root!vars)
  BY DEF Root!Next, Root!Leave, answer, default
<1>2. ASSUME NEW p \in Proc, sock[p] \in Socket, answer[p] = None,
             default' = default,
             answer' = [answer EXCEPT ![p] =
                          [socket |-> sock[p], root |-> sock[p] = default]]
      PROVE  [Root!Next]_(Root!vars)
  BY <1>2 DEF Root!Next, Root!Tell, answer, default
<1>unseen. ASSUME NEW p \in Proc, UNCHANGED <<marker, sock>>,
                  at' = [at EXCEPT ![p] = at'[p]],
                  at[p] # "scoped", at'[p] # "scoped",
                  at[p] \in InRoot <=> at'[p] \in InRoot
           PROVE  Sees
  BY <1>unseen DEF AtOK, Told, InRoot, default, answer
<1>Resolve. ASSUME NEW p \in Proc, NEW s \in Socket,
                   NEW c \in {"no", "user", "daemon"}, Resolve(p, s, c)
            PROVE  Sees
  BY <1>Resolve DEF Resolve, Goes, resolving, AtOK, Told, InRoot, default,
     answer
<1>resolving. ASSUME NEW p \in Proc,
                     Lock(p) \/ CreateMarker(p) \/ WriteMarker(p)
              PROVE  Sees
  <2>1. /\ at[p] \in Resolving /\ at'[p] \in Resolving
        /\ at' = [at EXCEPT ![p] = at'[p]]
        /\ UNCHANGED <<marker, sock>>
    BY <1>resolving DEF Lock, CreateMarker, WriteMarker, Goes, AtOK,
       Resolving, asking
  <2>2. /\ at[p] \notin InRoot /\ at[p] # "scoped"
        /\ at'[p] \notin InRoot /\ at'[p] # "scoped"
    BY <2>1 DEF Resolving, InRoot
  <2> QED
    BY <2>1, <2>2, <1>unseen
<1>keeping. ASSUME NEW p \in Proc,
                   \/ Load(p) \/ SaveCreate(p) \/ SaveWrite(p) \/ SaveRename(p)
                   \/ SaveFails(p) \/ Forget(p) \/ ForgetHistory(p)
                   \/ ForgetTemp(p)
            PROVE  Sees
  <2>1. /\ at[p] \in InRoot /\ at'[p] \in InRoot
        /\ at' = [at EXCEPT ![p] = at'[p]]
        /\ UNCHANGED <<marker, sock>>
    BY <1>keeping DEF Load, SaveCreate, SaveWrite, SaveRename, SaveFails,
       Forget, ForgetHistory, ForgetTemp, Owns, Goes, AtOK, InRoot, resolving,
       asking
  <2>2. at[p] # "scoped" /\ at'[p] # "scoped"
    BY <2>1 DEF InRoot
  <2> QED
    BY <2>1, <2>2, <1>unseen
<1>RenameMarker. ASSUME NEW p \in Proc, RenameMarker(p)
                 PROVE  [Root!Next]_(Root!vars)
  <2>1. default = None /\ default' = sock[p] /\ sock[p] \in Socket
    BY <1>RenameMarker, NotNone DEF RenameMarker, AtOK, Claiming, default,
       Whole, asking
  <2>2. answer' = answer
    BY <1>RenameMarker DEF RenameMarker, Goes, asking, AtOK, Told, InRoot,
       answer
  <2> QED
    BY <2>1, <2>2 DEF Root!Next, Root!Decide, default, answer
<1>exits. ASSUME NEW p \in Proc, Ends(p) \/ MarkerFails(p)
          PROVE  [Root!Next]_(Root!vars)
  <2>1. answer' = [answer EXCEPT ![p] = None] /\ default' = default
    BY <1>exits DEF Ends, MarkerFails, Exits, Goes, AtOK, Told, InRoot,
       default, answer
  <2> QED
    BY <1>1, <2>1
<1>told. ASSUME NEW p \in Proc, Look(p) \/ Relook(p) \/ Claimed(p)
         PROVE  [Root!Next]_(Root!vars)
  <2>0. UNCHANGED <<marker, sock>> /\ sock[p] \in Socket /\ default' = default
    BY <1>told DEF Look, Relook, Claimed, AtOK, Claiming, resolving, asking,
       default
  <2>1. CASE at'[p] \notin InRoot \cup {"scoped"}
    <3>1. /\ at[p] \in {"look", "relook", "claimed"}
          /\ at' = [at EXCEPT ![p] = at'[p]]
      BY <1>told DEF Look, Relook, Claimed, Goes, AtOK
    <3>2. /\ at[p] \notin InRoot /\ at[p] # "scoped"
          /\ at'[p] \notin InRoot /\ at'[p] # "scoped"
      BY <2>1, <3>1 DEF InRoot
    <3> QED
      BY <2>0, <3>1, <3>2, <1>unseen, <1>0
  <2>2. CASE at'[p] \in InRoot \cup {"scoped"}
    <3>1. /\ at[p] \in {"look", "relook", "claimed"}
          /\ at' = [at EXCEPT ![p] = at'[p]]
      BY <1>told DEF Look, Relook, Claimed, Goes, AtOK
    <3>2. at'[p] \in InRoot <=> sock[p] = default
      BY <1>told, <2>0, <2>2, NotNone, NoneIsNobody DEF Look, Relook, Claimed,
         AtOK, Claiming, Pc, Resolving, Locked, InRoot, resolving, keeping,
         asking, Goes, Exits, Unlock, Owns, Answer, Answered, Whole, Told,
         default, answer
    <3>3. answer[p] = None
      BY <3>1 DEF answer, Told, InRoot
    <3>4. Told(p)' = [socket |-> sock[p], root |-> sock[p] = default]
      BY <2>0, <2>2, <3>2 DEF Told, InRoot
    <3>5. \A q \in Proc : q # p => Told(q)' = Told(q)
      BY <3>1, <2>0 DEF Told, AtOK
    <3>6. answer' = [answer EXCEPT ![p] =
                       [socket |-> sock[p], root |-> sock[p] = default]]
      BY <3>4, <3>5 DEF answer
    <3> QED
      BY <1>2, <2>0, <3>3, <3>6
  <2> QED
    BY <2>1, <2>2
<1>stutter. ASSUME UNCHANGED vars PROVE Sees
  BY <1>stutter DEF vars, asking, resolving, Told, default, answer
<1> HIDE DEF Sees
<1> QED
  BY <1>0, <1>told, <1>Resolve, <1>resolving, <1>keeping, <1>RenameMarker,
     <1>exits, <1>stutter DEF Next, Step

-----------------------------------------------------------------------------
(* The theorems. *)

IInv == AtOK /\ Claiming /\ Keeping

LEMMA InvStep == IInv /\ [Next]_vars => IInv'
  BY AtStep, ClaimStep, KeepStep DEF IInv

LEMMA InvAlways == Spec => []IInv
  <1>1. Init => IInv
    BY InitInv, InitKeeping DEF IInv
  <1> QED
    BY <1>1, InvStep, PTL DEF Spec

(* The resolution of the default socket implements Namespace: whoever      *)
(* races, whatever their environments say, wherever they are killed.       *)
THEOREM NamespaceImplemented == Spec => DecidedOnce
  <1>1. IInv /\ IInv' /\ [Next]_vars => [Root!Next]_(Root!vars)
    BY StepRefines DEF IInv
  <1> QED
    BY <1>1, InitRefines, InvAlways, PTL DEF Spec, DecidedOnce, Root!Spec

(* The root's history is the default socket's, or older than the marker. *)
THEOREM RootHasOneTenant == Spec => []OneTenant
  <1>1. ASSUME IInv PROVE OneTenant
    <2>1. \A p \in Proc : mem[p] # None => mem[p].of \subseteq Tenants
      BY <1>1 DEF IInv, Keeping
    <2>2. \A f \in {history, temp} \ {None} : f.data.of \subseteq Tenants
      BY <1>1 DEF IInv, Keeping
    <2> QED
      BY <2>1, <2>2 DEF OneTenant, Tenants
  <1> QED
    BY <1>1, InvAlways, PTL

(* What is read was written to its end, wherever a writer died. *)
THEOREM FilesAreWhole == Spec => []WholeFiles
  <1>1. IInv => WholeFiles
    BY DEF IInv, Keeping, Claiming, WholeFiles, Whole
  <1> QED
    BY <1>1, InvAlways, PTL

(* A forgotten history stays forgotten, wherever --forget was killed. *)
THEOREM ForgottenIsForgotten == Spec => []ForgottenStaysGone
  <1>1. IInv => ForgottenStaysGone
    BY DEF IInv, Keeping, ForgottenStaysGone, Sampling
  <1> QED
    BY <1>1, InvAlways, PTL
=============================================================================
