------------------------------ MODULE Namespace ------------------------------
(***************************************************************************)
(* What the state root promises (README, "initialized under a global       *)
(* lock"): one socket, decided once and for good, is the default and has   *)
(* the unscoped root; a process asking for any other is told to keep to    *)
(* its own directory.                                                      *)
(***************************************************************************)
CONSTANTS Proc, Socket, None

VARIABLES
  default,   \* the default socket, or None while it is undecided
  answer     \* what each process was told about its socket, or None

vars == <<default, answer>>

Init ==
  /\ default \in Socket \cup {None}
  /\ answer = [p \in Proc |-> None]

Decide(s) ==
  /\ default = None
  /\ default' = s
  /\ UNCHANGED answer

Tell(p, s) ==
  /\ answer[p] = None
  /\ answer' = [answer EXCEPT ![p] =
                  [socket |-> s, root |-> s = default]]
  /\ UNCHANGED default

Leave(p) ==
  /\ answer' = [answer EXCEPT ![p] = None]
  /\ UNCHANGED default

Next ==
  \/ \E s \in Socket : Decide(s)
  \/ \E p \in Proc : Leave(p) \/ \E s \in Socket : Tell(p, s)

Spec == Init /\ [][Next]_vars
=============================================================================
