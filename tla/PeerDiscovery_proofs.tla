------------------------ MODULE PeerDiscovery_proofs ------------------------
(***************************************************************************)
(* Proofs about PeerDiscovery, for any sets of nodes and drives.           *)
(***************************************************************************)
EXTENDS PeerDiscovery, TLAPS

(* What each place of the task says of its variables. *)
Control ==
  /\ pc \in {"lock", "add"} <=> peer # None
  /\ pc # "add" => todo = {}
  /\ pc = "status" <=> me = None

(* The host takes itself up only without knowing its own id. *)
SelfUnknown ==
  Self \in known \/ peer = Self \/ (\E d \in Drives : Self \in writers[d]) => me = Unset

(* Nothing has been taken up before the task has asked for its own id. *)
NothingYet == pc = "status" => known = {} /\ \A d \in Drives : Self \notin writers[d]

Inv == TypeOK /\ Control /\ KnownFollowed /\ SelfUnknown /\ NothingYet

LEMMA InitInv == Init => Inv
  BY PeerDiscoveryAssumption
  DEF Init, Inv, TypeOK, Control, KnownFollowed, SelfUnknown, NothingYet, Nodes

LEMMA StepInv == ASSUME Inv, [Next]_vars PROVE Inv'
<1> USE PeerDiscoveryAssumption DEF Inv, TypeOK, Control, KnownFollowed, SelfUnknown, NothingYet, Nodes, taskVars
<1>1. ASSUME NEW p \in Peers, Join(p) PROVE Inv'
  BY <1>1 DEF Join
<1>2. CASE Request
  BY <1>2 DEF Request
<1>3. CASE Acquire
  BY <1>3 DEF Acquire
<1>4. CASE Release
  BY <1>4 DEF Release
<1>5. CASE Status
  BY <1>5 DEF Status
<1>6. CASE LookupFail
  BY <1>6 DEF LookupFail, AfterFailedLookup
<1>7. CASE Lock
  BY <1>7 DEF Lock
<1>8. CASE Added
  BY <1>8 DEF Added, LockDropped
<1>9. CASE RoundDone
  BY <1>9 DEF RoundDone
<1>10. ASSUME NEW s \in SUBSET Nodes, LookupOk(s) PROVE Inv'
  BY <1>10 DEF LookupOk
<1>11. ASSUME NEW p \in Nodes, Skip(p) PROVE Inv'
  BY <1>11 DEF Skip
<1>12. ASSUME NEW p \in Nodes, TakeUp(p) PROVE Inv'
  BY <1>12 DEF TakeUp, IsNew
<1>13. ASSUME NEW d \in Drives, AddOk(d) PROVE Inv'
  BY <1>13 DEF AddOk, Followed
<1>14. ASSUME NEW d \in Drives, AddFail(d) PROVE Inv'
  BY <1>14 DEF AddFail, LeftAfterFailure
<1>15. CASE UNCHANGED vars
  BY <1>15 DEF vars
<1>16. QED
  BY <1>1, <1>2, <1>3, <1>4, <1>5, <1>6, <1>7, <1>8, <1>9, <1>10, <1>11, <1>12, <1>13, <1>14, <1>15
  DEF Next, Task

LEMMA InvHolds == Spec => []Inv
  BY InitInv, StepInv, PTL DEF Spec

(* Type correctness: drives follow nodes, and the task is where it says.    *)
THEOREM TypeCorrect == Spec => []TypeOK
<1>1. Inv => TypeOK
  BY DEF Inv
<1>2. QED
  BY <1>1, InvHolds, PTL

(* A peer taken up is followed by every drive but those whose own call      *)
(* failed and those the task is still at.                                   *)
THEOREM NoPeerDroppedHalfWay == Spec => []KnownFollowed
<1>1. Inv => KnownFollowed
  BY DEF Inv
<1>2. QED
  BY <1>1, InvHolds, PTL

(* A host that knows its own id never follows its own log.                  *)
THEOREM NeverFollowsItself == Spec => []SelfNotFollowed
<1>1. Inv => SelfNotFollowed
  BY DEF Inv, SelfUnknown, SelfNotFollowed
<1>2. QED
  BY <1>1, InvHolds, PTL
=============================================================================
