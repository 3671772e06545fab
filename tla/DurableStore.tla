----------------------------- MODULE DurableStore -----------------------------
(***************************************************************************)
(* What a hosted drive promises its clients, with no file and no task in   *)
(* it: a request's records enter the store one by one, in order, and the   *)
(* request is acknowledged when all are in.  A crash loses whole requests  *)
(* only, whatever their outcome was, and only such as were at risk; what   *)
(* is no longer at risk is there for good.                                 *)
(***************************************************************************)
EXTENDS Integers

CONSTANTS
  Reqs,      \* mutating requests
  Files      \* those of two records, the name and then the bytes

VARIABLES
  store,     \* records a client can read, or could if the host were up
  atRisk,    \* records that a crash may lose
  acked      \* requests acknowledged

vars == <<store, atRisk, acked>>

Recs(r) == {r} \X (IF r \in Files THEN {1, 2} ELSE {1})

Init == store = {} /\ atRisk = {} /\ acked = {}

(* The next record of a request not acknowledged yet. *)
Put(r, part) ==
  /\ r \notin acked /\ <<r, part>> \in Recs(r)
  /\ part = 2 => <<r, 1>> \in store
  /\ store' = store \union {<<r, part>>}
  /\ atRisk' \in {atRisk, atRisk \union {<<r, part>>}}
  /\ UNCHANGED acked

Ack(r) ==
  /\ Recs(r) \subseteq store
  /\ acked' = acked \union {r}
  /\ UNCHANGED <<store, atRisk>>

(* Records of the store are safe from now on. *)
Secure ==
  /\ atRisk' \subseteq atRisk
  /\ atRisk \ atRisk' \subseteq store
  /\ UNCHANGED <<store, acked>>

Crash(lost) ==
  /\ {rec \in store : rec[1] \in lost} \subseteq atRisk
  /\ store' = {rec \in store : rec[1] \notin lost}
  /\ UNCHANGED <<atRisk, acked>>

Next ==
  \/ \E r \in Reqs, part \in {1, 2} : Put(r, part)
  \/ \E r \in Reqs : Ack(r)
  \/ Secure
  \/ \E lost \in SUBSET Reqs : Crash(lost)

Spec == Init /\ [][Next]_vars
===============================================================================
