------------------------------ MODULE Replication ------------------------------
(***************************************************************************)
(* What the change feed promises its clients, with no cursor, no page and  *)
(* no reply in it: as long as the host lives, every replica is fed the     *)
(* recorded operations in the order they were recorded, each once and none *)
(* left out.  A client that bootstraps again skips what is ahead, never    *)
(* falls back, and a restart of the host cuts every replica off until it   *)
(* has bootstrapped again.  A restart may also take operations from the    *)
(* drive: no replica is told, and one may keep them until it bootstraps.   *)
(***************************************************************************)
EXTENDS Integers, Sequences

CONSTANTS
  Ops,       \* operations the feed records
  Mirrors    \* clients with a replica

VARIABLES
  recorded,  \* operations of the drive
  gone,      \* recorded once, and lost by a restart
  have,      \* have[m]: those in m's replica
  fed,       \* clients that bootstrapped since the host started
  due        \* due[m]: operations m has yet to be fed, in order

vars == <<recorded, gone, have, fed, due>>

Members(q) == {q[i] : i \in DOMAIN q}

Init ==
  /\ recorded = {} /\ gone = {} /\ fed = {}
  /\ have = [m \in Mirrors |-> {}]
  /\ due = [m \in Mirrors |-> << >>]

Record(op) ==
  /\ op \notin recorded \union gone
  /\ recorded' = recorded \union {op}
  /\ due' = [m \in Mirrors |-> IF m \in fed THEN Append(due[m], op) ELSE << >>]
  /\ UNCHANGED <<gone, have, fed>>

(* The next n operations that are due enter the replica. *)
Feed(m) ==
  /\ m \in fed
  /\ \E n \in 0..Len(due[m]) :
       /\ have' = [have EXCEPT ![m] = @ \union Members(SubSeq(due[m], 1, n))]
       /\ due' = [due EXCEPT ![m] = SubSeq(@, n + 1, Len(@))]
  /\ UNCHANGED <<recorded, gone, fed>>

(* The replica of m changes: it loses nothing the drive has. *)
Grow(m) ==
  /\ have[m] \subseteq have'[m] \union gone /\ have'[m] \subseteq recorded \union gone
  /\ \A other \in Mirrors \ {m} : have'[other] = have[other] /\ due'[other] = due[other]
  /\ UNCHANGED <<recorded, gone>>

Bootstrap(m) ==
  /\ Grow(m)
  /\ fed' = fed \union {m}
  /\ recorded \ have'[m] \subseteq Members(due'[m]) /\ Members(due'[m]) \subseteq recorded

(* A reply of the host before its restart comes in late. *)
Late(m) == m \notin fed /\ Grow(m) /\ UNCHANGED <<fed, due>>

Restart ==
  /\ fed' = {} /\ due' = [m \in Mirrors |-> << >>]
  /\ \E L \in SUBSET recorded : recorded' = recorded \ L /\ gone' = gone \union L
  /\ UNCHANGED have

Next ==
  \/ \E op \in Ops : Record(op)
  \/ \E m \in Mirrors : Feed(m) \/ Bootstrap(m) \/ Late(m)
  \/ Restart

Spec == Init /\ [][Next]_vars
===============================================================================
