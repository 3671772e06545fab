---------------------------- MODULE RequestService ----------------------------
(***************************************************************************)
(* What the serve loop promises, with no node, inbox, stream or round in   *)
(* it: only requests somebody sent are executed, each once in a life of    *)
(* the host, however often it is delivered.  The promise is bounded: after *)
(* more than Cap other requests an old one may be taken for a new one.     *)
(***************************************************************************)
EXTENDS Integers, FiniteSets

CONSTANTS
  Requests,  \* reply tokens of requests
  Cap        \* number of different requests within which none runs again

VARIABLES
  asked,     \* requests sent so far
  times      \* times[t]: executions of t since the host started

vars == <<asked, times>>

Executed == {t \in Requests : times[t] > 0}

Init == asked = {} /\ times = [t \in Requests |-> 0]

Ask(t) ==
  /\ asked' = asked \union {t}
  /\ UNCHANGED times

Execute(t) ==
  /\ t \in asked
  /\ t \notin Executed \/ Cardinality(Executed) > Cap
  /\ times' = [times EXCEPT ![t] = @ + 1]
  /\ UNCHANGED asked

Restart ==
  /\ times' = [t \in Requests |-> 0]
  /\ UNCHANGED asked

Next ==
  \/ \E t \in Requests : Ask(t) \/ Execute(t)
  \/ Restart

Spec == Init /\ [][Next]_vars
===============================================================================
