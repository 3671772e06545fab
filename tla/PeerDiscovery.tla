---------------------------- MODULE PeerDiscovery ----------------------------
(***************************************************************************)
(* The background task that grows the replica set: ask the DHT every       *)
(* minute who advertises ce-drive, and add every peer not known yet to     *)
(* each hosted drive with add_writer, the registry lock held across the    *)
(* call.  Requests need the same lock.                                     *)
(*                                                                         *)
(* The DHT and ce-coord are external: a lookup may fail or answer any part *)
(* of the nodes that advertise, this one included; add_writer may fail.    *)
(***************************************************************************)
EXTENDS Integers, FiniteSets

CONSTANTS
  Peers,      \* other nodes that may host the drives
  Self,       \* this node
  Unset,      \* the node id used when status() fails: the empty string
  Drives,     \* drives of the command line
  Explicit,   \* peers given with --peer: writers from the start
  None

ASSUME PeerDiscoveryAssumption ==
  /\ Self \notin Peers /\ Unset \notin Peers \union {Self}
  /\ Explicit \subseteq Peers
  /\ None \notin Peers \union {Self, Unset} \union Drives

Nodes == Peers \union {Self}

VARIABLES
  ads,       \* nodes that advertise ce-drive: they join and do not leave
  writers,   \* writers[d]: nodes whose log drive d follows
  me,        \* this node's id as the task believes it, None before it asked
  known,     \* peers the task has taken up
  found,     \* peers of the last lookup still to look at
  pc, peer, todo,  \* place of the task, the peer at hand, drives left for it
  lock,      \* "free", "task", or "serve"
  waiting,   \* a request waits for the registry lock
  failed     \* history: <<peer, drive>> whose add_writer failed

taskVars == <<me, known, found, pc, peer, todo>>
vars == <<ads, writers, me, known, found, pc, peer, todo, lock, waiting, failed>>

Init ==
  /\ ads = {Self}
  /\ writers = [d \in Drives |-> Explicit]
  /\ me = None /\ known = {} /\ found = {}
  /\ pc = "status" /\ peer = None /\ todo = {}
  /\ lock = "free" /\ waiting = FALSE
  /\ failed = {}

(* Another node starts advertising. *)
Join(p) ==
  /\ p \notin ads
  /\ ads' = ads \union {p}
  /\ UNCHANGED <<writers, taskVars, lock, waiting, failed>>

(* A request comes in, takes the lock, and lets go of it. *)
Request ==
  /\ ~waiting /\ lock # "serve"
  /\ waiting' = TRUE
  /\ UNCHANGED <<ads, writers, taskVars, lock, failed>>

Acquire ==
  /\ waiting /\ lock = "free"
  /\ waiting' = FALSE /\ lock' = "serve"
  /\ UNCHANGED <<ads, writers, taskVars, failed>>

Release ==
  /\ lock = "serve"
  /\ lock' = "free"
  /\ UNCHANGED <<ads, writers, taskVars, waiting, failed>>

-------------------------------------------------------------------------------
(* status(), once: the id is the empty string when the call fails. *)
Status ==
  /\ pc = "status"
  /\ me' \in {Self, Unset}
  /\ pc' = "sleep"
  /\ UNCHANGED <<ads, writers, known, found, peer, todo, lock, waiting, failed>>

(* The minute is over: look up; nothing happens on an error. *)
LookupOk(s) ==
  /\ pc = "sleep" /\ s \subseteq ads
  /\ found' = s /\ pc' = "peers"
  /\ UNCHANGED <<ads, writers, me, known, peer, todo, lock, waiting, failed>>

(* Fault: a failed lookup ends the task. *)
AfterFailedLookupStop == "stopped"

(* It is logged, and the task sleeps another minute. *)
AfterFailedLookup == "sleep"

LookupFail ==
  /\ pc = "sleep"
  /\ pc' = AfterFailedLookup
  /\ UNCHANGED <<ads, writers, me, known, found, peer, todo, lock, waiting, failed>>

(* Fault: the task does not compare the peer with its own id. *)
IsNewEvenSelf(p) == p \notin known

IsNew(p) == p # me /\ p \notin known

(* Skip this node and peers taken up before. *)
Skip(p) ==
  /\ pc = "peers" /\ p \in found
  /\ ~IsNew(p)
  /\ found' = found \ {p}
  /\ UNCHANGED <<ads, writers, me, known, pc, peer, todo, lock, waiting, failed>>

(* Take up a new peer: it is known from here on, then wait for the lock. *)
TakeUp(p) ==
  /\ pc = "peers" /\ p \in found
  /\ IsNew(p)
  /\ found' = found \ {p}
  /\ known' = known \union {p}
  /\ pc' = "lock" /\ peer' = p
  /\ UNCHANGED <<ads, writers, me, todo, lock, waiting, failed>>

Lock ==
  /\ pc = "lock" /\ lock = "free"
  /\ lock' = "task" /\ pc' = "add" /\ todo' = Drives
  /\ UNCHANGED <<ads, writers, me, known, found, peer, waiting, failed>>

(* Fault: the id handed to add_writer is this node's own. *)
OwnId == me

Followed == peer

AddOk(d) ==
  /\ pc = "add" /\ d \in todo
  /\ writers' = [writers EXCEPT ![d] = @ \union {Followed}]
  /\ todo' = todo \ {d}
  /\ UNCHANGED <<ads, me, known, found, pc, peer, lock, waiting, failed>>

(* Fault: the first failed call leaves the loop over the drives. *)
LeftNone(d) == {}

LeftAfterFailure(d) == todo \ {d}

(* add_writer failed: logged. *)
AddFail(d) ==
  /\ pc = "add" /\ d \in todo
  /\ failed' = failed \union {<<peer, d>>}
  /\ todo' = LeftAfterFailure(d)
  /\ UNCHANGED <<ads, writers, me, known, found, pc, peer, lock, waiting>>

(* Fault: the guard is not dropped between two peers. *)
LockKept == lock

LockDropped == "free"

(* All drives done: the guard is dropped. *)
Added ==
  /\ pc = "add" /\ todo = {}
  /\ lock' = LockDropped /\ pc' = "peers" /\ peer' = None
  /\ UNCHANGED <<ads, writers, me, known, found, todo, waiting, failed>>

RoundDone ==
  /\ pc = "peers" /\ found = {}
  /\ pc' = "sleep"
  /\ UNCHANGED <<ads, writers, me, known, found, peer, todo, lock, waiting, failed>>

Task ==
  \/ Status \/ LookupFail \/ Lock \/ Added \/ RoundDone
  \/ \E s \in SUBSET Nodes : LookupOk(s)
  \/ \E p \in Nodes : Skip(p) \/ TakeUp(p)
  \/ \E d \in Drives : AddOk(d) \/ AddFail(d)

Next ==
  \/ \E p \in Peers : Join(p)
  \/ Request \/ Acquire \/ Release
  \/ Task

Spec == Init /\ [][Next]_vars

(* The task keeps running, and a node that advertises is found again and    *)
(* again.  Nothing is assumed of add_writer but that the call returns.      *)
(* Handlers end, and tokio's mutex is first come first served.              *)
Finds(p) == \E s \in SUBSET Nodes : p \in s /\ LookupOk(s)

Fairness ==
  /\ WF_vars(Status) /\ WF_vars(RoundDone) /\ WF_vars(Added)
  /\ WF_vars(\E p \in Nodes : Skip(p) \/ TakeUp(p))
  /\ SF_vars(Lock)
  /\ WF_vars(\E d \in Drives : AddOk(d) \/ AddFail(d))
  /\ \A p \in Peers : SF_vars(Finds(p))
  /\ SF_vars(Acquire) /\ WF_vars(Release)

LiveSpec == Spec /\ Fairness

-------------------------------------------------------------------------------
TypeOK ==
  /\ ads \subseteq Nodes
  /\ writers \in [Drives -> SUBSET Nodes]
  /\ me \in {None, Self, Unset}
  /\ known \subseteq Nodes /\ found \subseteq Nodes
  /\ pc \in {"status", "sleep", "peers", "lock", "add"}
  /\ peer \in Nodes \union {None} /\ todo \subseteq Drives
  /\ lock \in {"free", "task", "serve"} /\ waiting \in BOOLEAN
  /\ failed \subseteq Nodes \X Drives

(* A peer once taken up follows every drive, but for the drives whose own   *)
(* call failed and those the task is still at: a failure on one drive costs *)
(* no other drive, and no peer is dropped half way.                         *)
KnownFollowed ==
  \A p \in known, d \in Drives :
    \/ p \in writers[d] \/ <<p, d>> \in failed
    \/ p = peer /\ (pc = "lock" \/ d \in todo)

(* The host follows itself only if status() failed at the start. *)
SelfNotFollowed ==
  (\E d \in Drives : Self \in writers[d]) => me = Unset

(* "requiring a restart to notice it would make the replica set a function  *)
(* of who happened to be awake first": every node that starts advertising,  *)
(* at whatever time, is tried on every drive.                               *)
EveryPeerTried ==
  \A p \in Peers, d \in Drives :
    (p \in ads) ~> (p \in writers[d] \/ <<p, d>> \in failed)

(* A request that waits for the registry lock gets it although the task     *)
(* holds the lock across calls to ce-coord.                                 *)
RequestsServed == waiting ~> ~waiting
===============================================================================
