------------------------------ MODULE MirrorSync ------------------------------
(***************************************************************************)
(* How a client keeps a replica of a hosted drive: Open hands it a         *)
(* published snapshot and a feed cursor, Poll hands it the changes after   *)
(* its cursor, one page at a time, and a beacon may wake it up.            *)
(*                                                                         *)
(* The host runs one request at a time.  Only Open gives up the registry   *)
(* lock half way: it serializes the drive, publishes the bytes with the    *)
(* lock released, and caches the snapshot under a second acquisition.      *)
(*                                                                         *)
(* The drive is the set of operations it holds.  Write, Mkdir, Move, Copy  *)
(* and Delete also enter the change feed; SetProp, Tag, Link and what      *)
(* ce-coord merges from other devices do not.  A host that crashes may come *)
(* back without operations it has acknowledged (Durability says when).     *)
(***************************************************************************)
EXTENDS Integers, Sequences, FiniteSets

CONSTANTS
  Fed,          \* operations a mutating handler records in the feed
  Meta,         \* operations of the metadata verbs
  Remote,       \* operations merged from other devices
  Mirrors,      \* clients that replicate the drive
  Limits,       \* page sizes clients ask for, 0 included
  MaxRestarts,  \* bound on host restarts, for model checking only
  None

ASSUME MirrorSyncAssumption ==
  /\ Limits \subseteq Nat
  /\ MaxRestarts \in Nat
  /\ Fed \intersect (Meta \union Remote) = {}
  /\ None \notin Mirrors

Ops == Fed \union Meta \union Remote

(* What Open hands out: the published object and the cursor it goes with. *)
Snapshots == [ops : SUBSET Ops, cursor : Nat]

(* A reply on its way to a client.  epoch is history: the host's life in    *)
(* which the reply was made.                                                *)
Replies == [kind : {"opened", "changes"}, ops : SUBSET Ops, cursor : Nat, epoch : Nat]

VARIABLES
  drive,     \* operations applied to the hosted drive
  lost,      \* history: operations a restart of the host has lost
  feed,      \* Feed.changes
  snapshot,  \* Tenant.snapshot: at most one cached [ops, cursor]
  pc, opener, bytes,   \* the Open being served: place, client, serialized state
  box,       \* box[m]: the reply under way to m, at most one
  have,      \* have[m]: operations in m's replica
  cursor,    \* cursor[m]: the feed cursor m polls from
  born,      \* born[m]: history, the epoch of m's bootstrap (0: not yet)
  epoch      \* history: number of boots of the host

openVars == <<pc, opener, bytes>>
clientVars == <<have, cursor, born>>
vars == <<drive, lost, feed, snapshot, pc, opener, bytes, box, have, cursor, born, epoch>>

-------------------------------------------------------------------------------
(* The feed. *)

(* Fault: the cursor of an empty feed is -1. *)
CursorMinusOne == IF feed = <<>> THEN -1 ELSE feed[Len(feed)].seq

Cursor == IF feed = <<>> THEN 0 ELSE feed[Len(feed)].seq

Recorded(op) == Append(feed, [seq |-> Cursor + 1, op |-> op])

(* Fault: a page limit of zero is taken as it is. *)
AsGiven(n) == n

AtLeastOne(n) == IF n > 1 THEN n ELSE 1

(* Seqs ascend along the feed, so the changes with seq > c are what is left *)
(* after the first Skipped(c).                                              *)
Skipped(c) == Cardinality({i \in DOMAIN feed : feed[i].seq <= c})

PageEnd(c, limit) ==
  LET last == Skipped(c) + AtLeastOne(limit)
  IN  IF last < Len(feed) THEN last ELSE Len(feed)

Page(c, limit) == {feed[i].op : i \in (Skipped(c) + 1)..PageEnd(c, limit)}

(* Fault: a poll hands back the feed's cursor, not that of the last change sent. *)
NewCursorFeed(c, limit) == Cursor

NewCursor(c, limit) ==
  IF PageEnd(c, limit) > Skipped(c) THEN feed[PageEnd(c, limit)].seq ELSE c

(* The operations a client polling from c has yet to be sent. *)
Ahead(c) == {feed[i].op : i \in {j \in DOMAIN feed : feed[j].seq > c}}

-------------------------------------------------------------------------------
Init ==
  /\ drive = {} /\ lost = {} /\ feed = <<>> /\ snapshot = {}
  /\ pc = "idle" /\ opener = None /\ bytes = {}
  /\ box = [m \in Mirrors |-> {}]
  /\ have = [m \in Mirrors |-> {}]
  /\ cursor = [m \in Mirrors |-> 0]
  /\ born = [m \in Mirrors |-> 0]
  /\ epoch = 1

Send(m, kind, ops, c) ==
  box' = [box EXCEPT ![m] = {[kind |-> kind, ops |-> ops, cursor |-> c, epoch |-> epoch]}]

(* Fault: another handler runs while Open publishes its snapshot. *)
TurnAnyTime == TRUE

(* The loop is serial: a handler runs when no other is half way. *)
Turn == pc = "idle"

(* A handler of Write, Mkdir, Move, Copy or Delete that succeeds: the drive *)
(* changes and the change is recorded under one lock.                       *)
Mutate(op) ==
  /\ Turn /\ op \notin drive \union lost
  /\ drive' = drive \union {op}
  /\ feed' = Recorded(op)
  /\ UNCHANGED <<lost, snapshot, openVars, box, clientVars, epoch>>

(* SetProp, Tag and Link change the drive and record nothing. *)
Annotate(op) ==
  /\ Turn /\ op \notin drive \union lost
  /\ drive' = drive \union {op}
  /\ UNCHANGED <<lost, feed, snapshot, openVars, box, clientVars, epoch>>

(* ce-coord merges another device's operation, or one that the host lost    *)
(* and another device still has, at any time.                               *)
Merge(op) ==
  /\ op \in Remote \union lost /\ op \notin drive
  /\ drive' = drive \union {op}
  /\ UNCHANGED <<lost, feed, snapshot, openVars, box, clientVars, epoch>>

(* Open, fast path: the cached snapshot was taken at the present cursor. *)
OpenCached(m) ==
  /\ Turn /\ box[m] = {}
  /\ \E s \in snapshot :
       /\ s.cursor = Cursor
       /\ Send(m, "opened", s.ops, s.cursor)
  /\ UNCHANGED <<drive, lost, feed, snapshot, openVars, clientVars, epoch>>

(* Open, slow path: serialize the drive, then publish with the lock free. *)
OpenSerialize(m) ==
  /\ Turn /\ box[m] = {}
  /\ \A s \in snapshot : s.cursor # Cursor
  /\ pc' = "put" /\ opener' = m /\ bytes' = drive
  /\ UNCHANGED <<drive, lost, feed, snapshot, box, clientVars, epoch>>

(* put_object returned: read the cursor now, cache, reply. *)
OpenPublished ==
  /\ pc = "put"
  /\ snapshot' = {[ops |-> bytes, cursor |-> Cursor]}
  /\ Send(opener, "opened", bytes, Cursor)
  /\ pc' = "idle" /\ opener' = None /\ bytes' = {}
  /\ UNCHANGED <<drive, lost, feed, clientVars, epoch>>

(* put_object failed: Internal, nothing is cached. *)
OpenFailed ==
  /\ pc = "put"
  /\ pc' = "idle" /\ opener' = None /\ bytes' = {}
  /\ UNCHANGED <<drive, lost, feed, snapshot, box, clientVars, epoch>>

(* Poll from the client's cursor. *)
Poll(m, limit) ==
  /\ Turn /\ born[m] # 0 /\ box[m] = {}
  /\ Send(m, "changes", Page(cursor[m], limit), NewCursor(cursor[m], limit))
  /\ UNCHANGED <<drive, lost, feed, snapshot, openVars, clientVars, epoch>>

-------------------------------------------------------------------------------
(* The client.  A new bootstrap replaces the replica; a page is added.      *)
Receive(m) ==
  \E r \in box[m] :
    /\ have' = [have EXCEPT ![m] = IF r.kind = "opened" THEN r.ops ELSE @ \union r.ops]
    /\ cursor' = [cursor EXCEPT ![m] = r.cursor]
    /\ born' = [born EXCEPT ![m] = IF r.kind = "opened" THEN r.epoch ELSE @]
    /\ box' = [box EXCEPT ![m] = {}]
    /\ UNCHANGED <<drive, lost, feed, snapshot, openVars, epoch>>

(* The reply is lost, or comes after the client has given up on it. *)
Lose(m) ==
  /\ box[m] # {}
  /\ box' = [box EXCEPT ![m] = {}]
  /\ UNCHANGED <<drive, lost, feed, snapshot, openVars, clientVars, epoch>>

(* The host restarts: the drive comes back from disk as far as it was saved *)
(* there, the feed and the snapshot cache start empty, the Open under way   *)
(* is gone.                                                                 *)
Restart ==
  /\ epoch <= MaxRestarts
  /\ epoch' = epoch + 1
  /\ drive' \in SUBSET drive
  /\ lost' = lost \union (drive \ drive')
  /\ feed' = <<>> /\ snapshot' = {}
  /\ pc' = "idle" /\ opener' = None /\ bytes' = {}
  /\ UNCHANGED <<box, clientVars>>

Next ==
  \/ \E op \in Fed : Mutate(op)
  \/ \E op \in Meta : Annotate(op)
  \/ \E op \in Ops : Merge(op)
  \/ \E m \in Mirrors : OpenCached(m) \/ OpenSerialize(m) \/ Receive(m) \/ Lose(m)
  \/ OpenPublished \/ OpenFailed
  \/ \E m \in Mirrors, limit \in Limits : Poll(m, limit)
  \/ Restart

Spec == Init /\ [][Next]_vars

(* A bootstrapped client keeps polling, with any page size, and not every   *)
(* reply to it is lost.  The host finishes the Open it has begun.           *)
Fairness ==
  /\ WF_vars(OpenPublished \/ OpenFailed)
  /\ \A m \in Mirrors : /\ SF_vars(\E limit \in Limits : Poll(m, limit))
                        /\ SF_vars(Receive(m) /\ born[m] # 0)

LiveSpec == Spec /\ Fairness

-------------------------------------------------------------------------------
(* The operations in the feed's care: recorded, and never lost by the host. *)
(* One that comes back from another device is not recorded again.           *)
Promised == (Fed \intersect drive) \ lost

(* What m has yet to be sent: the feed after its cursor. *)
Due(m) ==
  IF born[m] = epoch
  THEN [i \in 1..(Len(feed) - cursor[m]) |-> feed[cursor[m] + i].op]
  ELSE << >>

Replication == INSTANCE Replication WITH
  Ops <- Fed,
  recorded <- Promised,
  gone <- Fed \intersect lost,
  have <- [m \in Mirrors |-> Fed \intersect have[m]],
  fed <- {m \in Mirrors : born[m] = epoch},
  due <- [m \in Mirrors |-> Due(m)]

TypeOK ==
  /\ drive \subseteq Ops /\ lost \subseteq Ops
  /\ feed \in Seq([seq : Nat, op : Fed])
  /\ snapshot \subseteq Snapshots
  /\ pc \in {"idle", "put"} /\ opener \in Mirrors \union {None} /\ bytes \subseteq Ops
  /\ box \in [Mirrors -> SUBSET Replies]
  /\ have \in [Mirrors -> SUBSET Ops]
  /\ cursor \in [Mirrors -> Nat]
  /\ born \in [Mirrors -> Nat]
  /\ epoch \in Nat

(* The cached snapshot together with the feed from its cursor holds every   *)
(* recorded operation the host still has: a client that bootstraps from it  *)
(* and then polls misses none.  Open reads the cursor only after publishing. *)
SnapshotThenFeed ==
  \A s \in snapshot : Promised \subseteq s.ops \union Ahead(s.cursor)


(* A client's cursor never runs backwards, also across a restart of the     *)
(* host or a second Open in the same life of it, unless the client          *)
(* bootstraps in a later life: no recorded operation is sent twice.         *)
CursorsAdvance ==
  [][\A m \in Mirrors : born'[m] = born[m] => cursor'[m] >= cursor[m]]_vars

(* A poll whose reply leaves the cursor where it was tells the client that  *)
(* its replica has all that is promised it: whatever page size it asks for  *)
(* a client that is behind is moved on, and need not ask again otherwise.   *)
QuietWhenComplete ==
  [][\A m \in Mirrors, limit \in Limits :
       born[m] = epoch /\ Poll(m, limit) =>
         \A r \in box'[m] : r.cursor = cursor[m] => Promised \subseteq have[m]]_vars

(* Cursors, pages, cached snapshots, lost and late replies and a host that  *)
(* restarts, with less than it had, implement Replication: as long as the   *)
(* host lives the feed is gap-free and resumable.                           *)
ImplementsReplication == Replication!Spec

(* A polling client of this life of the host gets every promised operation, *)
(* or the host restarts, or it bootstraps anew.                             *)
CatchesUp ==
  \A m \in Mirrors, op \in Fed :
    (op \in Promised /\ born[m] = epoch) ~> (op \in have[m] \/ born[m] # epoch)

(* What op_open's comment claims of its fast path: it reuses the snapshot   *)
(* "when the drive hasn't advanced since it was taken".                     *)
CachedSnapshotCurrent ==
  \A s \in snapshot : s.cursor = Cursor => s.ops = drive
===============================================================================
