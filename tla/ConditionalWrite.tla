--------------------------- MODULE ConditionalWrite ---------------------------
(***************************************************************************)
(* The paths of a hosted drive as several clients change them.  A write    *)
(* may be conditional on the etag the client last read: the host refuses   *)
(* it when the path now holds something else.  Handlers run under the      *)
(* registry lock, one at a time; the operations of other devices are       *)
(* merged into the drive at any time, whoever holds that lock.  So a write *)
(* takes three steps, with merges in between: it checks the etag, waits    *)
(* for add_file to apply it, and reads the etag of its reply.  The other   *)
(* handlers compare nothing before they wait: a merge that comes in while  *)
(* one of them waits comes before or after it.                             *)
(*                                                                         *)
(* The drive behind add_file, mkdir, mv and rm is external: a name is      *)
(* bound to one node, and writing to a file keeps its node.  A file at a   *)
(* directory's name is taken to fail.                                      *)
(*                                                                         *)
(* A request that was executed may run once more: the host knows the       *)
(* requests it has seen by a set that it clears at a cap and that does not *)
(* outlive it, and the node's inbox may still hold the request (ServeLoop). *)
(***************************************************************************)
EXTENDS Integers

CONSTANTS
  Clients, Names,
  Cids,        \* contents
  None,        \* no cid (a directory, or nothing), no etag held
  MaxClock, MaxEdits   \* bounds for model checking only

ASSUME ConditionalWriteAssumption ==
  /\ None \notin Cids
  /\ MaxClock \in Nat \ {0} /\ MaxEdits \in Nat

VARIABLES
  clock,     \* the host's clock, in milliseconds
  dir,       \* dir[n]: what name n is bound to, for the names that are
  edits,     \* changes so far: the id of the next node
  writing,   \* the write whose handler holds the lock, or None; node is 0 as
             \* long as add_file has not taken effect; crossed (history) tells
             \* that a merge touched the name since the step before
  held,      \* held[c]: the etag client c holds, with its name and content
  stale,     \* history: the name has changed since the host made c's etag
  left,      \* an executed write that the node's inbox still holds
  last       \* history: the step before was a write with this outcome

vars == <<clock, dir, edits, writing, held, stale, left, last>>

Entry == [node : 1..MaxEdits, cid : Cids \union {None}, mtime : 1..MaxClock]

(* Fault: the modification time alone. *)
EtagMtime(e) == IF e.cid = None THEN [dir |-> e.node] ELSE [mtime |-> e.mtime]

(* Fault: a directory is not told from a file. *)
EtagOfFile(e) == [cid |-> e.cid, mtime |-> e.mtime]

(* etag_for: content and modification time, or the node of a directory. *)
Etag(e) ==
  IF e.cid = None THEN [dir |-> e.node] ELSE [cid |-> e.cid, mtime |-> e.mtime]

(* cid is what the client read or wrote; crossed (history) tells that a     *)
(* merge came in after its write and before the etag was read.              *)
Hold(n, e) == [name |-> n, etag |-> Etag(e), cid |-> e.cid, crossed |-> FALSE]

Init ==
  /\ clock = 1 /\ dir = << >> /\ edits = 0
  /\ writing = None
  /\ held = [c \in Clients |-> None]
  /\ stale = [c \in Clients |-> FALSE]
  /\ left = None /\ last = None

-------------------------------------------------------------------------------
Bound == DOMAIN dir
IsFile(n) == n \in Bound /\ dir[n].cid # None
CidAt(n) == IF n \in Bound THEN dir[n].cid ELSE None
With(n, e) == [m \in Bound \union {n} |-> IF m = n THEN e ELSE dir[m]]

(* What add_file, or mkdir, binds n to: the node it has, or a new one. *)
Made(n, cid, mtime) ==
  [node |-> IF n \in Bound THEN dir[n].node ELSE edits + 1, cid |-> cid, mtime |-> mtime]

(* The drive becomes d, changed at the names in ns. *)
Changed(d, ns) ==
  /\ edits < MaxEdits
  /\ edits' = edits + 1
  /\ dir' = d
  /\ stale' = [x \in Clients |-> stale[x] \/ (held[x] # None /\ held[x].name \in ns)]
  /\ UNCHANGED clock

-------------------------------------------------------------------------------
(* op_write *)

(* The check of op_write: only if the path resolves, and only against a     *)
(* base etag the client gave.                                               *)
Refuses(n, base) == n \in Bound /\ base # None /\ base.etag # Etag(dir[n])

(* An unconditional write, or one on the etag c holds of n. *)
Bases(c, n) == {None} \union {h \in {held[c]} : h # None /\ h.name = n}

Asks(c, n, cid, base) == [client |-> c, name |-> n, cid |-> cid, base |-> base]

Outcome(r, crossed, result) ==
  [result |-> result, conditional |-> r.base # None, over |-> CidAt(r.name),
   base |-> IF r.base = None THEN None ELSE r.base.cid,
   crossed |-> crossed \/ (r.base # None /\ r.base.crossed),
   stale |-> stale[r.client]]

(* The check lets r pass; the time of the new content is taken, and         *)
(* add_file is called.                                                      *)
Check(r, waits) ==
  /\ writing = None
  /\ ~Refuses(r.name, r.base)
  /\ writing' = [req |-> r, mtime |-> clock, waits |-> waits, node |-> 0, crossed |-> FALSE]
  /\ last' = None
  /\ UNCHANGED <<clock, dir, edits, held, stale>>

Write(r) == Check(r, TRUE) /\ left' \in {left, r}

(* The write in the inbox runs again, and nobody waits for its reply.  If   *)
(* it is refused now, nothing changes.                                      *)
Repeat == left # None /\ Check(left, FALSE) /\ UNCHANGED left

Refuse(r) ==
  /\ writing = None
  /\ Refuses(r.name, r.base)
  /\ last' = Outcome(r, FALSE, "conflict")
  /\ UNCHANGED <<clock, dir, edits, writing, held, stale, left>>

(* add_file takes effect, on what the name holds by now. *)
Apply ==
  /\ writing # None /\ writing.node = 0
  /\ LET r == writing.req
         e == Made(r.name, r.cid, writing.mtime)
     IN  /\ r.name \in Bound => IsFile(r.name)
         /\ last' = Outcome(r, writing.crossed, "written")
         /\ writing' = [writing EXCEPT !.node = e.node, !.crossed = FALSE]
         /\ Changed(With(r.name, e), {r.name})
  /\ UNCHANGED <<held, left>>

(* add_file fails; the reply is an error. *)
ApplyFails ==
  /\ writing # None /\ writing.node = 0
  /\ writing' = None /\ last' = None
  /\ UNCHANGED <<clock, dir, edits, held, stale, left>>

(* What the name was bound to, and the same node as it is now. *)
Put(w) == [node |-> w.node, cid |-> w.req.cid, mtime |-> w.mtime]

NodeNow(w) ==
  IF w.req.name \in Bound /\ dir[w.req.name].node = w.node
  THEN dir[w.req.name] ELSE Put(w)

(* Fault: the etag of the reply is made with the time of the reply. *)
WrittenNow(w) ==
  [name |-> w.req.name, etag |-> [cid |-> w.req.cid, mtime |-> clock],
   cid |-> w.req.cid, crossed |-> w.crossed]

(* What the Written reply tells the client: the etag of the node, once      *)
(* add_file has returned.                                                   *)
Written(w) ==
  [name |-> w.req.name, etag |-> Etag(NodeNow(w)), cid |-> w.req.cid, crossed |-> w.crossed]

(* heard: the reply gets to the client. *)
Reply(heard) ==
  /\ writing # None /\ writing.node # 0
  /\ heard => writing.waits
  /\ IF heard
     THEN /\ held' = [held EXCEPT ![writing.req.client] = Written(writing)]
          /\ stale' = [stale EXCEPT ![writing.req.client] = writing.crossed]
     ELSE UNCHANGED <<held, stale>>
  /\ writing' = None /\ last' = None
  /\ UNCHANGED <<clock, dir, edits, left>>

-------------------------------------------------------------------------------
(* The other handlers. *)

Handles(d, ns) ==
  /\ writing = None
  /\ Changed(d, ns)
  /\ last' = None
  /\ UNCHANGED <<writing, held, left>>

Copy(from, to) ==
  /\ IsFile(from) /\ (to \in Bound => IsFile(to))
  /\ Handles(With(to, Made(to, dir[from].cid, clock)), {to})

Mkdir(n) ==
  /\ n \notin Bound
  /\ Handles(With(n, Made(n, None, clock)), {n})

(* Move keeps the node, its content and its modification time. *)
Move(from, to) ==
  /\ from \in Bound /\ to \notin Bound
  /\ Handles([m \in (Bound \ {from}) \union {to} |-> IF m = to THEN dir[from] ELSE dir[m]],
             {from, to})

Without(n) == [m \in Bound \ {n} |-> dir[m]]

Delete(n) ==
  /\ n \in Bound
  /\ Handles(Without(n), {n})

Stat(c, n) ==
  /\ writing = None
  /\ n \in Bound
  /\ held' = [held EXCEPT ![c] = Hold(n, dir[n])]
  /\ stale' = [stale EXCEPT ![c] = FALSE]
  /\ last' = None
  /\ UNCHANGED <<clock, dir, edits, writing, left>>

-------------------------------------------------------------------------------
(* Other devices.  Their operations need no lock of the host's; times are    *)
(* those of their clocks.                                                    *)
Merged(d, n) ==
  /\ Changed(d, {n})
  /\ writing' = IF writing # None /\ writing.req.name = n
                THEN [writing EXCEPT !.crossed = TRUE] ELSE writing
  /\ last' = None
  /\ UNCHANGED <<held, left>>

(* The name gets a file or a directory.  A file may be the one it has, with *)
(* new content, or one that has taken its place.                            *)
MergeBinds(n, cid, mtime) ==
  \E node \in {edits + 1} \union {dir[m].node : m \in {x \in {n} : IsFile(x) /\ cid # None}} :
    Merged(With(n, [node |-> node, cid |-> cid, mtime |-> mtime]), n)

MergeRemoves(n) == n \in Bound /\ Merged(Without(n), n)

ClockTick ==
  /\ clock < MaxClock
  /\ clock' = clock + 1
  /\ last' = None
  /\ UNCHANGED <<dir, edits, writing, held, stale, left>>

Next ==
  \/ \E c \in Clients, n \in Names, cid \in Cids : \E base \in Bases(c, n) :
       Write(Asks(c, n, cid, base)) \/ Refuse(Asks(c, n, cid, base))
  \/ Repeat \/ Apply \/ ApplyFails
  \/ \E heard \in BOOLEAN : Reply(heard)
  \/ \E c \in Clients, n \in Names : Stat(c, n)
  \/ \E from \in Names, to \in Names : Copy(from, to)
  \/ \E n \in Names : Mkdir(n) \/ Delete(n)
  \/ \E from \in Names, to \in Names : Move(from, to)
  \/ \E n \in Names, cid \in Cids \union {None}, mtime \in 1..MaxClock : MergeBinds(n, cid, mtime)
  \/ \E n \in Names : MergeRemoves(n)
  \/ ClockTick

Spec == Init /\ [][Next]_vars

-------------------------------------------------------------------------------
Etags == [dir : 1..MaxEdits] \union [cid : Cids, mtime : 1..MaxClock]
Helds == [name : Names, etag : Etags, cid : Cids \union {None}, crossed : BOOLEAN]
Requests ==
  [client : Clients, name : Names, cid : Cids, base : Helds \union {None}]
Writings ==
  [req : Requests, mtime : 1..MaxClock, waits : BOOLEAN, node : 0..MaxEdits,
   crossed : BOOLEAN]
Outcomes ==
  [result : {"written", "conflict"}, conditional : BOOLEAN, over : Cids \union {None},
   base : Cids \union {None}, crossed : BOOLEAN, stale : BOOLEAN]

TypeOK ==
  /\ clock \in 1..MaxClock /\ edits \in 0..MaxEdits
  /\ Bound \subseteq Names /\ \A n \in Bound : dir[n] \in Entry
  /\ writing \in Writings \union {None}
  /\ held \in [Clients -> Helds \union {None}]
  /\ stale \in [Clients -> BOOLEAN]
  /\ left \in Requests \union {None}
  /\ last \in Outcomes \union {None}

(* A conditional write that succeeds over a file replaces the very content  *)
(* its client read, whichever clients of this host wrote, copied, moved or  *)
(* removed what in between, also within one millisecond, also when the      *)
(* request runs twice, and whatever was merged before its check: no update  *)
(* is lost.  Two windows are left out (crossed), for in them updates can be *)
(* lost: an operation of another device merged between the check and the    *)
(* application, and one merged between an earlier write of the client and   *)
(* the reading of the etag it was given for that.                           *)
NoLostUpdate ==
  last # None =>
    (last.result = "written" /\ last.conditional /\ last.over # None /\ ~last.crossed
       => last.base = last.over)

(* A write is refused only if the name has changed since the host made the  *)
(* etag the client holds, by another request, by one that ran again or by a *)
(* merge: the etag in a Written reply is the one the host compares with.    *)
RefusedOnlyIfChanged == last # None => (last.result = "conflict" => last.stale)
===============================================================================
