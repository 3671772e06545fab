------------------------------ MODULE Durability ------------------------------
(***************************************************************************)
(* How a hosted drive survives a restart: the write-ahead journal, the     *)
(* periodic snapshot that lets the journal be reset, the checkpoint, and   *)
(* the boot path that puts them back together.                             *)
(*                                                                         *)
(* Two tasks share the registry mutex: the serve loop, which runs one      *)
(* mutating request at a time and holds the lock while the drive library   *)
(* journals and applies the request's records, and the durability task,    *)
(* which takes the lock three times per drive and tick (to_state, reset,   *)
(* checkpoint) and writes the state file with the lock released.           *)
(*                                                                         *)
(* A drive is the set of records applied to it: every record is a          *)
(* timestamped CRDT operation, so applying one twice or in another order   *)
(* gives the same drive.  The journal file and the state file are sets of  *)
(* records too.                                                            *)
(***************************************************************************)
EXTENDS Integers, FiniteSets

CONSTANTS
  Drives,            \* drive ids this host serves (--drive)
  Reqs,              \* mutating requests, each with its own reply token
  Files,             \* the Write and Copy requests: add_file journals two records
  DriveOf,           \* the drive a request names
  CheckpointEvery,   \* CHECKPOINT_EVERY
  TickWrap,          \* 2^32 in the code: the tick counter is a wrapping u32
  MaxCrashes,        \* bound on crashes, for model checking only
  None               \* no request, no drive

ASSUME DurabilityAssumption ==
  /\ Files \subseteq Reqs
  /\ DriveOf \in [Reqs -> Drives]
  /\ CheckpointEvery \in Nat \ {0}
  /\ TickWrap \in Nat \ {0}
  /\ MaxCrashes \in Nat
  /\ None \notin Reqs /\ None \notin Drives

VARIABLES
  up,        \* the host process runs
  mem,       \* mem[d]: records applied to the served drive
  snap,      \* snap[d]: records in <drive>.cedrive
  journal,   \* journal[d]: whole records in <drive>.cejournal
  ckpt,      \* ckpt[d]: records in the last checkpoint published for d
  lock,      \* holder of the registry mutex across an await
  pcS, cur, part,          \* serve loop: place, request, record being written
  pcT, tick, todo, tgt, image,  \* durability task
  acked,     \* requests whose Ok reply was sent
  finished,  \* requests that were answered, with Ok or with an error
  raced,     \* history: records journaled while a snapshot of their drive was
             \* between to_state and reset, and not yet in a later state file
  crashes

serveVars == <<pcS, cur, part>>
taskVars == <<pcT, tick, todo, tgt, image>>
diskVars == <<snap, journal, ckpt>>
doneVars == <<acked, finished, raced, crashes>>
vars == <<up, mem, snap, journal, ckpt, lock, pcS, cur, part,
          pcT, tick, todo, tgt, image, acked, finished, raced, crashes>>

-------------------------------------------------------------------------------
(* add_file journals a move record and a content record; mkdir, mv, rm and  *)
(* every metadata verb journal one.                                         *)
Parts(r) == IF r \in Files THEN {1, 2} ELSE {1}
LastPart(r) == IF r \in Files THEN 2 ELSE 1
Recs(r) == {r} \X Parts(r)
Records == {rec \in Reqs \X {1, 2} : rec[2] \in Parts(rec[1])}

(* The files of a drive. *)
Disk(d) == snap[d] \union journal[d]


(* What a boot finds: the state file and the journal replayed on top of it. *)
Booted(d) == Disk(d)

(* The snapshot of drive d is between to_state and the journal reset. *)
Snapshotting(d) == pcT \in {"save", "reset"} /\ tgt = d

Init ==
  /\ up = TRUE
  /\ mem = [d \in Drives |-> {}]
  /\ snap = [d \in Drives |-> {}]
  /\ journal = [d \in Drives |-> {}]
  /\ ckpt = [d \in Drives |-> {}]
  /\ lock = "free"
  /\ pcS = "idle" /\ cur = None /\ part = 1
  /\ pcT = "sleep" /\ tick = 0 /\ todo = {} /\ tgt = None /\ image = {}
  /\ acked = {} /\ finished = {} /\ raced = {}
  /\ crashes = 0

-------------------------------------------------------------------------------
(* The serve loop. *)

(* A mutating handler takes the registry lock. *)
Begin(r) ==
  /\ up /\ pcS = "idle" /\ lock = "free"
  /\ r \notin finished
  /\ lock' = "serve" /\ pcS' = "append" /\ cur' = r /\ part' = 1
  /\ UNCHANGED <<up, mem, diskVars, taskVars, doneVars>>

(* Write-ahead: the record is in the journal, fsynced, before it is applied. *)
Append ==
  /\ pcS = "append"
  /\ LET d == DriveOf[cur]
         rec == <<cur, part>>
     IN  /\ journal' = [journal EXCEPT ![d] = @ \union {rec}]
         /\ raced' = IF Snapshotting(d) THEN raced \union {rec} ELSE raced
  /\ pcS' = "apply"
  /\ UNCHANGED <<up, mem, snap, ckpt, lock, cur, part, taskVars, acked, finished, crashes>>

(* The append fails (disk full, I/O error): the handler answers Internal    *)
(* and drops the guard.  A first record already applied stays applied.      *)
AppendFail ==
  /\ pcS = "append"
  /\ finished' = finished \union {cur}
  /\ lock' = "free" /\ pcS' = "idle" /\ cur' = None /\ part' = 1
  /\ UNCHANGED <<up, mem, diskVars, taskVars, acked, raced, crashes>>

(* The record enters the drive.  After the last one the handler records the *)
(* change in the feed and drops the guard.                                  *)
Apply ==
  /\ pcS = "apply"
  /\ mem' = [mem EXCEPT ![DriveOf[cur]] = @ \union {<<cur, part>>}]
  /\ \/ /\ part < LastPart(cur)
        /\ part' = part + 1 /\ pcS' = "append"
        /\ UNCHANGED lock
     \/ /\ part = LastPart(cur)
        /\ pcS' = "reply" /\ lock' = "free"
        /\ UNCHANGED part
  /\ UNCHANGED <<up, diskVars, cur, taskVars, doneVars>>

(* Beacon and reply, after the guard is dropped. *)
Reply ==
  /\ pcS = "reply"
  /\ acked' = acked \union {cur}
  /\ finished' = finished \union {cur}
  /\ pcS' = "idle" /\ cur' = None /\ part' = 1
  /\ UNCHANGED <<up, mem, diskVars, lock, taskVars, raced, crashes>>

-------------------------------------------------------------------------------
(* The durability task. *)

(* Fault: the counter does not wrap. *)
TickUnwrapped == tick + 1

NextTick == (tick + 1) % TickWrap

(* The interval fires: count the tick and read the drive ids under the lock. *)
Tick ==
  /\ up /\ pcT = "sleep" /\ lock = "free"
  /\ tick' = NextTick
  /\ todo' = Drives
  /\ pcT' = "next"
  /\ UNCHANGED <<up, mem, diskVars, lock, serveVars, tgt, image, doneVars>>

TickDone ==
  /\ pcT = "next" /\ todo = {}
  /\ pcT' = "sleep"
  /\ UNCHANGED <<up, mem, diskVars, lock, serveVars, tick, todo, tgt, image, doneVars>>

(* Fault: the state is read without waiting for the registry lock. *)
TakesStateAnyTime == TRUE

TakesState == lock = "free"

(* snapshot_drive: to_state under the lock, which is released at once. *)
TakeState(d) ==
  /\ pcT = "next" /\ d \in todo /\ TakesState
  /\ image' = mem[d]
  /\ tgt' = d /\ todo' = todo \ {d} /\ pcT' = "save"
  /\ UNCHANGED <<up, mem, diskVars, lock, serveVars, tick, doneVars>>

(* persist::save replaces the state file. *)
SaveOk(d) ==
  /\ pcT = "save" /\ tgt = d
  /\ snap' = [snap EXCEPT ![d] = image]
  /\ raced' = raced \ image
  /\ pcT' = "reset"
  /\ UNCHANGED <<up, mem, journal, ckpt, lock, serveVars, tick, todo, tgt, image, acked, finished, crashes>>

(* Fault: a failed save is treated like a good one and the journal is reset. *)
AfterFailedSaveReset == "reset"

(* Fault: a failed save skips the drive's checkpoint for this tick. *)
AfterFailedSaveNext == "next"

AfterFailedSave == "checkpoint"

(* A failed save keeps the journal; the task goes on to the checkpoint. *)
SaveFail(d) ==
  /\ pcT = "save" /\ tgt = d
  /\ pcT' = AfterFailedSave /\ image' = {}
  /\ UNCHANGED <<up, mem, diskVars, lock, serveVars, tick, todo, tgt, doneVars>>

(* Fault: the journal is reset between two records of a request. *)
ResetsAnyTime == TRUE

Resets == lock = "free"

(* The journal is emptied under a second acquisition of the lock. *)
ResetOk(d) ==
  /\ pcT = "reset" /\ tgt = d /\ Resets
  /\ journal' = [journal EXCEPT ![d] = {}]
  /\ pcT' = "checkpoint" /\ image' = {}
  /\ UNCHANGED <<up, mem, snap, ckpt, lock, serveVars, tick, todo, tgt, doneVars>>

(* A failed reset is only logged. *)
ResetFail(d) ==
  /\ pcT = "reset" /\ tgt = d /\ lock = "free"
  /\ pcT' = "checkpoint" /\ image' = {}
  /\ UNCHANGED <<up, mem, diskVars, lock, serveVars, tick, todo, tgt, doneVars>>

(* Not a checkpoint tick: continue with the next drive. *)
SkipCheckpoint ==
  /\ pcT = "checkpoint" /\ tick % CheckpointEvery # 0
  /\ pcT' = "next" /\ tgt' = None
  /\ UNCHANGED <<up, mem, diskVars, lock, serveVars, tick, todo, image, doneVars>>

(* The checkpoint holds the lock until it is published or has failed. *)
BeginCheckpoint ==
  /\ pcT = "checkpoint" /\ tick % CheckpointEvery = 0 /\ lock = "free"
  /\ lock' = "task" /\ pcT' = "publish"
  /\ UNCHANGED <<up, mem, diskVars, serveVars, tick, todo, tgt, image, doneVars>>

CheckpointOk(d) ==
  /\ pcT = "publish" /\ tgt = d
  /\ ckpt' = [ckpt EXCEPT ![d] = mem[d]]
  /\ lock' = "free" /\ pcT' = "next" /\ tgt' = None
  /\ UNCHANGED <<up, mem, snap, journal, serveVars, tick, todo, image, doneVars>>

CheckpointFail(d) ==
  /\ pcT = "publish" /\ tgt = d
  /\ lock' = "free" /\ pcT' = "next" /\ tgt' = None
  /\ UNCHANGED <<up, mem, diskVars, serveVars, tick, todo, image, doneVars>>

-------------------------------------------------------------------------------
(* The process dies at any point.  A record whose append was cut short is a *)
(* torn tail, which replay drops: it is in no set.  Files and published     *)
(* checkpoints stay.                                                        *)
Crash ==
  /\ up /\ crashes < MaxCrashes
  /\ crashes' = crashes + 1
  /\ up' = FALSE
  /\ mem' = [d \in Drives |-> {}]
  /\ lock' = "free"
  /\ pcS' = "idle" /\ cur' = None /\ part' = 1
  /\ pcT' = "sleep" /\ tick' = 0 /\ todo' = {} /\ tgt' = None /\ image' = {}
  /\ finished' = finished \union (IF cur = None THEN {} ELSE {cur})
  /\ UNCHANGED <<diskVars, acked, raced>>

(* Boot: restore the state file if there is one, then replay the journal on *)
(* top of it, then serve.                                                   *)
Boot ==
  /\ ~up
  /\ up' = TRUE
  /\ mem' = [d \in Drives |-> Booted(d)]
  /\ UNCHANGED <<diskVars, lock, serveVars, taskVars, doneVars>>

Serve == (\E r \in Reqs : Begin(r)) \/ Append \/ AppendFail \/ Apply \/ Reply

Task ==
  \/ Tick \/ TickDone \/ SkipCheckpoint \/ BeginCheckpoint
  \/ \E d \in Drives : \/ TakeState(d) \/ SaveOk(d) \/ SaveFail(d)
                       \/ ResetOk(d) \/ ResetFail(d)
                       \/ CheckpointOk(d) \/ CheckpointFail(d)

Next == Serve \/ Task \/ Crash \/ Boot

Spec == Init /\ [][Next]_vars

(* Both tasks are spawned on the runtime and keep running.  The mutex is    *)
(* tokio's, first come first served, so neither task waits for it for ever. *)
(* A save, reset or checkpoint that keeps being retried is assumed to       *)
(* succeed eventually; nothing is assumed of any single attempt.  Requests, *)
(* crashes and boots are not forced.                                        *)
Fairness ==
  /\ WF_vars(Append \/ AppendFail \/ Apply \/ Reply)
  /\ WF_vars(Task)
  /\ \A d \in Drives : SF_vars(SaveOk(d)) /\ SF_vars(ResetOk(d)) /\ SF_vars(CheckpointOk(d))

LiveSpec == Spec /\ Fairness

-------------------------------------------------------------------------------
(* What the clients of the drives would find in them: while the host is     *)
(* down, what its next boot restores.  A record is in when it is journaled. *)
Stored ==
  {rec \in Records : LET d == DriveOf[rec[1]] IN
     IF up THEN rec \in mem[d] \/ (pcS = "apply" /\ rec = <<cur, part>>)
     ELSE rec \in Booted(d)}

Store == INSTANCE DurableStore WITH store <- Stored, atRisk <- raced

TypeOK ==
  /\ up \in BOOLEAN
  /\ mem \in [Drives -> SUBSET Records]
  /\ snap \in [Drives -> SUBSET Records]
  /\ journal \in [Drives -> SUBSET Records]
  /\ ckpt \in [Drives -> SUBSET Records]
  /\ lock \in {"free", "serve", "task"}
  /\ pcS \in {"idle", "append", "apply", "reply"}
  /\ cur \in Reqs \union {None} /\ part \in {1, 2}
  /\ pcT \in {"sleep", "next", "save", "reset", "checkpoint", "publish"}
  /\ tick \in 0..(TickWrap - 1) /\ todo \subseteq Drives /\ tgt \in Drives \union {None}
  /\ image \subseteq Records
  /\ acked \subseteq Reqs /\ finished \subseteq Reqs /\ raced \subseteq Records
  /\ crashes \in Nat


(* A request answered Ok is on disk, record by record, in the state file or *)
(* in the journal, whatever fails and whenever the host dies, unless it was *)
(* journaled while a snapshot of its drive was between to_state and reset   *)
(* and no later snapshot has succeeded.  This is as much as the code gives: *)
(* see AckedDurable for the whole claim.                                    *)
AckedDurableOutsideSnapshot ==
  \A r \in acked : Recs(r) \subseteq Disk(DriveOf[r]) \union raced

(* No state file and no checkpoint holds half of an acknowledged request:   *)
(* add_file's move without its content would be a file with no bytes on     *)
(* whatever boots from it.  It rests on the lock being held over both       *)
(* records and taken by to_state and by the checkpoint.                     *)
SnapshotsWhole ==
  \A r \in acked : \A d \in Drives : \A f \in {snap[d], ckpt[d]} :
     (Recs(r) \intersect f = {}) \/ Recs(r) \subseteq f

(* Journal, snapshots, resets, crashes and boots together keep the promise  *)
(* of DurableStore: the append to the journal commits a record; a crash     *)
(* takes back whole requests only, also of those that failed half way or    *)
(* were never answered, and only what was journaled during a snapshot; what *)
(* a successful snapshot has seen is never at risk again.                   *)
ImplementsStore == Store!Spec

(* An acknowledged request that no snapshot raced, or that a later snapshot *)
(* has saved, is there for good: every client finds all its records after   *)
(* any further step, the crashes and boots included, and no later snapshot  *)
(* of its drive puts it at risk.                                            *)
SafeForGood ==
  [][\A r \in acked : Recs(r) \intersect raced = {} =>
       Recs(r) \subseteq Stored' /\ Recs(r) \intersect raced' = {}]_vars

(* What the code claims of every request: "a client holding an ok still     *)
(* holds a durable write".                                                  *)
AckedDurable ==
  \A r \in acked : Recs(r) \subseteq Disk(DriveOf[r])

(* A failed snapshot is retried on every tick, and every CHECKPOINT_EVERY   *)
(* ticks a checkpoint is tried, also when snapshots fail, when another      *)
(* drive's fails and when the tick counter wraps.  So a request the drive   *)
(* holds gets into its state file and into a checkpoint, also one that a    *)
(* reset dropped too early, and leaves the journal, which bounds what a     *)
(* boot has to replay, unless the host dies first.                          *)
EventuallySaved ==
  \A r \in Reqs : LET d == DriveOf[r] IN
    (up /\ Recs(r) \subseteq mem[d]) ~>
       (~up \/ Recs(r) \subseteq (snap[d] \intersect ckpt[d]) \ journal[d])
===============================================================================
