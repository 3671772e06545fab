-------------------------- MODULE Durability_proofs --------------------------
(***************************************************************************)
(* Proofs about Durability, for any set of drives and requests and any     *)
(* number of crashes.                                                      *)
(***************************************************************************)
EXTENDS Durability, TLAPS

(* The records of drive d's own requests. *)
RecordsOf(d) == {rec \in Records : DriveOf[rec[1]] = d}

(* Typing that ties each place of a program to what its variables hold. *)
Control ==
  /\ pcS \in {"append", "apply"} <=> lock = "serve"
  /\ pcT = "publish" <=> lock = "task"
  /\ pcS # "idle" => cur \in Reqs /\ part \in Parts(cur)
  /\ pcT \in {"save", "reset", "checkpoint", "publish"} => tgt \in Drives
  /\ ~up => pcS = "idle" /\ pcT = "sleep" /\ lock = "free"

(* A record is only ever found on the drive its request names. *)
Placed ==
  \A d \in Drives : /\ mem[d] \subseteq RecordsOf(d)
                    /\ snap[d] \subseteq RecordsOf(d)
                    /\ journal[d] \subseteq RecordsOf(d)

(* Nothing served is missing from the disk, except what raced a snapshot. *)
DriveOnDisk ==
  up => \A d \in Drives : mem[d] \subseteq Disk(d) \union raced

(* A snapshot in flight: the image is no older than the state file it will  *)
(* replace or has replaced, and what the journal holds beyond it is raced.  *)
InFlight ==
  /\ pcT = "save" => snap[tgt] \subseteq image
  /\ pcT = "reset" => snap[tgt] = image
  /\ pcT \in {"save", "reset"} => /\ image \subseteq mem[tgt]
                                  /\ journal[tgt] \subseteq image \union raced

(* How far the running request has come. *)
Progress ==
  /\ pcS \in {"append", "apply"} =>
       \A p \in {1, 2} : p < part => <<cur, p>> \in mem[DriveOf[cur]]
  /\ pcS = "apply" => <<cur, part>> \in journal[DriveOf[cur]]
  /\ pcS = "reply" => Recs(cur) \subseteq mem[DriveOf[cur]]

-------------------------------------------------------------------------------
(* Every variable keeps its type, and a place of a program tells what the   *)
(* variables of that program hold.                                          *)
LEMMA TypeControl == Spec => [](TypeOK /\ Control)
<1>1. Init => TypeOK /\ Control
  BY DurabilityAssumption DEF Init, TypeOK, Control
<1>2. TypeOK /\ Control /\ [Next]_vars => (TypeOK /\ Control)'
  <2> SUFFICES ASSUME TypeOK, Control, [Next]_vars PROVE (TypeOK /\ Control)'
    OBVIOUS
  <2> USE DurabilityAssumption DEF TypeOK, Control, serveVars, taskVars, diskVars, doneVars, NextTick, TakesState, Resets, Booted, AfterFailedSave
  <2>1. ASSUME NEW r \in Reqs, Begin(r) PROVE (TypeOK /\ Control)'
    BY <2>1 DEF Begin, Parts
  <2>2. CASE Append
    BY <2>2 DEF Append, Records, Snapshotting, Parts
  <2>3. CASE AppendFail
    BY <2>3 DEF AppendFail
  <2>4. CASE Apply
    BY <2>4 DEF Apply, Records, LastPart, Parts
  <2>5. CASE Reply
    BY <2>5 DEF Reply
  <2>6. CASE Tick
    BY <2>6 DEF Tick
  <2>7. CASE TickDone
    BY <2>7 DEF TickDone
  <2>8. CASE SkipCheckpoint
    BY <2>8 DEF SkipCheckpoint
  <2>9. CASE BeginCheckpoint
    BY <2>9 DEF BeginCheckpoint
  <2>10. ASSUME NEW d \in Drives, TakeState(d) PROVE (TypeOK /\ Control)'
    BY <2>10 DEF TakeState
  <2>11. ASSUME NEW d \in Drives, SaveOk(d) PROVE (TypeOK /\ Control)'
    BY <2>11 DEF SaveOk
  <2>12. ASSUME NEW d \in Drives, SaveFail(d) PROVE (TypeOK /\ Control)'
    BY <2>12 DEF SaveFail
  <2>13. ASSUME NEW d \in Drives, ResetOk(d) PROVE (TypeOK /\ Control)'
    BY <2>13 DEF ResetOk
  <2>14. ASSUME NEW d \in Drives, ResetFail(d) PROVE (TypeOK /\ Control)'
    BY <2>14 DEF ResetFail
  <2>15. ASSUME NEW d \in Drives, CheckpointOk(d) PROVE (TypeOK /\ Control)'
    BY <2>15 DEF CheckpointOk
  <2>16. ASSUME NEW d \in Drives, CheckpointFail(d) PROVE (TypeOK /\ Control)'
    BY <2>16 DEF CheckpointFail
  <2>17. CASE Crash
    <3>1. finished' \subseteq Reqs
      BY <2>17 DEF Crash
    <3>2. mem' \in [Drives -> SUBSET Records]
      BY <2>17 DEF Crash
    <3>3. TypeOK'
      <4>1. snap' = snap /\ journal' = journal /\ ckpt' = ckpt
        BY <2>17 DEF Crash
      <4>2. raced' = raced /\ acked' = acked /\ crashes' \in Nat
        BY <2>17 DEF Crash
      <4>3. /\ up' \in BOOLEAN /\ lock' = "free" /\ pcS' = "idle" /\ cur' = None
            /\ part' = 1 /\ pcT' = "sleep" /\ tick' = 0 /\ todo' = {}
            /\ tgt' = None /\ image' = {}
        BY <2>17 DEF Crash
      <4>4. QED
        BY <3>1, <3>2, <4>1, <4>2, <4>3
    <3>4. Control'
      BY <2>17 DEF Crash
    <3>5. QED
      BY <3>3, <3>4
  <2>18. CASE Boot
    BY <2>18 DEF Boot, Disk
  <2>19. CASE UNCHANGED vars
    BY <2>19 DEF vars
  <2>20. QED
    BY <2>1, <2>2, <2>3, <2>4, <2>5, <2>6, <2>7, <2>8, <2>9, <2>10, <2>11, <2>12, <2>13, <2>14, <2>15, <2>16, <2>17, <2>18, <2>19 DEF Next, Serve, Task
<1>3. QED
  BY <1>1, <1>2, PTL DEF Spec

(* Type correctness: the files, the drives and the sets of requests only    *)
(* ever hold records and requests of this host.                             *)
THEOREM TypeCorrect == Spec => []TypeOK
  BY TypeControl, PTL

-------------------------------------------------------------------------------
(* While the host serves, the drive in memory holds everything the disk     *)
(* holds, but for the one record journaled and not yet applied.  So a       *)
(* snapshot can never be older than the state file it replaces, and what a  *)
(* boot restores was served before: snapshot_drive, attach_journal.         *)
DiskWithinDrive ==
  up => \A d \in Drives :
          Disk(d) \subseteq mem[d] \union (IF pcS = "apply" THEN {<<cur, part>>} ELSE {})

(* The part of the invariant that speaks of records, preserved by one step. *)
DInv ==
  /\ Placed /\ DiskWithinDrive /\ DriveOnDisk /\ InFlight /\ Progress
  /\ AckedDurableOutsideSnapshot

LEMMA DInvStep ==
  ASSUME TypeOK, Control, TypeOK', Control', DInv, [Next]_vars
  PROVE  DInv'
<1> USE DurabilityAssumption DEF TypeOK, Control, serveVars, taskVars, diskVars, doneVars, NextTick, TakesState, Resets, Booted, AfterFailedSave
<1>1. ASSUME NEW r \in Reqs, Begin(r) PROVE DInv'
  BY <1>1 DEF Begin, DInv, Placed, DiskWithinDrive, DriveOnDisk, InFlight, Progress, AckedDurableOutsideSnapshot, Disk
<1>2. CASE Append
  <2>1. Placed'
    BY <1>2 DEF DInv, Append, Placed, RecordsOf
  <2>2. DiskWithinDrive'
    BY <1>2 DEF DInv, Append, DiskWithinDrive, Disk
  <2>3. DriveOnDisk'
    BY <1>2 DEF DInv, Append, DriveOnDisk, Disk
  <2>4. InFlight'
    BY <1>2 DEF DInv, Append, InFlight, Snapshotting
  <2>5. Progress'
    BY <1>2 DEF DInv, Append, Progress
  <2>6. AckedDurableOutsideSnapshot'
    BY <1>2 DEF DInv, Append, AckedDurableOutsideSnapshot, Disk
  <2>7. QED
    BY <2>1, <2>2, <2>3, <2>4, <2>5, <2>6 DEF DInv
<1>3. CASE AppendFail
  BY <1>3 DEF AppendFail, DInv, Placed, DiskWithinDrive, DriveOnDisk, InFlight, Progress, AckedDurableOutsideSnapshot, Disk
<1>4. CASE Apply
  <2>1. Placed'
    BY <1>4 DEF DInv, Apply, Placed, Progress
  <2>2. DiskWithinDrive'
    BY <1>4 DEF DInv, Apply, Placed, DiskWithinDrive, Disk, RecordsOf
  <2>3. DriveOnDisk'
    BY <1>4 DEF DInv, Apply, DriveOnDisk, Progress, Disk
  <2>4. InFlight'
    BY <1>4 DEF DInv, Apply, InFlight
  <2>5. Progress'
    BY <1>4 DEF DInv, Apply, Progress, Recs, Parts, LastPart
  <2>6. AckedDurableOutsideSnapshot'
    BY <1>4 DEF DInv, Apply, AckedDurableOutsideSnapshot, Disk
  <2>7. QED
    BY <2>1, <2>2, <2>3, <2>4, <2>5, <2>6 DEF DInv
<1>5. CASE Reply
  <2>1. Placed'
    BY <1>5 DEF DInv, Reply, Placed
  <2>2. DiskWithinDrive'
    BY <1>5 DEF DInv, Reply, DiskWithinDrive, Disk
  <2>3. DriveOnDisk'
    BY <1>5 DEF DInv, Reply, DriveOnDisk, Disk
  <2>4. InFlight'
    BY <1>5 DEF DInv, Reply, InFlight
  <2>5. Progress'
    BY <1>5 DEF Reply, Progress
  <2>6. AckedDurableOutsideSnapshot'
    BY <1>5 DEF DInv, Reply, DriveOnDisk, Progress, AckedDurableOutsideSnapshot, Disk
  <2>7. QED
    BY <2>1, <2>2, <2>3, <2>4, <2>5, <2>6 DEF DInv
<1>6. CASE Tick
  BY <1>6 DEF Tick, DInv, Placed, DiskWithinDrive, DriveOnDisk, InFlight, Progress, AckedDurableOutsideSnapshot, Disk
<1>7. CASE TickDone
  BY <1>7 DEF TickDone, DInv, Placed, DiskWithinDrive, DriveOnDisk, InFlight, Progress, AckedDurableOutsideSnapshot, Disk
<1>8. CASE SkipCheckpoint
  BY <1>8 DEF SkipCheckpoint, DInv, Placed, DiskWithinDrive, DriveOnDisk, InFlight, Progress, AckedDurableOutsideSnapshot, Disk
<1>9. CASE BeginCheckpoint
  BY <1>9 DEF BeginCheckpoint, DInv, Placed, DiskWithinDrive, DriveOnDisk, InFlight, Progress, AckedDurableOutsideSnapshot, Disk
<1>10. ASSUME NEW d \in Drives, TakeState(d) PROVE DInv'
  <2>1. Placed'
    BY <1>10 DEF DInv, TakeState, Placed
  <2>2. DiskWithinDrive'
    BY <1>10 DEF DInv, TakeState, DiskWithinDrive, Disk
  <2>3. DriveOnDisk'
    BY <1>10 DEF DInv, TakeState, DriveOnDisk, Disk
  <2>4. InFlight'
    BY <1>10 DEF DInv, TakeState, DiskWithinDrive, InFlight, Disk
  <2>5. Progress'
    BY <1>10 DEF DInv, TakeState, Progress
  <2>6. AckedDurableOutsideSnapshot'
    BY <1>10 DEF DInv, TakeState, AckedDurableOutsideSnapshot, Disk
  <2>7. QED
    BY <2>1, <2>2, <2>3, <2>4, <2>5, <2>6 DEF DInv
<1>11. ASSUME NEW d \in Drives, SaveOk(d) PROVE DInv'
  <2>1. Placed'
    BY <1>11 DEF DInv, SaveOk, Placed, InFlight
  <2>2. DiskWithinDrive'
    BY <1>11 DEF DInv, SaveOk, DiskWithinDrive, InFlight, Disk
  <2>3. DriveOnDisk'
    BY <1>11 DEF DInv, SaveOk, Placed, DriveOnDisk, InFlight, Disk, RecordsOf
  <2>4. InFlight'
    BY <1>11 DEF DInv, SaveOk, InFlight
  <2>5. Progress'
    BY <1>11 DEF DInv, SaveOk, Progress
  <2>6. AckedDurableOutsideSnapshot'
    BY <1>11 DEF DInv, SaveOk, Placed, InFlight, AckedDurableOutsideSnapshot, Disk, Recs, RecordsOf
  <2>7. QED
    BY <2>1, <2>2, <2>3, <2>4, <2>5, <2>6 DEF DInv
<1>12. ASSUME NEW d \in Drives, SaveFail(d) PROVE DInv'
  BY <1>12 DEF SaveFail, DInv, Placed, DiskWithinDrive, DriveOnDisk, InFlight, Progress, AckedDurableOutsideSnapshot, Disk
<1>13. ASSUME NEW d \in Drives, ResetOk(d) PROVE DInv'
  <2>1. Placed'
    BY <1>13 DEF DInv, ResetOk, Placed
  <2>2. DiskWithinDrive'
    BY <1>13 DEF DInv, ResetOk, DiskWithinDrive, Disk
  <2>3. DriveOnDisk'
    BY <1>13 DEF DInv, ResetOk, DriveOnDisk, InFlight, Disk
  <2>4. InFlight'
    BY <1>13 DEF ResetOk, InFlight
  <2>5. Progress'
    BY <1>13 DEF DInv, ResetOk, Progress
  <2>6. AckedDurableOutsideSnapshot'
    BY <1>13 DEF DInv, ResetOk, InFlight, AckedDurableOutsideSnapshot, Disk
  <2>7. QED
    BY <2>1, <2>2, <2>3, <2>4, <2>5, <2>6 DEF DInv
<1>14. ASSUME NEW d \in Drives, ResetFail(d) PROVE DInv'
  BY <1>14 DEF ResetFail, DInv, Placed, DiskWithinDrive, DriveOnDisk, InFlight, Progress, AckedDurableOutsideSnapshot, Disk
<1>15. ASSUME NEW d \in Drives, CheckpointOk(d) PROVE DInv'
  BY <1>15 DEF CheckpointOk, DInv, Placed, DiskWithinDrive, DriveOnDisk, InFlight, Progress, AckedDurableOutsideSnapshot, Disk
<1>16. ASSUME NEW d \in Drives, CheckpointFail(d) PROVE DInv'
  BY <1>16 DEF CheckpointFail, DInv, Placed, DiskWithinDrive, DriveOnDisk, InFlight, Progress, AckedDurableOutsideSnapshot, Disk
<1>17. CASE Crash
  <2>1. Placed'
    BY <1>17 DEF DInv, Crash, Placed
  <2>2. DiskWithinDrive'
    BY <1>17 DEF Crash, DiskWithinDrive
  <2>3. DriveOnDisk'
    BY <1>17 DEF Crash, DriveOnDisk
  <2>4. InFlight'
    BY <1>17 DEF Crash, InFlight
  <2>5. Progress'
    BY <1>17 DEF Crash, Progress
  <2>6. AckedDurableOutsideSnapshot'
    BY <1>17 DEF DInv, Crash, AckedDurableOutsideSnapshot, Disk
  <2>7. QED
    BY <2>1, <2>2, <2>3, <2>4, <2>5, <2>6 DEF DInv
<1>18. CASE Boot
  <2>1. Placed'
    BY <1>18 DEF DInv, Boot, Placed, Disk
  <2>2. DiskWithinDrive'
    BY <1>18 DEF Boot, DiskWithinDrive, Disk
  <2>3. DriveOnDisk'
    BY <1>18 DEF Boot, DriveOnDisk, Disk
  <2>4. InFlight'
    BY <1>18 DEF Boot, InFlight
  <2>5. Progress'
    BY <1>18 DEF Boot, Progress
  <2>6. AckedDurableOutsideSnapshot'
    BY <1>18 DEF DInv, Boot, AckedDurableOutsideSnapshot, Disk
  <2>7. QED
    BY <2>1, <2>2, <2>3, <2>4, <2>5, <2>6 DEF DInv
<1>19. CASE UNCHANGED vars
  BY <1>19 DEF vars, DInv, Placed, DiskWithinDrive, DriveOnDisk, InFlight, Progress, AckedDurableOutsideSnapshot, Disk
<1>20. QED
  BY <1>1, <1>2, <1>3, <1>4, <1>5, <1>6, <1>7, <1>8, <1>9, <1>10, <1>11, <1>12, <1>13, <1>14, <1>15, <1>16, <1>17, <1>18, <1>19 DEF Next, Serve, Task

-------------------------------------------------------------------------------
LEMMA DInvHolds == Spec => []DInv
<1>1. Init => DInv
  BY DurabilityAssumption
  DEF Init, DInv, Placed, DiskWithinDrive, DriveOnDisk, InFlight, Progress,
      AckedDurableOutsideSnapshot, Disk
<1>2. TypeOK /\ Control /\ (TypeOK /\ Control)' /\ DInv /\ [Next]_vars => DInv'
  BY DInvStep
<1>3. QED
  BY <1>1, <1>2, TypeControl, PTL DEF Spec

(* The write-ahead promise, for any number of drives, requests and crashes: *)
(* an acknowledged request is in the state file or the journal, unless it   *)
(* was journaled while a snapshot of its drive was in flight.               *)
THEOREM Durable == Spec => []AckedDurableOutsideSnapshot
<1>1. DInv => AckedDurableOutsideSnapshot
  BY DEF DInv
<1>2. QED
  BY <1>1, DInvHolds, PTL

(* The served drive is never behind its own files, so no snapshot can roll  *)
(* the state file back.                                                     *)
THEOREM ServedHoldsDisk == Spec => []DiskWithinDrive
<1>1. DInv => DiskWithinDrive
  BY DEF DInv
<1>2. QED
  BY <1>1, DInvHolds, PTL

-------------------------------------------------------------------------------
(* Why no snapshot cuts a request in half.                                   *)

Misses(S, r) == Recs(r) \intersect S = {}
Whole(S, r) == Misses(S, r) \/ Recs(r) \subseteq S

(* A request that has not begun has left no record anywhere. *)
Fresh ==
  /\ acked \subseteq finished
  /\ pcS = "idle" => cur = None
  /\ pcS # "idle" => cur \notin finished
  /\ \A r \in Reqs \ finished : r # cur =>
       /\ Misses(image, r)
       /\ \A d \in Drives : /\ Misses(mem[d], r) /\ Misses(snap[d], r)
                            /\ Misses(journal[d], r) /\ Misses(ckpt[d], r)

(* While a request holds the lock no snapshot and no checkpoint has seen     *)
(* it, and what it has done so far is in the journal.                       *)
Running ==
  pcS \in {"append", "apply"} =>
    /\ Misses(image, cur)
    /\ \A d \in Drives : Misses(snap[d], cur) /\ Misses(ckpt[d], cur)
    /\ \A p \in {1, 2} : (p < part \/ (p = part /\ pcS = "apply")) =>
                           <<cur, p>> \in journal[DriveOf[cur]]

(* A request that has let go of the lock is nowhere found in part. *)
Settled ==
  \A r \in acked \union (IF pcS = "reply" THEN {cur} ELSE {}) :
    /\ Whole(image, r)
    /\ \A d \in Drives : /\ Whole(mem[d], r) /\ Whole(snap[d], r)
                         /\ Whole(journal[d], r) /\ Whole(ckpt[d], r)

WInv == Fresh /\ Running /\ Settled

LEMMA WInvStep ==
  ASSUME TypeOK, Control, DInv, WInv, [Next]_vars
  PROVE  WInv'
<1> USE DurabilityAssumption DEF TypeOK, Control, serveVars, taskVars, diskVars, doneVars, NextTick, TakesState, Resets, Booted, AfterFailedSave
<1>1. ASSUME NEW r \in Reqs, Begin(r) PROVE WInv'
  <2>1. Fresh'
    BY <1>1 DEF Begin, WInv, Fresh
  <2>2. Running'
    BY <1>1 DEF Begin, WInv, Fresh, Running
  <2>3. Settled'
    BY <1>1 DEF Begin, WInv, Settled
  <2>4. QED
    BY <2>1, <2>2, <2>3 DEF WInv
<1>2. CASE Append
  <2>1. Fresh'
    BY <1>2 DEF Append, WInv, Fresh, Misses, Recs
  <2>2. Running'
    BY <1>2 DEF Append, WInv, Running
  <2>3. Settled'
    BY <1>2 DEF Append, WInv, Fresh, Settled, Misses, Whole, Recs
  <2>4. QED
    BY <2>1, <2>2, <2>3 DEF WInv
<1>3. CASE AppendFail
  <2>1. Fresh'
    BY <1>3 DEF AppendFail, WInv, Fresh
  <2>2. Running'
    BY <1>3 DEF AppendFail, Running
  <2>3. Settled'
    BY <1>3 DEF AppendFail, WInv, Settled
  <2>4. QED
    BY <2>1, <2>2, <2>3 DEF WInv
<1>4. CASE Apply
  <2>1. Fresh'
    BY <1>4 DEF Apply, WInv, Fresh, Running, Misses
  <2>2. Running'
    BY <1>4 DEF Apply, WInv, Running
  <2>3. Settled'
    <3>1. /\ UNCHANGED <<image, snap, journal, ckpt, acked, cur>>
          /\ mem' = [mem EXCEPT ![DriveOf[cur]] = @ \union {<<cur, part>>}]
          /\ pcS' = "reply" => part = LastPart(cur)
      BY <1>4 DEF Apply
    <3>2. ASSUME NEW r \in acked
          PROVE  /\ Whole(image, r)' /\ \A d \in Drives :
                    Whole(mem[d], r)' /\ Whole(snap[d], r)' /\ Whole(journal[d], r)' /\ Whole(ckpt[d], r)'
      <4>1. r # cur
        BY <1>4 DEF Apply, WInv, Fresh
      <4>2. QED
        BY <3>1, <4>1 DEF WInv, Settled, Misses, Whole, Recs, Parts
    <3>3. ASSUME pcS' = "reply"
          PROVE  /\ Whole(image, cur)' /\ \A d \in Drives :
                    Whole(mem[d], cur)' /\ Whole(snap[d], cur)' /\ Whole(journal[d], cur)' /\ Whole(ckpt[d], cur)'
      BY <1>4, <3>1, <3>3 DEF Apply, WInv, Running, Misses, Whole, Recs, Parts, LastPart,
         DInv, Placed, Progress, RecordsOf, Records
    <3>4. SUFFICES ASSUME NEW r \in (acked \union (IF pcS = "reply" THEN {cur} ELSE {}))'
                   PROVE  /\ Whole(image, r)' /\ \A d \in Drives :
                             Whole(mem[d], r)' /\ Whole(snap[d], r)' /\ Whole(journal[d], r)' /\ Whole(ckpt[d], r)'
      BY DEF Settled
    <3>5. r \in acked \/ (pcS' = "reply" /\ r = cur')
      BY <3>1
    <3>6. QED
      BY <3>2, <3>3, <3>5
  <2>4. QED
    BY <2>1, <2>2, <2>3 DEF WInv
<1>5. CASE Reply
  <2>1. Fresh'
    BY <1>5 DEF Reply, WInv, Fresh
  <2>2. Running'
    BY <1>5 DEF Reply, Running
  <2>3. Settled'
    BY <1>5 DEF Reply, WInv, Settled
  <2>4. QED
    BY <2>1, <2>2, <2>3 DEF WInv
<1>6. CASE Tick
  <2>1. Fresh'
    BY <1>6 DEF Tick, WInv, Fresh
  <2>2. Running'
    BY <1>6 DEF Tick, Running
  <2>3. Settled'
    BY <1>6 DEF Tick, WInv, Settled
  <2>4. QED
    BY <2>1, <2>2, <2>3 DEF WInv
<1>7. CASE TickDone
  <2>1. Fresh'
    BY <1>7 DEF TickDone, WInv, Fresh
  <2>2. Running'
    BY <1>7 DEF TickDone, WInv, Running
  <2>3. Settled'
    BY <1>7 DEF TickDone, WInv, Settled
  <2>4. QED
    BY <2>1, <2>2, <2>3 DEF WInv
<1>8. CASE SkipCheckpoint
  <2>1. Fresh'
    BY <1>8 DEF SkipCheckpoint, WInv, Fresh
  <2>2. Running'
    BY <1>8 DEF SkipCheckpoint, WInv, Running
  <2>3. Settled'
    BY <1>8 DEF SkipCheckpoint, WInv, Settled
  <2>4. QED
    BY <2>1, <2>2, <2>3 DEF WInv
<1>9. CASE BeginCheckpoint
  <2>1. Fresh'
    BY <1>9 DEF BeginCheckpoint, WInv, Fresh
  <2>2. Running'
    BY <1>9 DEF BeginCheckpoint, Running
  <2>3. Settled'
    BY <1>9 DEF BeginCheckpoint, WInv, Settled
  <2>4. QED
    BY <2>1, <2>2, <2>3 DEF WInv
<1>10. ASSUME NEW d \in Drives, TakeState(d) PROVE WInv'
  <2>1. Fresh'
    BY <1>10 DEF TakeState, WInv, Fresh
  <2>2. Running'
    BY <1>10 DEF TakeState, Running
  <2>3. Settled'
    BY <1>10 DEF TakeState, WInv, Settled
  <2>4. QED
    BY <2>1, <2>2, <2>3 DEF WInv
<1>11. ASSUME NEW d \in Drives, SaveOk(d) PROVE WInv'
  <2>1. Fresh'
    BY <1>11 DEF SaveOk, WInv, Fresh
  <2>2. Running'
    BY <1>11 DEF SaveOk, WInv, Running
  <2>3. Settled'
    BY <1>11 DEF SaveOk, WInv, Settled
  <2>4. QED
    BY <2>1, <2>2, <2>3 DEF WInv
<1>12. ASSUME NEW d \in Drives, SaveFail(d) PROVE WInv'
  <2>1. Fresh'
    BY <1>12 DEF SaveFail, WInv, Fresh, Misses
  <2>2. Running'
    BY <1>12 DEF SaveFail, WInv, Running, Misses
  <2>3. Settled'
    BY <1>12 DEF SaveFail, WInv, Settled, Misses, Whole, Parts
  <2>4. QED
    BY <2>1, <2>2, <2>3 DEF WInv
<1>13. ASSUME NEW d \in Drives, ResetOk(d) PROVE WInv'
  <2>1. Fresh'
    BY <1>13 DEF ResetOk, WInv, Fresh, Misses
  <2>2. Running'
    BY <1>13 DEF ResetOk, Running
  <2>3. Settled'
    BY <1>13 DEF ResetOk, WInv, Settled, Misses, Whole
  <2>4. QED
    BY <2>1, <2>2, <2>3 DEF WInv
<1>14. ASSUME NEW d \in Drives, ResetFail(d) PROVE WInv'
  <2>1. Fresh'
    BY <1>14 DEF ResetFail, WInv, Fresh, Misses
  <2>2. Running'
    BY <1>14 DEF ResetFail, Running
  <2>3. Settled'
    BY <1>14 DEF ResetFail, WInv, Settled, Misses, Whole
  <2>4. QED
    BY <2>1, <2>2, <2>3 DEF WInv
<1>15. ASSUME NEW d \in Drives, CheckpointOk(d) PROVE WInv'
  <2>1. Fresh'
    BY <1>15 DEF CheckpointOk, WInv, Fresh
  <2>2. Running'
    BY <1>15 DEF CheckpointOk, Running
  <2>3. Settled'
    BY <1>15 DEF CheckpointOk, WInv, Settled
  <2>4. QED
    BY <2>1, <2>2, <2>3 DEF WInv
<1>16. ASSUME NEW d \in Drives, CheckpointFail(d) PROVE WInv'
  <2>1. Fresh'
    BY <1>16 DEF CheckpointFail, WInv, Fresh
  <2>2. Running'
    BY <1>16 DEF CheckpointFail, Running
  <2>3. Settled'
    BY <1>16 DEF CheckpointFail, WInv, Settled
  <2>4. QED
    BY <2>1, <2>2, <2>3 DEF WInv
<1>17. CASE Crash
  <2>1. Fresh'
    BY <1>17 DEF Crash, WInv, Fresh, Misses
  <2>2. Running'
    BY <1>17 DEF Crash, Running
  <2>3. Settled'
    BY <1>17 DEF Crash, WInv, Settled, Misses, Whole
  <2>4. QED
    BY <2>1, <2>2, <2>3 DEF WInv
<1>18. CASE Boot
  <2>1. Fresh'
    BY <1>18 DEF Boot, WInv, Fresh, Misses, Disk
  <2>2. Running'
    BY <1>18 DEF Boot, Running
  <2>3. Settled'
    BY <1>18 DEF Boot, WInv, Settled, Misses, Whole, Disk
  <2>4. QED
    BY <2>1, <2>2, <2>3 DEF WInv
<1>19. CASE UNCHANGED vars
  BY <1>19 DEF vars, WInv, Fresh, Running, Settled
<1>20. QED
  BY <1>1, <1>2, <1>3, <1>4, <1>5, <1>6, <1>7, <1>8, <1>9, <1>10, <1>11, <1>12, <1>13, <1>14, <1>15, <1>16, <1>17, <1>18, <1>19 DEF Next, Serve, Task

LEMMA WInvHolds == Spec => []WInv
<1>1. Init => WInv
  BY DurabilityAssumption
  DEF Init, WInv, Fresh, Running, Settled, Misses, Whole
<1>2. TypeOK /\ Control /\ DInv /\ WInv /\ [Next]_vars => WInv'
  BY WInvStep
<1>3. QED
  BY <1>1, <1>2, TypeControl, DInvHolds, PTL DEF Spec

(* No state file and no checkpoint ever holds half of an acknowledged       *)
(* request: the mutex is held over all of a request's records, and both are *)
(* taken under it.                                                          *)
THEOREM NoHalfRequest == Spec => []SnapshotsWhole
<1>1. WInv => SnapshotsWhole
  BY DEF WInv, Settled, Whole, Misses, SnapshotsWhole
<1>2. QED
  BY <1>1, WInvHolds, PTL

-------------------------------------------------------------------------------
(* Why a crash takes back whole requests only, those included that failed   *)
(* between their two records: what the drive has of a request is in each    *)
(* file altogether or not at all.                                           *)

Held(d) == IF up THEN mem[d] ELSE Disk(d)

Busy(r) == r = cur /\ pcS \in {"append", "apply"}

Undivided(S, r) == \A a, b \in Recs(r) \intersect Held(DriveOf[r]) : a \in S => b \in S

Together ==
  \A r \in Reqs : ~Busy(r) =>
    /\ Undivided(snap[DriveOf[r]], r) /\ Undivided(journal[DriveOf[r]], r)
    /\ Snapshotting(DriveOf[r]) => Undivided(image, r)

(* What a running request has applied is in the journal. *)
Journaled ==
  pcS \in {"append", "apply"} =>
    Recs(cur) \intersect mem[DriveOf[cur]] \subseteq journal[DriveOf[cur]]

CInv == Together /\ Journaled

LEMMA CInvStep ==
  ASSUME TypeOK, Control, DInv, WInv, CInv, [Next]_vars
  PROVE  CInv'
<1> USE DurabilityAssumption DEF TypeOK, Control, serveVars, taskVars, diskVars, doneVars,
        NextTick, TakesState, Resets, Booted, AfterFailedSave,
        CInv, Together, Journaled, Held, Busy, Undivided, Disk, Snapshotting
<1>1. ASSUME NEW r \in Reqs, Begin(r) PROVE CInv'
  BY <1>1 DEF Begin, WInv, Fresh, Misses
<1>2. CASE Append
  <2>1. /\ journal' = [journal EXCEPT ![DriveOf[cur]] = @ \union {<<cur, part>>}]
        /\ UNCHANGED <<up, mem, snap, image, tgt, pcT, cur>>
        /\ pcS = "append" /\ pcS' = "apply" /\ up /\ cur \in Reqs
    BY <1>2 DEF Append
  <2>2. Journaled'
    BY <2>1 DEF Recs, Parts
  <2>3. ASSUME NEW r \in Reqs, r # cur
        PROVE  /\ Undivided(snap[DriveOf[r]], r)' /\ Undivided(journal[DriveOf[r]], r)'
               /\ Snapshotting(DriveOf[r])' => Undivided(image, r)'
    <3>1. Recs(r) \intersect Held(DriveOf[r])' = Recs(r) \intersect Held(DriveOf[r])
      BY <2>1, <2>3 DEF Recs
    <3>2. \A a \in Recs(r) : a \in journal'[DriveOf[r]] <=> a \in journal[DriveOf[r]]
      BY <2>1, <2>3 DEF Recs
    <3>3. QED
      BY <2>1, <2>3, <3>1, <3>2
  <2>4. QED
    BY <2>1, <2>2, <2>3 DEF CInv, Together
<1>3. CASE AppendFail
  <2>1. /\ UNCHANGED <<up, mem, snap, journal, image, tgt, pcT>>
        /\ up /\ cur \in Reqs /\ pcS = "append" /\ pcS' = "idle"
    BY <1>3 DEF AppendFail
  <2>2. ASSUME NEW r \in Reqs
        PROVE  /\ Undivided(snap[DriveOf[r]], r)' /\ Undivided(journal[DriveOf[r]], r)'
               /\ Snapshotting(DriveOf[r])' => Undivided(image, r)'
    <3>1. CASE r = cur
      BY <1>3, <2>1, <3>1 DEF AppendFail, WInv, Running, Misses, Recs, Parts
    <3>2. CASE r # cur
      BY <2>1, <3>2 DEF Recs, Parts
    <3>3. QED
      BY <3>1, <3>2
  <2>3. QED
    BY <2>1, <2>2 DEF CInv, Together, Journaled
<1>4. CASE Apply
  <2>1. /\ mem' = [mem EXCEPT ![DriveOf[cur]] = @ \union {<<cur, part>>}]
        /\ UNCHANGED <<up, cur, snap, journal, image, tgt, pcT>>
        /\ pcS = "apply" /\ up /\ cur \in Reqs /\ <<cur, part>> \in journal[DriveOf[cur]]
    BY <1>4 DEF Apply, WInv, Running
  <2>2. Journaled'
    BY <1>4, <2>1 DEF Recs, Parts
  <2>3. ASSUME NEW r \in Reqs, ~Busy(r)'
        PROVE  /\ Undivided(snap[DriveOf[r]], r)' /\ Undivided(journal[DriveOf[r]], r)'
               /\ Snapshotting(DriveOf[r])' => Undivided(image, r)'
    <3>1. CASE r = cur
      <4>1. Misses(image, cur) /\ \A d \in Drives : Misses(snap[d], cur)
        BY <1>4 DEF Apply, WInv, Running
      <4>2. Recs(cur) \intersect mem'[DriveOf[cur]] \subseteq journal[DriveOf[cur]]
        BY <1>4, <2>1 DEF Recs, Parts
      <4>3. QED
        BY <2>1, <3>1, <4>1, <4>2 DEF Misses
    <3>2. CASE r # cur
      <4>1. Recs(r) \intersect Held(DriveOf[r])' \subseteq Recs(r) \intersect Held(DriveOf[r])
        BY <2>1, <3>2 DEF Recs
      <4>2. QED
        BY <2>1, <3>2, <4>1
    <3>3. QED
      BY <3>1, <3>2
  <2>4. QED
    BY <2>2, <2>3 DEF CInv, Together
<1>5. CASE Reply
  BY <1>5 DEF Reply
<1>6. CASE Tick
  BY <1>6 DEF Tick
<1>7. CASE TickDone
  BY <1>7 DEF TickDone
<1>8. CASE SkipCheckpoint
  BY <1>8 DEF SkipCheckpoint
<1>9. CASE BeginCheckpoint
  BY <1>9 DEF BeginCheckpoint
<1>10. ASSUME NEW d \in Drives, TakeState(d) PROVE CInv'
  BY <1>10 DEF TakeState
<1>11. ASSUME NEW d \in Drives, SaveOk(d) PROVE CInv'
  BY <1>11 DEF SaveOk
<1>12. ASSUME NEW d \in Drives, SaveFail(d) PROVE CInv'
  BY <1>12 DEF SaveFail
<1>13. ASSUME NEW d \in Drives, ResetOk(d) PROVE CInv'
  BY <1>13 DEF ResetOk
<1>14. ASSUME NEW d \in Drives, ResetFail(d) PROVE CInv'
  BY <1>14 DEF ResetFail
<1>15. ASSUME NEW d \in Drives, CheckpointOk(d) PROVE CInv'
  BY <1>15 DEF CheckpointOk
<1>16. ASSUME NEW d \in Drives, CheckpointFail(d) PROVE CInv'
  BY <1>16 DEF CheckpointFail
<1>17. CASE Crash
  <2>1. Journaled'
    BY <1>17 DEF Crash
  <2>2. ASSUME NEW r \in Reqs
        PROVE  Undivided(snap[DriveOf[r]], r)' /\ Undivided(journal[DriveOf[r]], r)'
    <3>1. /\ up /\ ~up' /\ UNCHANGED <<snap, journal>>
          /\ Disk(DriveOf[r]) \subseteq
               mem[DriveOf[r]] \union (IF pcS = "apply" THEN {<<cur, part>>} ELSE {})
      BY <1>17 DEF Crash, DInv, DiskWithinDrive
    <3>2. CASE Busy(r)
      BY <3>1, <3>2 DEF WInv, Running, Misses
    <3>3. CASE ~Busy(r)
      <4>1. Recs(r) \intersect Held(DriveOf[r])' \subseteq Recs(r) \intersect Held(DriveOf[r])
        BY <3>1, <3>3 DEF Recs
      <4>2. QED
        BY <3>1, <3>3, <4>1
    <3>4. QED
      BY <3>2, <3>3
  <2>3. QED
    BY <1>17, <2>1, <2>2 DEF Crash
<1>18. CASE Boot
  BY <1>18 DEF Boot
<1>19. CASE UNCHANGED vars
  BY <1>19 DEF vars
<1>20. QED
  BY <1>1, <1>2, <1>3, <1>4, <1>5, <1>6, <1>7, <1>8, <1>9, <1>10, <1>11, <1>12, <1>13, <1>14, <1>15, <1>16, <1>17, <1>18, <1>19 DEF Next, Serve, Task

LEMMA CInvHolds == Spec => []CInv
<1>1. Init => CInv
  BY DurabilityAssumption
  DEF Init, CInv, Together, Journaled, Held, Undivided, Disk, Snapshotting
<1>2. TypeOK /\ Control /\ DInv /\ WInv /\ CInv /\ [Next]_vars => CInv'
  BY CInvStep
<1>3. QED
  BY <1>1, <1>2, TypeControl, DInvHolds, WInvHolds, PTL DEF Spec

-------------------------------------------------------------------------------
(* The refinement.                                                          *)

LEMMA StoreInit == Init => Store!Init
  BY DurabilityAssumption DEF Init, Store!Init, Stored, Records

(* A step that leaves alone what the clients would find. *)
Unseen == UNCHANGED <<Stored, raced, acked>>

LEMMA StoreAppend ==
  ASSUME TypeOK, Control, DInv, WInv, Append
  PROVE  Store!Put(cur, part)
<1> USE DurabilityAssumption
<1>1. /\ cur \in Reqs /\ part \in Parts(cur) /\ up /\ up' /\ cur \notin acked
      /\ pcS = "append" /\ pcS' = "apply" /\ UNCHANGED <<mem, cur, part, acked>>
      /\ raced' \in {raced, raced \union {<<cur, part>>}}
  BY DEF Append, TypeOK, Control, WInv, Fresh
<1>2. <<cur, part>> \in Store!Recs(cur)
  BY <1>1 DEF Store!Recs, Parts
<1>3. Stored' = Stored \union {<<cur, part>>}
  BY <1>1 DEF Stored, Records, Parts
<1>4. part = 2 => <<cur, 1>> \in Stored
  BY <1>1 DEF DInv, Progress, Stored, Records, Parts
<1>5. QED
  BY <1>1, <1>2, <1>3, <1>4 DEF Store!Put

LEMMA StoreApply ==
  ASSUME TypeOK, Control, Apply
  PROVE  Unseen
<1>1. /\ mem' = [mem EXCEPT ![DriveOf[cur]] = @ \union {<<cur, part>>}]
      /\ pcS = "apply" /\ pcS' \in {"append", "reply"} /\ up /\ up' /\ cur \in Reqs
      /\ UNCHANGED <<raced, acked>>
  BY DEF Apply, doneVars, Control
<1>2. \A rec \in Records :
        (rec \in mem'[DriveOf[rec[1]]]) <=> (rec \in mem[DriveOf[rec[1]]] \/ rec = <<cur, part>>)
  BY <1>1, DurabilityAssumption DEF Records, TypeOK
<1>3. Stored' = Stored
  BY <1>1, <1>2 DEF Stored
<1>4. QED
  BY <1>1, <1>3 DEF Unseen

LEMMA StoreReply ==
  ASSUME TypeOK, Control, DInv, Reply
  PROVE  Store!Ack(cur)
<1>1. /\ pcS = "reply" /\ pcS' = "idle" /\ up /\ up' /\ cur \in Reqs
      /\ acked' = acked \union {cur} /\ UNCHANGED <<mem, raced>>
  BY DEF Reply, Control
<1>2. Stored' = Stored
  BY <1>1 DEF Stored
<1>3. Store!Recs(cur) \subseteq Stored
  BY <1>1 DEF DInv, Progress, Store!Recs, Recs, Parts, Stored, Records
<1>4. QED
  BY <1>1, <1>2, <1>3 DEF Store!Ack

LEMMA StoreSave ==
  ASSUME TypeOK, Control, DInv, NEW d \in Drives, SaveOk(d)
  PROVE  Store!Secure
<1>1. /\ pcT = "save" /\ tgt = d /\ raced' = raced \ image /\ up /\ up'
      /\ UNCHANGED <<mem, pcS, cur, part, acked>>
  BY DEF SaveOk, Control, serveVars
<1>2. Stored' = Stored
  BY <1>1 DEF Stored
<1>3. image \subseteq Stored
  BY <1>1 DEF DInv, InFlight, Placed, RecordsOf, Stored, TypeOK
<1>4. QED
  BY <1>1, <1>2, <1>3 DEF Store!Secure

(* A crash: what goes is the requests with a record the files do not have.  *)
LEMMA StoreCrash ==
  ASSUME TypeOK, Control, DInv, WInv, CInv, Crash
  PROVE  \E lost \in SUBSET Reqs : Store!Crash(lost)
<1> USE DurabilityAssumption
<1> DEFINE OnDisk(rec) == rec \in Disk(DriveOf[rec[1]])
           lost == {r \in Reqs : \E rec \in Stored : rec[1] = r /\ ~OnDisk(rec)}
<1>1. up /\ ~up' /\ UNCHANGED <<snap, journal, raced, acked>>
  BY DEF Crash, diskVars
<1>2. Stored' = {rec \in Records : OnDisk(rec)}
  BY <1>1 DEF Stored, Booted, Disk
<1>3. \A rec \in Records : OnDisk(rec) => rec \in Stored
  BY <1>1 DEF DInv, DiskWithinDrive, Stored, Records
<1>4. \A rec \in Stored : ~OnDisk(rec) => rec \in raced
  BY <1>1 DEF DInv, DriveOnDisk, Progress, Stored, Records, Disk
<1>5. ASSUME NEW a \in Stored, NEW b \in Stored, a[1] = b[1], OnDisk(a)
      PROVE  OnDisk(b)
  <2> DEFINE r == a[1]
             d == DriveOf[r]
  <2>1. r \in Reqs /\ d \in Drives /\ a \in Recs(r) /\ b \in Recs(r)
    BY <1>5 DEF Stored, Records, Recs
  <2>2. CASE Busy(r)
    BY <1>1, <1>5, <2>1, <2>2 DEF Stored, Busy, CInv, Journaled, DInv, Progress, Disk
  <2>3. CASE ~Busy(r)
    <3>1. a \in Held(d) /\ b \in Held(d)
      BY <1>1, <1>5, <2>1, <2>3 DEF Stored, Busy, Held
    <3>2. Undivided(snap[d], r) /\ Undivided(journal[d], r)
      BY <2>1, <2>3 DEF CInv, Together
    <3>3. QED
      BY <1>5, <2>1, <3>1, <3>2 DEF Undivided, Disk
  <2>4. QED
    BY <2>2, <2>3
<1>6. {rec \in Stored : rec[1] \in lost} \subseteq raced
  BY <1>4, <1>5
<1>7. Stored' = {rec \in Stored : rec[1] \notin lost}
  <2>1. \A rec \in Stored : rec \in Records /\ rec[1] \in Reqs
    BY DEF Stored, Records
  <2>2. QED
    BY <1>2, <1>3, <1>5, <2>1
<1>8. lost \in SUBSET Reqs
  OBVIOUS
<1>9. QED
  BY <1>1, <1>6, <1>7, <1>8 DEF Store!Crash

LEMMA StoreBoot == ASSUME Boot, Control PROVE Unseen
<1>1. /\ ~up /\ up' /\ mem' = [d \in Drives |-> Booted(d)] /\ pcS' # "apply"
      /\ UNCHANGED <<raced, acked>>
  BY DEF Boot, Control, serveVars, doneVars
<1>2. \A rec \in Records : DriveOf[rec[1]] \in Drives
  BY DurabilityAssumption DEF Records
<1>3. Stored' = Stored
  BY <1>1, <1>2 DEF Stored
<1>4. QED
  BY <1>1, <1>3 DEF Unseen

LEMMA StoreStep ==
  ASSUME TypeOK, Control, DInv, WInv, CInv, [Next]_vars
  PROVE  [Store!Next]_(Store!vars)
<1> USE DEF serveVars, taskVars, diskVars, doneVars
<1>1. ASSUME NEW r \in Reqs, Begin(r) PROVE Unseen
  BY <1>1 DEF Begin, Unseen, Stored
<1>2. CASE Append
  <2>1. cur \in Reqs /\ part \in {1, 2}
    BY <1>2 DEF Append, TypeOK, Control
  <2>2. QED
    BY <1>2, <2>1, StoreAppend DEF Store!Next
<1>3. ASSUME AppendFail PROVE Unseen
  BY <1>3 DEF AppendFail, Unseen, Stored, Booted, Disk
<1>4. ASSUME Apply PROVE Unseen
  BY <1>4, StoreApply
<1>5. CASE Reply
  <2>1. cur \in Reqs
    BY <1>5 DEF Reply, Control
  <2>2. QED
    BY <1>5, <2>1, StoreReply DEF Store!Next
<1>6. ASSUME Tick \/ TickDone \/ SkipCheckpoint \/ BeginCheckpoint PROVE Unseen
  BY <1>6 DEF Tick, TickDone, SkipCheckpoint, BeginCheckpoint, Unseen, Stored, Booted, Disk
<1>7. ASSUME NEW d \in Drives, TakeState(d) \/ SaveFail(d) \/ ResetOk(d) \/ ResetFail(d)
                                 \/ CheckpointOk(d) \/ CheckpointFail(d)
      PROVE  Unseen
  BY <1>7 DEF TakeState, SaveFail, ResetOk, ResetFail, CheckpointOk, CheckpointFail, Control,
     Unseen, Stored
<1>8. ASSUME NEW d \in Drives, SaveOk(d) PROVE Store!Secure
  BY <1>8, StoreSave
<1>9. CASE Crash
  BY <1>9, StoreCrash DEF Store!Next
<1>10. ASSUME Boot PROVE Unseen
  BY <1>10, StoreBoot
<1>11. ASSUME UNCHANGED vars PROVE Unseen
  BY <1>11 DEF vars, Unseen, Stored, Booted, Disk
<1>12. QED
  BY <1>1, <1>2, <1>3, <1>4, <1>5, <1>6, <1>7, <1>8, <1>9, <1>10, <1>11
  DEF Next, Serve, Task, Store!Next, Store!vars, Unseen

(* The host with its two tasks, its files and its crashes is a durable      *)
(* store, for any drives, requests and number of crashes.                   *)
THEOREM HostIsDurableStore == Spec => ImplementsStore
<1>1. Init => Store!Init
  BY StoreInit
<1>2. TypeOK /\ Control /\ DInv /\ WInv /\ CInv /\ [Next]_vars => [Store!Next]_(Store!vars)
  BY StoreStep
<1>3. QED
  BY <1>1, <1>2, TypeControl, DInvHolds, WInvHolds, CInvHolds, PTL
  DEF Spec, Store!Spec, ImplementsStore

-------------------------------------------------------------------------------
(* What a client may rely on follows from the steps of the store alone.     *)

AckedStored == \A r \in acked : Recs(r) \subseteq Stored \union raced

KeptForGood ==
  \A r \in acked : Recs(r) \intersect raced = {} =>
    Recs(r) \subseteq Stored' /\ Recs(r) \intersect raced' = {}

LEMMA StoreKeeps ==
  ASSUME AckedStored, [Store!Next]_(Store!vars)
  PROVE  AckedStored' /\ KeptForGood
<1>1. \A r : Store!Recs(r) = Recs(r)
  BY DEF Store!Recs, Recs, Parts
<1>2. ASSUME NEW r \in Reqs, NEW p \in {1, 2}, Store!Put(r, p)
      PROVE  AckedStored' /\ KeptForGood
  <2>1. /\ r \notin acked /\ acked' = acked
        /\ Stored' = Stored \union {<<r, p>>}
        /\ raced' \in {raced, raced \union {<<r, p>>}}
    BY <1>2 DEF Store!Put
  <2>2. \A q \in acked : <<r, p>> \notin Recs(q)
    BY <2>1 DEF Recs
  <2> QED BY <2>1, <2>2 DEF AckedStored, KeptForGood
<1>3. ASSUME NEW r \in Reqs, Store!Ack(r)
      PROVE  AckedStored' /\ KeptForGood
  <2>1. /\ Recs(r) \subseteq Stored /\ acked' = acked \union {r}
        /\ Stored' = Stored /\ raced' = raced
    BY <1>1, <1>3 DEF Store!Ack
  <2> QED BY <2>1 DEF AckedStored, KeptForGood
<1>4. CASE Store!Secure
  <2>1. /\ raced' \subseteq raced /\ raced \ raced' \subseteq Stored
        /\ Stored' = Stored /\ acked' = acked
    BY <1>4 DEF Store!Secure
  <2> QED BY <2>1 DEF AckedStored, KeptForGood
<1>5. ASSUME NEW lost \in SUBSET Reqs, Store!Crash(lost)
      PROVE  AckedStored' /\ KeptForGood
  <2>1. /\ {rec \in Stored : rec[1] \in lost} \subseteq raced
        /\ Stored' = {rec \in Stored : rec[1] \notin lost}
        /\ raced' = raced /\ acked' = acked
    BY <1>5 DEF Store!Crash
  <2>2. \A rec \in Stored : rec \in Stored' \/ rec \in raced
    BY <2>1
  <2> QED BY <2>1, <2>2 DEF AckedStored, KeptForGood
<1>6. CASE UNCHANGED Store!vars
  BY <1>6 DEF Store!vars, AckedStored, KeptForGood
<1> QED BY <1>2, <1>3, <1>4, <1>5, <1>6 DEF Store!Next

(* What is acknowledged and not raced by a snapshot, or saved since, stays  *)
(* through every crash and boot.                                            *)
THEOREM AckedIsForGood == Spec => SafeForGood
<1>1. Init => AckedStored
  BY DEF Init, AckedStored
<1>2. TypeOK /\ Control /\ DInv /\ WInv /\ CInv /\ AckedStored /\ [Next]_vars
        => AckedStored' /\ KeptForGood
  BY StoreStep, StoreKeeps
<1>3. KeptForGood =>
        [\A r \in acked : Recs(r) \intersect raced = {} =>
           Recs(r) \subseteq Stored' /\ Recs(r) \intersect raced' = {}]_vars
  BY DEF KeptForGood
<1> QED BY <1>1, <1>2, <1>3, TypeControl, DInvHolds, WInvHolds, CInvHolds, PTL
        DEF Spec, SafeForGood
===============================================================================
