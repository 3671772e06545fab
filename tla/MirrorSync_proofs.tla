-------------------------- MODULE MirrorSync_proofs --------------------------
(***************************************************************************)
(* Proofs about MirrorSync, for any operations, clients and page sizes.    *)
(***************************************************************************)
EXTENDS MirrorSync, FiniteSetTheorems, SequenceTheorems, TLAPS

-------------------------------------------------------------------------------
(* Lemmas about the feed. *)

(* Feed.record numbers the changes 1, 2, 3, ... *)
Numbered == \A i \in DOMAIN feed : feed[i].seq = i

(* The cursor of a numbered feed is its length. *)
LEMMA CursorIsLen ==
  ASSUME TypeOK, Numbered
  PROVE  Cursor = Len(feed)
  BY DEF TypeOK, Numbered, Cursor

LEMMA CountToN ==
  ASSUME NEW n \in Nat
  PROVE  IsFiniteSet(1..n) /\ Cardinality(1..n) = n
  BY FS_Interval

(* What is ahead of c is the feed from position c + 1. *)
LEMMA AheadIsTail ==
  ASSUME TypeOK, Numbered, NEW c \in Nat
  PROVE  Ahead(c) = {feed[i].op : i \in (c + 1)..Len(feed)}
<1>1. DOMAIN feed = 1..Len(feed) /\ Len(feed) \in Nat
  BY DEF TypeOK
<1>2. {j \in DOMAIN feed : feed[j].seq > c} = (c + 1)..Len(feed)
  BY <1>1 DEF Numbered
<1>3. QED
  BY <1>2 DEF Ahead

(* The filter of poll drops exactly the first c changes. *)
LEMMA SkippedIsCursor ==
  ASSUME TypeOK, Numbered, NEW c \in Nat, c <= Len(feed)
  PROVE  Skipped(c) = c
<1>1. DOMAIN feed = 1..Len(feed) /\ Len(feed) \in Nat
  BY DEF TypeOK
<1>2. {i \in DOMAIN feed : feed[i].seq <= c} = 1..c
  BY <1>1 DEF Numbered
<1>3. Cardinality(1..c) = c
  BY CountToN
<1>4. QED
  BY <1>2, <1>3 DEF Skipped

(* One page and what is ahead of the cursor it comes with are everything    *)
(* that was ahead of the client.                                            *)
LEMMA PageCovers ==
  ASSUME TypeOK, Numbered, NEW c \in Nat, c <= Len(feed), NEW limit \in Nat
  PROVE  /\ NewCursor(c, limit) \in c..Len(feed)
         /\ Ahead(c) \subseteq Page(c, limit) \union Ahead(NewCursor(c, limit))
<1>1. DOMAIN feed = 1..Len(feed) /\ Len(feed) \in Nat
  BY DEF TypeOK
<1>2. Skipped(c) = c
  BY SkippedIsCursor
<1> DEFINE e == PageEnd(c, limit)
<1>3. e \in c..Len(feed)
  BY <1>1, <1>2 DEF PageEnd, AtLeastOne
<1>4. NewCursor(c, limit) = e
  BY <1>1, <1>2, <1>3 DEF NewCursor, Numbered
<1>5. Ahead(c) = {feed[i].op : i \in (c + 1)..Len(feed)}
  BY AheadIsTail
<1>6. Ahead(e) = {feed[i].op : i \in (e + 1)..Len(feed)}
  BY <1>1, <1>3, AheadIsTail
<1>7. Page(c, limit) = {feed[i].op : i \in (c + 1)..e}
  BY <1>2 DEF Page
<1>8. (c + 1)..Len(feed) \subseteq ((c + 1)..e) \union ((e + 1)..Len(feed))
  BY <1>1, <1>3
<1> HIDE DEF e
<1>9. QED
  BY <1>1, <1>3, <1>4, <1>5, <1>6, <1>7, <1>8

(* A page holds recorded operations and comes with a cursor, whatever the   *)
(* client's own cursor is.                                                  *)
LEMMA PageTyped ==
  ASSUME TypeOK, Numbered, NEW c \in Nat, NEW limit \in Nat
  PROVE  /\ Page(c, limit) \subseteq Fed /\ NewCursor(c, limit) \in Nat
         /\ Page(c, limit) \subseteq {feed[i].op : i \in 1..Len(feed)}
<1>1. DOMAIN feed = 1..Len(feed) /\ Len(feed) \in Nat
  BY DEF TypeOK
<1>2. {i \in DOMAIN feed : feed[i].seq <= c} \subseteq 1..Len(feed)
  BY <1>1
<1>3. IsFiniteSet({i \in DOMAIN feed : feed[i].seq <= c})
  <2>1. IsFiniteSet(1..Len(feed))
    BY <1>1, CountToN
  <2>2. QED
    BY <1>2, <2>1, FS_Subset
<1>4. Skipped(c) \in Nat
  BY <1>3, FS_CardinalityType DEF Skipped
<1>5. PageEnd(c, limit) \in Int /\ PageEnd(c, limit) <= Len(feed)
  BY <1>1, <1>4 DEF PageEnd, AtLeastOne
<1>6. \A i \in (Skipped(c) + 1)..PageEnd(c, limit) : i \in DOMAIN feed
  BY <1>1, <1>4, <1>5
<1>7. \A i \in DOMAIN feed : feed[i].op \in Fed /\ feed[i].seq \in Nat
  <2>1. \A i \in 1..Len(feed) : feed[i] \in [seq : Nat, op : Fed]
    BY ElementOfSeq DEF TypeOK
  <2>2. QED
    BY <1>1, <2>1
<1>8. Page(c, limit) \subseteq Fed
  BY <1>6, <1>7 DEF Page
<1>9. NewCursor(c, limit) \in Nat
  BY <1>1, <1>4, <1>5, <1>7 DEF NewCursor
<1>10. Page(c, limit) \subseteq {feed[i].op : i \in 1..Len(feed)}
  BY <1>1, <1>6 DEF Page
<1>11. QED
  BY <1>8, <1>9, <1>10

(* Recording an operation puts it ahead of every cursor handed out so far   *)
(* and leaves what was ahead of it ahead.                                   *)
LEMMA RecordedAhead ==
  ASSUME TypeOK, Numbered, NEW op \in Fed, feed' = Recorded(op)
  PROVE  /\ Numbered' /\ Len(feed') = Len(feed) + 1
         /\ \A c \in Nat : c <= Len(feed) => Ahead(c)' = Ahead(c) \union {op}
<1>1. Len(feed) \in Nat /\ DOMAIN feed = 1..Len(feed)
  BY DEF TypeOK
<1>2. feed' = Append(feed, [seq |-> Len(feed) + 1, op |-> op])
  BY CursorIsLen DEF Recorded
<1>3. /\ Len(feed') = Len(feed) + 1 /\ DOMAIN feed' = 1..(Len(feed) + 1)
      /\ \A i \in 1..Len(feed) : feed'[i] = feed[i]
      /\ feed'[Len(feed) + 1] = [seq |-> Len(feed) + 1, op |-> op]
  BY <1>1, <1>2 DEF TypeOK
<1>4. Numbered'
  BY <1>1, <1>3 DEF Numbered
<1>5. ASSUME NEW c \in Nat, c <= Len(feed)
      PROVE  Ahead(c)' = Ahead(c) \union {op}
  <2>1. Ahead(c) = {feed[i].op : i \in (c + 1)..Len(feed)}
    BY AheadIsTail
  <2>2. {j \in DOMAIN feed' : feed'[j].seq > c} = (c + 1)..(Len(feed) + 1)
    BY <1>1, <1>3, <1>4 DEF Numbered
  <2>3. Ahead(c)' = {feed'[i].op : i \in (c + 1)..(Len(feed) + 1)}
    BY <2>2 DEF Ahead
  <2>4. (c + 1)..(Len(feed) + 1) = ((c + 1)..Len(feed)) \union {Len(feed) + 1}
    BY <1>1, <1>5
  <2>5. \A i \in (c + 1)..Len(feed) : feed'[i].op = feed[i].op
    BY <1>1, <1>3
  <2>6. feed'[Len(feed) + 1].op = op
    BY <1>3
  <2>7. QED
    BY <2>1, <2>3, <2>4, <2>5, <2>6
<1>6. QED
  BY <1>3, <1>4, <1>5
-------------------------------------------------------------------------------
(* The inductive invariant: a reply under way, and an Open under way, carry  *)
(* the promise that the cached snapshot and the replicas make.              *)

(* Everything the feed is to hand on is in S or still ahead of c. *)
Covers(S, c) == c <= Len(feed) /\ Promised \subseteq S \union Ahead(c)

Epochs ==
  \A m \in Mirrors : born[m] <= epoch /\ \A r \in box[m] : r.epoch <= epoch

OpenUnderWay ==
  pc = "put" => opener \in Mirrors /\ Promised \subseteq bytes

SnapshotCovers == \A s \in snapshot : Covers(s.ops, s.cursor)

RepliesCover ==
  \A m \in Mirrors : \A r \in box[m] :
    /\ r.kind = "opened" /\ r.epoch = epoch => Covers(r.ops, r.cursor)
    /\ r.kind = "changes" /\ born[m] = epoch => Covers(have[m] \union r.ops, r.cursor)

ReplicasCover == \A m \in Mirrors : born[m] = epoch => Covers(have[m], cursor[m])

Inv ==
  /\ TypeOK /\ Numbered /\ Epochs /\ OpenUnderWay
  /\ SnapshotCovers /\ RepliesCover /\ ReplicasCover

(* A step that leaves drive, feed and epoch alone leaves every promise.     *)
LEMMA CoversStable ==
  ASSUME UNCHANGED <<drive, lost, feed>>
  PROVE  /\ Promised' = Promised
         /\ Numbered' <=> Numbered
         /\ \A S, c : Covers(S, c)' <=> Covers(S, c)
  BY DEF Covers, Promised, Ahead, Numbered

(* Merging or annotating adds nothing to what the feed is to hand on. *)
LEMMA CoversUnfed ==
  ASSUME NEW op, op \in Fed => op \in lost, drive' = drive \union {op},
         UNCHANGED <<lost, feed>>
  PROVE  /\ Numbered' <=> Numbered
         /\ \A S, c : Covers(S, c)' <=> Covers(S, c)
<1>1. Promised' = Promised
  BY DEF Promised
<1>2. QED
  BY <1>1 DEF Covers, Ahead, Numbered

LEMMA TypeInit == Init => Inv
  BY MirrorSyncAssumption
  DEF Init, Inv, TypeOK, Numbered, Epochs, OpenUnderWay, SnapshotCovers, RepliesCover,
      ReplicasCover, Promised

(* A reply sent with its promise kept joins replies that keep theirs. *)
LEMMA SentReply ==
  ASSUME Inv, NEW m \in Mirrors, NEW kind \in {"opened", "changes"}, NEW ops, NEW c,
         box' = [box EXCEPT ![m] = {[kind |-> kind, ops |-> ops, cursor |-> c,
                                     epoch |-> epoch]}],
         UNCHANGED <<drive, lost, feed, have, born, epoch>>,
         kind = "opened" => Covers(ops, c),
         kind = "changes" => (born[m] = epoch => Covers(have[m] \union ops, c))
  PROVE  RepliesCover' /\ Epochs'
<1>1. \A S, k : Covers(S, k)' <=> Covers(S, k)
  BY CoversStable
<1> DEFINE sent == [kind |-> kind, ops |-> ops, cursor |-> c, epoch |-> epoch]
<1>2. box'[m] = {sent} /\ \A n \in Mirrors : n # m => box'[n] = box[n]
  BY DEF Inv, TypeOK
<1>3. ASSUME NEW n \in Mirrors, NEW r \in box'[n]
      PROVE  /\ r.kind = "opened" /\ r.epoch = epoch => Covers(r.ops, r.cursor)
             /\ r.kind = "changes" /\ born[n] = epoch =>
                   Covers(have[n] \union r.ops, r.cursor)
             /\ r.epoch <= epoch
  <2>1. CASE n = m
    <3>1. r = sent
      BY <1>2, <1>3, <2>1
    <3>2. r.kind = kind /\ r.ops = ops /\ r.cursor = c /\ r.epoch = epoch
      BY <3>1
    <3>3. QED
      BY <2>1, <3>2 DEF Inv, TypeOK
  <2>2. CASE n # m
    BY <1>2, <1>3, <2>2 DEF Inv, RepliesCover, Epochs
  <2>3. QED
    BY <2>1, <2>2
<1>4. RepliesCover'
  BY <1>1, <1>3 DEF RepliesCover
<1>5. Epochs'
  BY <1>3 DEF Inv, Epochs
<1>6. QED
  BY <1>4, <1>5

LEMMA InvStep == Inv /\ [Next]_vars => Inv'
<1> SUFFICES ASSUME Inv, [Next]_vars PROVE Inv'
  OBVIOUS
<1> USE MirrorSyncAssumption DEF openVars, clientVars
<1>0. TypeOK /\ Numbered
  BY DEF Inv
<1>1. ASSUME NEW op \in Fed, Mutate(op) PROVE Inv'
  <2>1. /\ Numbered' /\ Len(feed') = Len(feed) + 1
        /\ \A c \in Nat : c <= Len(feed) => Ahead(c)' = Ahead(c) \union {op}
    BY <1>0, <1>1, RecordedAhead DEF Mutate
  <2>2. Len(feed) \in Nat
    BY <1>0 DEF TypeOK
  <2>3. ASSUME NEW S, NEW c \in Nat, Covers(S, c) PROVE Covers(S, c)'
    <3>1. Promised' = Promised \union {op}
      BY <1>1 DEF Mutate, Promised
    <3>2. QED
      BY <2>1, <2>2, <2>3, <3>1 DEF Covers
  <2>4. feed' \in Seq([seq : Nat, op : Fed])
    <3>1. Cursor \in Nat
      BY <1>0, <2>2, CursorIsLen
    <3>2. [seq |-> Cursor + 1, op |-> op] \in [seq : Nat, op : Fed]
      BY <3>1
    <3>3. QED
      BY <1>0, <1>1, <3>2 DEF Mutate, Recorded, TypeOK
  <2>5. TypeOK'
    BY <1>0, <1>1, <2>4 DEF TypeOK, Mutate, Ops
  <2>6. SnapshotCovers'
    BY <1>0, <1>1, <2>3 DEF Inv, SnapshotCovers, Mutate, TypeOK, Snapshots
  <2>7. RepliesCover'
    <3>1. \A m \in Mirrors : \A r \in box[m] : r.cursor \in Nat
      BY <1>0 DEF TypeOK, Replies
    <3>2. UNCHANGED <<box, have, born, epoch>>
      BY <1>1 DEF Mutate
    <3>3. QED
      BY <2>3, <3>1, <3>2 DEF Inv, RepliesCover
  <2>8. ReplicasCover'
    BY <1>0, <1>1, <2>3 DEF Inv, ReplicasCover, Mutate, TypeOK
  <2>9. QED
    BY <1>1, <2>1, <2>5, <2>6, <2>7, <2>8 DEF Inv, Mutate, Epochs, OpenUnderWay, Turn
<1>2. ASSUME NEW op \in Ops, (op \in Meta /\ Annotate(op)) \/ Merge(op) PROVE Inv'
  <2>1. /\ op \in Fed => op \in lost
        /\ drive' = drive \union {op} /\ UNCHANGED <<lost, feed>>
        /\ pc' = pc /\ bytes' = bytes
    BY <1>2 DEF Annotate, Merge
  <2>2. Numbered' /\ \A S, c : Covers(S, c)' <=> Covers(S, c)
    BY <1>0, <2>1, CoversUnfed
  <2>3. Promised' = Promised
    BY <2>1 DEF Promised
  <2>4. QED
    BY <1>2, <2>1, <2>2, <2>3
    DEF Inv, TypeOK, Epochs, OpenUnderWay, SnapshotCovers, RepliesCover, ReplicasCover, Annotate, Merge, Ops
<1>3. ASSUME NEW m \in Mirrors, OpenCached(m) PROVE Inv'
  <2>1. Numbered' /\ Promised' = Promised /\ \A S, c : Covers(S, c)' <=> Covers(S, c)
    BY <1>0, <1>3, CoversStable DEF OpenCached
  <2>2. PICK s \in snapshot :
          box' = [box EXCEPT ![m] = {[kind |-> "opened", ops |-> s.ops,
                                      cursor |-> s.cursor, epoch |-> epoch]}]
    BY <1>3 DEF OpenCached, Send
  <2>3. TypeOK'
    BY <1>0, <1>3, <2>2 DEF OpenCached, TypeOK, Replies, Snapshots
  <2>4. Covers(s.ops, s.cursor)
    BY <2>2 DEF Inv, SnapshotCovers
  <2>5. UNCHANGED <<drive, lost, feed, snapshot, openVars, clientVars, epoch>>
    BY <1>3 DEF OpenCached
  <2>6. RepliesCover' /\ Epochs'
    BY <1>0, <2>1, <2>2, <2>4, <2>5, SentReply
  <2>7. SnapshotCovers' /\ ReplicasCover' /\ OpenUnderWay'
    BY <2>1, <2>5 DEF Inv, SnapshotCovers, ReplicasCover, OpenUnderWay
  <2>8. QED
    BY <2>1, <2>3, <2>6, <2>7 DEF Inv
<1>4. ASSUME NEW m \in Mirrors, OpenSerialize(m) PROVE Inv'
  <2>1. Numbered' /\ Promised' = Promised /\ \A S, c : Covers(S, c)' <=> Covers(S, c)
    BY <1>0, <1>4, CoversStable DEF OpenSerialize
  <2>2. UNCHANGED <<drive, lost, feed, snapshot, box, have, cursor, born, epoch>>
    BY <1>4 DEF OpenSerialize
  <2>3. /\ pc' = "put" /\ opener' = m /\ bytes' = drive
    BY <1>4 DEF OpenSerialize
  <2>4. TypeOK'
    BY <1>0, <2>2, <2>3 DEF TypeOK
  <2>5. OpenUnderWay'
    BY <2>1, <2>3 DEF OpenUnderWay, Promised
  <2>6. Epochs' /\ SnapshotCovers' /\ RepliesCover' /\ ReplicasCover'
    BY <2>1, <2>2 DEF Inv, Epochs, SnapshotCovers, RepliesCover, ReplicasCover
  <2>7. QED
    BY <2>1, <2>4, <2>5, <2>6 DEF Inv
<1>5. CASE OpenPublished
  <2>1. Numbered' /\ Promised' = Promised /\ \A S, c : Covers(S, c)' <=> Covers(S, c)
    BY <1>0, <1>5, CoversStable DEF OpenPublished
  <2>2. Cursor = Len(feed) /\ Len(feed) \in Nat
    BY <1>0, CursorIsLen DEF TypeOK
  <2>3. Covers(bytes, Cursor) /\ opener \in Mirrors
    BY <1>5, <2>2 DEF Inv, OpenUnderWay, OpenPublished, Covers
  <2>4. /\ snapshot' = {[ops |-> bytes, cursor |-> Cursor]}
        /\ box' = [box EXCEPT ![opener] = {[kind |-> "opened", ops |-> bytes,
                                            cursor |-> Cursor, epoch |-> epoch]}]
    BY <1>5 DEF OpenPublished, Send
  <2>5. TypeOK'
    BY <1>0, <1>5, <2>2, <2>3, <2>4 DEF OpenPublished, TypeOK, Replies, Snapshots
  <2>6. SnapshotCovers'
    BY <2>1, <2>3, <2>4 DEF SnapshotCovers
  <2>7. RepliesCover' /\ Epochs'
    <3>1. UNCHANGED <<drive, lost, feed, have, born, epoch>>
      BY <1>5 DEF OpenPublished
    <3>2. QED
      BY <1>0, <2>1, <2>3, <2>4, <3>1, SentReply
  <2>8. ReplicasCover' /\ OpenUnderWay'
    BY <1>5, <2>1 DEF Inv, ReplicasCover, OpenUnderWay, OpenPublished
  <2>9. QED
    BY <2>1, <2>5, <2>6, <2>7, <2>8 DEF Inv
<1>6. CASE OpenFailed
  <2>1. Numbered' /\ Promised' = Promised /\ \A S, c : Covers(S, c)' <=> Covers(S, c)
    BY <1>0, <1>6, CoversStable DEF OpenFailed
  <2>2. QED
    BY <1>6, <2>1 DEF OpenFailed, Inv, TypeOK, Epochs, OpenUnderWay, SnapshotCovers, RepliesCover, ReplicasCover
<1>7. ASSUME NEW m \in Mirrors, NEW limit \in Limits, Poll(m, limit) PROVE Inv'
  <2>1. Numbered' /\ Promised' = Promised /\ \A S, c : Covers(S, c)' <=> Covers(S, c)
    BY <1>0, <1>7, CoversStable DEF Poll
  <2> DEFINE pg == Page(cursor[m], limit)
             nc == NewCursor(cursor[m], limit)
  <2>2. box' = [box EXCEPT ![m] = {[kind |-> "changes", ops |-> pg,
                                    cursor |-> nc, epoch |-> epoch]}]
    BY <1>7 DEF Poll, Send
  <2>3. cursor[m] \in Nat /\ limit \in Nat
    BY <1>0 DEF TypeOK
  <2>4. pg \subseteq Fed /\ nc \in Nat
    BY <1>0, <2>3, PageTyped
  <2>5. born[m] = epoch => Covers(have[m] \union pg, nc)
    <3>1. SUFFICES ASSUME born[m] = epoch PROVE Covers(have[m] \union pg, nc)
      OBVIOUS
    <3>2. Covers(have[m], cursor[m])
      BY <3>1 DEF Inv, ReplicasCover
    <3>3. nc \in cursor[m]..Len(feed) /\ Ahead(cursor[m]) \subseteq pg \union Ahead(nc)
      BY <1>0, <2>3, <3>2, PageCovers DEF Covers
    <3>4. QED
      BY <3>2, <3>3 DEF Covers
  <2> HIDE DEF pg, nc
  <2>6. TypeOK'
    BY <1>0, <1>7, <2>2, <2>4 DEF Poll, TypeOK, Replies, Ops
  <2>7. RepliesCover' /\ Epochs'
    <3>1. UNCHANGED <<drive, lost, feed, have, born, epoch>>
      BY <1>7 DEF Poll
    <3>2. QED
      BY <1>0, <2>1, <2>2, <2>5, <3>1, SentReply
  <2>8. SnapshotCovers' /\ ReplicasCover' /\ OpenUnderWay'
    BY <1>7, <2>1 DEF Inv, SnapshotCovers, ReplicasCover, OpenUnderWay, Poll
  <2>9. QED
    BY <2>1, <2>6, <2>7, <2>8 DEF Inv
<1>8. ASSUME NEW m \in Mirrors, Receive(m) PROVE Inv'
  <2>1. Numbered' /\ Promised' = Promised /\ \A S, c : Covers(S, c)' <=> Covers(S, c)
    BY <1>0, <1>8, CoversStable DEF Receive
  <2>2. PICK r \in box[m] :
          /\ have' = [have EXCEPT ![m] = IF r.kind = "opened" THEN r.ops ELSE @ \union r.ops]
          /\ cursor' = [cursor EXCEPT ![m] = r.cursor]
          /\ born' = [born EXCEPT ![m] = IF r.kind = "opened" THEN r.epoch ELSE @]
          /\ box' = [box EXCEPT ![m] = {}]
          /\ UNCHANGED <<drive, lost, feed, snapshot, openVars, epoch>>
    BY <1>8 DEF Receive
  <2>3. r \in Replies
    BY <1>0, <2>2 DEF TypeOK
  <2>4. TypeOK'
    BY <1>0, <2>2, <2>3 DEF TypeOK, Replies
  <2>5. ReplicasCover'
    BY <1>0, <2>1, <2>2, <2>3 DEF Inv, ReplicasCover, RepliesCover, TypeOK, Replies
  <2>6. RepliesCover'
    BY <1>0, <2>1, <2>2 DEF Inv, RepliesCover, TypeOK
  <2>7. Epochs'
    BY <1>0, <2>2 DEF Inv, Epochs, TypeOK
  <2>8. SnapshotCovers' /\ OpenUnderWay'
    BY <2>1, <2>2 DEF Inv, SnapshotCovers, OpenUnderWay
  <2>9. QED
    BY <2>1, <2>4, <2>5, <2>6, <2>7, <2>8 DEF Inv
<1>9. ASSUME NEW m \in Mirrors, Lose(m) PROVE Inv'
  <2>1. Numbered' /\ Promised' = Promised /\ \A S, c : Covers(S, c)' <=> Covers(S, c)
    BY <1>0, <1>9, CoversStable DEF Lose
  <2>2. QED
    BY <1>9, <2>1 DEF Lose, Inv, TypeOK, Epochs, OpenUnderWay, SnapshotCovers, RepliesCover, ReplicasCover
<1>10. CASE Restart
  <2>1. TypeOK'
    BY <1>10 DEF Inv, TypeOK, Restart
  <2>2. \A m \in Mirrors : /\ born'[m] # epoch'
                          /\ \A r \in box'[m] : r.epoch # epoch'
    BY <1>0, <1>10 DEF Inv, Epochs, Restart, TypeOK, Replies
  <2>3. Epochs'
    BY <1>0, <1>10 DEF Inv, Epochs, Restart, TypeOK, Replies
  <2>4. QED
    BY <1>10, <2>1, <2>2, <2>3
    DEF Inv, Restart, Numbered, OpenUnderWay, SnapshotCovers, RepliesCover, ReplicasCover
<1>11. CASE UNCHANGED vars
  <2>1. Numbered' /\ Promised' = Promised /\ \A S, c : Covers(S, c)' <=> Covers(S, c)
    BY <1>0, <1>11, CoversStable DEF vars
  <2>2. QED
    BY <1>11, <2>1 DEF vars, Inv, TypeOK, Epochs, OpenUnderWay, SnapshotCovers, RepliesCover, ReplicasCover
<1>12. QED
  BY <1>1, <1>2, <1>3, <1>4, <1>5, <1>6, <1>7, <1>8, <1>9, <1>10, <1>11 DEF Next, Ops

LEMMA InvHolds == Spec => []Inv
  BY TypeInit, InvStep, PTL DEF Spec

(* The replies, the cached snapshot and the replicas only ever hold         *)
(* operations of the drive's kinds and natural cursors.                     *)
THEOREM TypeCorrect == Spec => []TypeOK
<1>1. Inv => TypeOK
  BY DEF Inv
<1>2. QED
  BY <1>1, InvHolds, PTL

(* A cached snapshot never claims a cursor whose operations it lacks, for   *)
(* any number of clients, opens, failed publications and restarts.          *)
THEOREM BootstrapLosesNothing == Spec => []SnapshotThenFeed
<1>1. Inv => SnapshotThenFeed
  BY DEF Inv, SnapshotCovers, Covers, SnapshotThenFeed
<1>2. QED
  BY <1>1, InvHolds, PTL

(* A client that bootstrapped in this life of the host never skips a        *)
(* recorded operation, whatever pages it asked for and whatever replies     *)
(* were lost: what its replica lacks is still ahead of its cursor.          *)
NothingSkipped ==
  \A m \in Mirrors : born[m] = epoch =>
    Promised \subseteq have[m] \union Ahead(cursor[m])

(* A client that bootstrapped in this life of the host never skips a        *)
(* recorded operation, for any page sizes and any lost replies.             *)
THEOREM PollingSkipsNothing == Spec => []NothingSkipped
<1>1. Inv => NothingSkipped
  BY DEF Inv, ReplicasCover, Covers, NothingSkipped
<1>2. QED
  BY <1>1, InvHolds, PTL

-------------------------------------------------------------------------------
(* Cursors advance.                                                          *)

(* A poll never hands back a cursor behind the one it was asked with, also  *)
(* when that one comes from an earlier life of the host.                    *)
LEMMA NewCursorGrows ==
  ASSUME TypeOK, Numbered, NEW c \in Nat, NEW limit \in Nat
  PROVE  NewCursor(c, limit) >= c
<1>1. DOMAIN feed = 1..Len(feed) /\ Len(feed) \in Nat
  BY DEF TypeOK
<1>2. CASE c <= Len(feed)
  BY <1>1, <1>2, PageCovers
<1>3. CASE c > Len(feed)
  <2>1. {i \in DOMAIN feed : feed[i].seq <= c} = 1..Len(feed)
    BY <1>1, <1>3 DEF Numbered
  <2>2. Cardinality(1..Len(feed)) = Len(feed)
    BY <1>1, CountToN
  <2>3. Skipped(c) = Len(feed)
    BY <2>1, <2>2 DEF Skipped
  <2>4. PageEnd(c, limit) <= Len(feed)
    BY <1>1, <2>3 DEF PageEnd, AtLeastOne
  <2>5. PageEnd(c, limit) \in Int
    BY <1>1, <2>3 DEF PageEnd, AtLeastOne
  <2>6. QED
    BY <1>1, <2>3, <2>4, <2>5 DEF NewCursor
<1>4. QED
  BY <1>1, <1>2, <1>3

(* A reply that will not start a new life of the client is not behind it.   *)
RepliesAhead ==
  \A m \in Mirrors : \A r \in box[m] :
    r.kind = "changes" \/ r.epoch = born[m] => r.cursor >= cursor[m]

LEMMA SentAhead ==
  ASSUME TypeOK, RepliesAhead, NEW m \in Mirrors, NEW kind \in {"opened", "changes"},
         NEW ops, NEW c,
         box' = [box EXCEPT ![m] = {[kind |-> kind, ops |-> ops, cursor |-> c,
                                     epoch |-> epoch]}],
         UNCHANGED <<cursor, born>>,
         kind = "changes" \/ epoch = born[m] => c >= cursor[m]
  PROVE  RepliesAhead'
<1> DEFINE sent == [kind |-> kind, ops |-> ops, cursor |-> c, epoch |-> epoch]
<1>1. box'[m] = {sent} /\ \A n \in Mirrors : n # m => box'[n] = box[n]
  BY DEF TypeOK
<1>2. sent.kind = kind /\ sent.cursor = c /\ sent.epoch = epoch
  OBVIOUS
<1> HIDE DEF sent
<1>3. QED
  BY <1>1, <1>2 DEF RepliesAhead

LEMMA RepliesAheadStep == Inv /\ RepliesAhead /\ [Next]_vars => RepliesAhead'
<1> SUFFICES ASSUME Inv, RepliesAhead, [Next]_vars PROVE RepliesAhead'
  OBVIOUS
<1> USE DEF openVars, clientVars
<1>0. TypeOK /\ Numbered
  BY DEF Inv
<1>1. ASSUME NEW m \in Mirrors, born[m] = epoch PROVE Cursor >= cursor[m]
  <2>1. cursor[m] <= Len(feed)
    BY <1>1 DEF Inv, ReplicasCover, Covers
  <2>2. Cursor = Len(feed) /\ Len(feed) \in Nat /\ cursor[m] \in Nat
    BY <1>0, CursorIsLen DEF TypeOK
  <2>3. QED
    BY <2>1, <2>2
<1>2. ASSUME NEW m \in Mirrors, OpenCached(m) PROVE RepliesAhead'
  <2>1. PICK s \in snapshot :
          /\ s.cursor = Cursor
          /\ box' = [box EXCEPT ![m] = {[kind |-> "opened", ops |-> s.ops,
                                         cursor |-> s.cursor, epoch |-> epoch]}]
    BY <1>2 DEF OpenCached, Send
  <2>2. QED
    BY <1>0, <1>1, <1>2, <2>1, SentAhead DEF OpenCached
<1>3. CASE OpenPublished
  <2>1. box' = [box EXCEPT ![opener] = {[kind |-> "opened", ops |-> bytes,
                                        cursor |-> Cursor, epoch |-> epoch]}]
    BY <1>3 DEF OpenPublished, Send
  <2>2. opener \in Mirrors /\ UNCHANGED <<cursor, born>>
    BY <1>3 DEF Inv, OpenUnderWay, OpenPublished
  <2>3. QED
    BY <1>0, <1>1, <2>1, <2>2, SentAhead
<1>4. ASSUME NEW m \in Mirrors, NEW limit \in Limits, Poll(m, limit) PROVE RepliesAhead'
  <2>1. cursor[m] \in Nat /\ limit \in Nat
    BY <1>0, MirrorSyncAssumption DEF TypeOK
  <2>2. NewCursor(cursor[m], limit) >= cursor[m]
    BY <1>0, <2>1, NewCursorGrows
  <2>3. QED
    BY <1>0, <1>4, <2>2, SentAhead DEF Poll, Send
<1>5. ASSUME NEW m \in Mirrors, Receive(m) \/ Lose(m) PROVE RepliesAhead'
  <2>1. /\ box' = [box EXCEPT ![m] = {}]
        /\ \A n \in Mirrors : n # m => cursor'[n] = cursor[n] /\ born'[n] = born[n]
    BY <1>0, <1>5 DEF Receive, Lose, TypeOK
  <2>2. QED
    BY <1>0, <2>1 DEF RepliesAhead, TypeOK
<1>6. CASE UNCHANGED <<box, cursor, born>>
  BY <1>6 DEF RepliesAhead
<1>7. QED
  BY <1>2, <1>3, <1>4, <1>5, <1>6
  DEF Next, Mutate, Annotate, Merge, OpenSerialize, OpenFailed, Restart, vars

(* No client's cursor ever runs backwards without a bootstrap in a later    *)
(* life of the host.                                                        *)
THEOREM CursorsNeverRunBack == Spec => CursorsAdvance
<1>1. Init => RepliesAhead
  BY DEF Init, RepliesAhead
<1>2. Inv /\ RepliesAhead /\ [Next]_vars
        => [\A m \in Mirrors : born'[m] = born[m] => cursor'[m] >= cursor[m]]_vars
  <2> SUFFICES ASSUME Inv, RepliesAhead, Next, NEW m \in Mirrors, born'[m] = born[m]
               PROVE  cursor'[m] >= cursor[m]
    OBVIOUS
  <2>0. cursor[m] \in Nat
    BY DEF Inv, TypeOK
  <2>1. ASSUME NEW n \in Mirrors, Receive(n) PROVE cursor'[m] >= cursor[m]
    <3>1. PICK r \in box[n] :
            /\ cursor' = [cursor EXCEPT ![n] = r.cursor]
            /\ born' = [born EXCEPT ![n] = IF r.kind = "opened" THEN r.epoch ELSE @]
      BY <2>1 DEF Receive
    <3>2. CASE n = m
      <4>1. r.kind \in {"opened", "changes"}
        BY <3>1 DEF Inv, TypeOK, Replies
      <4>2. r.kind = "changes" \/ r.epoch = born[m]
        BY <3>1, <3>2, <4>1 DEF Inv, TypeOK
      <4>3. QED
        BY <3>1, <3>2, <4>2 DEF Inv, TypeOK, RepliesAhead
    <3>3. CASE n # m
      BY <2>0, <3>1, <3>3 DEF Inv, TypeOK
    <3>4. QED
      BY <3>2, <3>3
  <2>2. CASE UNCHANGED cursor
    BY <2>0, <2>2
  <2>3. QED
    BY <2>1, <2>2
    DEF Next, Mutate, Annotate, Merge, OpenCached, OpenSerialize, OpenPublished,
        OpenFailed, Poll, Lose, Restart, clientVars
<1>3. QED
  BY <1>1, <1>2, RepliesAheadStep, InvHolds, PTL DEF Spec, CursorsAdvance

-------------------------------------------------------------------------------
(* Polls make progress.                                                      *)

(* A page moves the cursor unless nothing is ahead of it, for any limit.     *)
LEMMA QuietPage ==
  ASSUME TypeOK, Numbered, NEW c \in Nat, c <= Len(feed), NEW limit \in Nat
  PROVE  NewCursor(c, limit) = c => Ahead(c) = {}
<1>1. Len(feed) \in Nat
  BY DEF TypeOK
<1>2. Skipped(c) = c
  BY SkippedIsCursor
<1>3. CASE c < Len(feed)
  <2>1. PageEnd(c, limit) \in (c + 1)..Len(feed)
    BY <1>1, <1>2, <1>3 DEF PageEnd, AtLeastOne
  <2>2. NewCursor(c, limit) = PageEnd(c, limit)
    BY <1>1, <1>2, <2>1 DEF NewCursor, Numbered, TypeOK
  <2>3. PageEnd(c, limit) # c
    BY <1>1, <2>1
  <2> QED BY <2>2, <2>3
<1>4. CASE c = Len(feed)
  <2>1. (c + 1)..Len(feed) = {}
    BY <1>1, <1>4
  <2>2. Ahead(c) = {feed[i].op : i \in (c + 1)..Len(feed)}
    BY AheadIsTail
  <2> QED BY <2>1, <2>2
<1> QED BY <1>1, <1>3, <1>4

(* A client that lacks a recorded operation is moved on by every poll, for  *)
(* any limit, zero included: the safe half of CatchesUp.                    *)
THEOREM QuietPollsAreComplete == Spec => QuietWhenComplete
<1>1. Inv => [\A m \in Mirrors, limit \in Limits :
                born[m] = epoch /\ Poll(m, limit) =>
                  \A r \in box'[m] : r.cursor = cursor[m]
                                    => Promised \subseteq have[m]]_vars
  <2> SUFFICES ASSUME Inv, NEW m \in Mirrors, NEW limit \in Limits,
                      born[m] = epoch, Poll(m, limit),
                      NEW r \in box'[m], r.cursor = cursor[m]
               PROVE  Promised \subseteq have[m]
    OBVIOUS
  <2>1. TypeOK /\ Numbered /\ cursor[m] \in Nat /\ limit \in Nat
    BY MirrorSyncAssumption DEF Inv, TypeOK
  <2>2. r.cursor = NewCursor(cursor[m], limit)
    BY <2>1 DEF Poll, Send, TypeOK
  <2>3. cursor[m] <= Len(feed) /\ Promised \subseteq have[m] \union Ahead(cursor[m])
    BY DEF Inv, ReplicasCover, Covers
  <2>4. Ahead(cursor[m]) = {}
    BY <2>1, <2>2, <2>3, QuietPage
  <2> QED BY <2>3, <2>4
<1> QED BY <1>1, InvHolds, PTL DEF QuietWhenComplete

-------------------------------------------------------------------------------
(* The feed after a cursor, as the sequence that Replication speaks of.      *)

Rest(c) == [i \in 1..(Len(feed) - c) |-> feed[c + i].op]

(* The changes after c up to e. *)
Sent(c, e) == {feed[i].op : i \in (c + 1)..e}

LEMMA FeedOps ==
  ASSUME TypeOK
  PROVE  /\ Len(feed) \in Nat /\ DOMAIN feed = 1..Len(feed)
         /\ \A i \in 1..Len(feed) : feed[i].op \in Fed
<1>1. \A i \in 1..Len(feed) : feed[i] \in [seq : Nat, op : Fed]
  BY ElementOfSeq DEF TypeOK
<1>2. feed \in Seq([seq : Nat, op : Fed])
  BY DEF TypeOK
<1>3. Len(feed) \in Nat /\ DOMAIN feed = 1..Len(feed)
  BY <1>2, LenProperties
<1> QED BY <1>1, <1>3

LEMMA FunctionIsSeq ==
  ASSUME NEW n \in Nat, NEW S, NEW f \in [1..n -> S]
  PROVE  f \in Seq(S) /\ Len(f) = n
<1>1. f \in Seq(S)
  BY SeqDef
<1>2. Len(f) \in Nat /\ DOMAIN f = 1..Len(f) /\ DOMAIN f = 1..n
  BY <1>1, LenProperties
<1>3. \A i \in Int : i \in 1..Len(f) <=> i \in 1..n
  BY <1>2
<1>4. Len(f) = n
  BY <1>2, <1>3
<1> QED BY <1>1, <1>4

LEMMA RestSeq ==
  ASSUME TypeOK, NEW c \in Nat, c <= Len(feed)
  PROVE  /\ Rest(c) \in Seq(Fed) /\ Len(Rest(c)) = Len(feed) - c
         /\ \A i \in 1..(Len(feed) - c) : Rest(c)[i] = feed[c + i].op
<1>1. Len(feed) \in Nat /\ Len(feed) - c \in Nat
  BY FeedOps
<1>2. \A i \in 1..(Len(feed) - c) : c + i \in 1..Len(feed)
  BY <1>1
<1>3. Rest(c) \in [1..(Len(feed) - c) -> Fed]
  BY <1>2, FeedOps DEF Rest
<1>4. Rest(c) \in Seq(Fed) /\ Len(Rest(c)) = Len(feed) - c
  BY <1>1, <1>3, FunctionIsSeq
<1> QED BY <1>4 DEF Rest

LEMMA RestMembers ==
  ASSUME TypeOK, Numbered, NEW c \in Nat, c <= Len(feed)
  PROVE  Replication!Members(Rest(c)) = Ahead(c)
<1>1. Ahead(c) = {feed[i].op : i \in (c + 1)..Len(feed)}
  BY AheadIsTail
<1>2. Len(feed) \in Nat
  BY FeedOps
<1>3. ASSUME NEW i \in (c + 1)..Len(feed)
      PROVE  i - c \in 1..(Len(feed) - c) /\ c + (i - c) = i
  BY <1>2, <1>3
<1>4. ASSUME NEW i \in 1..(Len(feed) - c) PROVE c + i \in (c + 1)..Len(feed)
  BY <1>2, <1>4
<1>5. Replication!Members(Rest(c)) = {feed[c + i].op : i \in 1..(Len(feed) - c)}
  BY DEF Replication!Members, Rest
<1>6. \A x \in Ahead(c) : x \in Replication!Members(Rest(c))
  BY <1>1, <1>3, <1>5
<1>7. \A x \in Replication!Members(Rest(c)) : x \in Ahead(c)
  BY <1>1, <1>4, <1>5
<1> QED BY <1>6, <1>7

(* Recording an operation appends it to what is due. *)
LEMMA RestRecorded ==
  ASSUME TypeOK, Numbered, NEW op \in Fed, feed' = Recorded(op), NEW c \in Nat, c <= Len(feed)
  PROVE  Rest(c)' = Append(Rest(c), op)
<1>1. Len(feed) \in Nat
  BY FeedOps
<1>2. feed' = Append(feed, [seq |-> Len(feed) + 1, op |-> op])
  BY CursorIsLen DEF Recorded
<1>3. /\ Len(feed') = Len(feed) + 1
      /\ \A i \in 1..Len(feed) : feed'[i] = feed[i]
      /\ feed'[Len(feed) + 1] = [seq |-> Len(feed) + 1, op |-> op]
  BY <1>1, <1>2 DEF TypeOK
<1> DEFINE n == Len(feed) - c
           q == [i \in 1..(n + 1) |-> feed'[c + i].op]
<1>4. n \in Nat /\ c + (n + 1) = Len(feed) + 1 /\ Len(feed') - c = n + 1
  BY <1>1, <1>3
<1>5. ASSUME NEW i \in 1..n PROVE feed'[c + i].op = feed[c + i].op
  <2>1. c + i \in 1..Len(feed)
    BY <1>1, <1>5
  <2> QED BY <1>3, <2>1
<1>6. feed'[c + (n + 1)].op = op
  BY <1>3, <1>4
<1>7. Rest(c) \in Seq(Fed) /\ Len(Rest(c)) = n /\ \A i \in 1..n : Rest(c)[i] = feed[c + i].op
  BY RestSeq
<1>8. Rest(c)' = q
  BY <1>4 DEF Rest
<1> HIDE DEF n
<1>9. \A i \in 1..(n + 1) : q[i] = IF i <= n THEN Rest(c)[i] ELSE op
  <2>1. ASSUME NEW i \in 1..n PROVE i \in 1..(n + 1) /\ q[i] = Rest(c)[i]
    <3>1. i \in 1..(n + 1)
      BY <1>4
    <3>2. q[i] = feed'[c + i].op
      BY <3>1
    <3>3. Rest(c)[i] = feed[c + i].op
      BY <1>7
    <3> QED BY <1>5, <3>1, <3>2, <3>3
  <2>2. n + 1 \in 1..(n + 1) /\ q[n + 1] = op
    BY <1>4, <1>6
  <2>3. \A i \in 1..(n + 1) : i \in 1..n \/ i = n + 1
    BY <1>4
  <2> HIDE DEF q
  <2> QED BY <1>4, <2>1, <2>2, <2>3
<1>10. q \in Seq(Fed) /\ Len(q) = n + 1
  <2>1. ASSUME NEW i \in 1..(n + 1) PROVE q[i] \in Fed
    <3>1. q[i] = IF i <= n THEN Rest(c)[i] ELSE op
      BY <1>9
    <3> HIDE DEF q
    <3>2. i <= n => i \in 1..Len(Rest(c))
      BY <1>4, <1>7
    <3>3. i <= n => Rest(c)[i] \in Fed
      BY <1>7, <3>2, ElementOfSeq
    <3> QED BY <3>1, <3>3
  <2>2. q \in [1..(n + 1) -> Fed]
    BY <2>1
  <2>3. n + 1 \in Nat
    BY <1>4
  <2> HIDE DEF q
  <2> QED BY <2>2, <2>3, FunctionIsSeq
<1>11. /\ Append(Rest(c), op) \in Seq(Fed) /\ Len(Append(Rest(c), op)) = n + 1
       /\ \A i \in 1..n : Append(Rest(c), op)[i] = Rest(c)[i]
       /\ Append(Rest(c), op)[n + 1] = op
  BY <1>7, AppendProperties
<1> HIDE DEF q
<1>12. \A i \in 1..(n + 1) : q[i] = Append(Rest(c), op)[i]
  BY <1>4, <1>9, <1>11
<1>13. q = Append(Rest(c), op)
  BY <1>10, <1>11, <1>12, SeqEqual
<1> QED BY <1>8, <1>13

(* A page takes the first of what is due and leaves the rest. *)
LEMMA RestSent ==
  ASSUME TypeOK, NEW c \in Nat, NEW e \in Nat, c <= e, e <= Len(feed)
  PROVE  /\ e - c \in 0..Len(Rest(c))
         /\ Replication!Members(SubSeq(Rest(c), 1, e - c)) = Sent(c, e)
         /\ SubSeq(Rest(c), e - c + 1, Len(Rest(c))) = Rest(e)
<1> DEFINE L == Len(feed)
           q == Rest(c)
           p == SubSeq(q, 1, e - c)
           t == SubSeq(q, e - c + 1, L - c)
<1>1. L \in Nat
  BY FeedOps
<1>2. q \in Seq(Fed) /\ Len(q) = L - c /\ \A i \in 1..(L - c) : q[i] = feed[c + i].op
  <2>1. c <= Len(feed)
    BY <1>1
  <2> QED BY <2>1, RestSeq
<1>3. Rest(e) \in Seq(Fed) /\ Len(Rest(e)) = L - e /\ \A i \in 1..(L - e) : Rest(e)[i] = feed[e + i].op
  BY <1>1, RestSeq
<1> HIDE DEF L, q
<1>4. e <= L /\ e - c \in 0..(L - c)
  BY <1>1 DEF L
<1>5. \A i \in 1..(L - c) : q[i] \in Fed
  BY <1>2, ElementOfSeq
<1>6. p \in Seq(Fed) /\ Len(p) = e - c /\ \A i \in 1..(e - c) : p[i] = q[i]
  <2>1. \A i \in 1..(e - c) : q[i] \in Fed
    BY <1>1, <1>4, <1>5
  <2>2. /\ p \in Seq(Fed) /\ Len(p) = IF 1 <= e - c THEN (e - c) - 1 + 1 ELSE 0
        /\ \A i \in 1..((e - c) - 1 + 1) : p[i] = q[1 + i - 1]
    BY <1>4, <2>1, SubSeqProperties
  <2> HIDE DEF p
  <2> QED BY <1>4, <2>2
<1>7. t \in Seq(Fed) /\ Len(t) = L - e /\ \A i \in 1..(L - e) : t[i] = q[(e - c) + i]
  <2>1. \A i \in (e - c + 1)..(L - c) : q[i] \in Fed
    BY <1>1, <1>4, <1>5
  <2>2. /\ t \in Seq(Fed)
        /\ Len(t) = IF e - c + 1 <= L - c THEN (L - c) - (e - c + 1) + 1 ELSE 0
        /\ \A i \in 1..((L - c) - (e - c + 1) + 1) : t[i] = q[(e - c + 1) + i - 1]
    BY <1>1, <1>4, <2>1, SubSeqProperties
  <2> HIDE DEF t
  <2>3. (L - c) - (e - c + 1) + 1 = L - e
    BY <1>1
  <2> QED BY <1>1, <1>4, <2>2, <2>3
<1> HIDE DEF p, t
<1>8. Replication!Members(p) = Sent(c, e)
  <2>1. Replication!Members(p) = {p[i] : i \in 1..(e - c)}
    BY <1>6 DEF Replication!Members
  <2>2. \A i \in 1..(e - c) : p[i] = feed[c + i].op /\ c + i \in (c + 1)..e
    BY <1>1, <1>2, <1>4, <1>6
  <2>3. \A i \in (c + 1)..e : i - c \in 1..(e - c) /\ c + (i - c) = i
    OBVIOUS
  <2> QED BY <2>1, <2>2, <2>3 DEF Sent
<1>9. \A i \in 1..(L - e) : t[i] = Rest(e)[i]
  <2>1. \A i \in 1..(L - e) : (e - c) + i \in 1..(L - c) /\ c + ((e - c) + i) = e + i
    BY <1>1, <1>4
  <2> QED BY <1>2, <1>3, <1>7, <2>1
<1>10. t = Rest(e)
  BY <1>3, <1>7, <1>9, SeqEqual
<1> QED BY <1>2, <1>4, <1>8, <1>10 DEF q, p, t

(* The changes of a page are those between its cursors. *)
LEMMA PageIsSent ==
  ASSUME TypeOK, Numbered, NEW c \in Nat, c <= Len(feed), NEW limit \in Nat
  PROVE  Page(c, limit) = Sent(c, NewCursor(c, limit))
<1>1. Len(feed) \in Nat
  BY FeedOps
<1>2. Skipped(c) = c
  BY SkippedIsCursor
<1>3. PageEnd(c, limit) \in c..Len(feed)
  BY <1>1, <1>2 DEF PageEnd, AtLeastOne
<1>4. NewCursor(c, limit) = PageEnd(c, limit)
  BY <1>1, <1>2, <1>3, FeedOps DEF NewCursor, Numbered
<1> QED BY <1>2, <1>4 DEF Page, Sent

-------------------------------------------------------------------------------
(* The feed is gap-free and resumable: what Replication needs beyond Inv.    *)

(* Whatever is anywhere was in the drive once; what is in the feed still is, *)
(* and was never lost.                                                      *)
Known ==
  /\ bytes \subseteq drive \union lost
  /\ \A i \in 1..Len(feed) : feed[i].op \in drive \ lost
  /\ \A s \in snapshot : s.ops \subseteq drive \union lost
  /\ \A m \in Mirrors : /\ have[m] \subseteq drive \union lost
                        /\ \A r \in box[m] : r.ops \subseteq drive \union lost

(* A bootstrap never takes an operation the feed is to hand on out of a     *)
(* replica.                                                                 *)
OpensGrow ==
  \A m \in Mirrors : \A r \in box[m] :
    r.kind = "opened" => (Fed \intersect have[m]) \ lost \subseteq r.ops

(* A client that bootstrapped in this life of the host has no late reply    *)
(* under way, and its page holds the changes next to its cursor.            *)
PagesExact ==
  \A m \in Mirrors : \A r \in box[m] : born[m] = epoch =>
    /\ r.epoch = epoch
    /\ r.kind = "changes" => /\ cursor[m] <= r.cursor /\ r.cursor <= Len(feed)
                             /\ r.ops = Sent(cursor[m], r.cursor)

RInv == Known /\ OpensGrow /\ PagesExact

LEMMA RInit == Init => RInv
BY DEF Init, RInv, Known, OpensGrow, PagesExact

(* A reply that keeps to RInv, sent while the rest stays as it is. *)
LEMMA SentRInv ==
  ASSUME Inv, RInv, NEW m \in Mirrors, NEW kind \in {"opened", "changes"}, NEW ops, NEW c,
         box' = [box EXCEPT ![m] = {[kind |-> kind, ops |-> ops, cursor |-> c,
                                     epoch |-> epoch]}],
         UNCHANGED <<drive, lost, feed, have, cursor, born, epoch>>,
         bytes' \subseteq drive \union lost, \A s \in snapshot' : s.ops \subseteq drive \union lost,
         ops \subseteq drive \union lost,
         kind = "opened" => (Fed \intersect have[m]) \ lost \subseteq ops,
         kind = "changes" /\ born[m] = epoch =>
           cursor[m] <= c /\ c <= Len(feed) /\ ops = Sent(cursor[m], c)
  PROVE  RInv'
<1> DEFINE sent == [kind |-> kind, ops |-> ops, cursor |-> c, epoch |-> epoch]
<1>1. box'[m] = {sent} /\ \A n \in Mirrors : n # m => box'[n] = box[n]
  BY DEF Inv, TypeOK
<1>2. sent.kind = kind /\ sent.ops = ops /\ sent.cursor = c /\ sent.epoch = epoch
  OBVIOUS
<1> HIDE DEF sent
<1>3. Known'
  BY <1>1, <1>2 DEF RInv, Known
<1>4. OpensGrow'
  BY <1>1, <1>2 DEF RInv, OpensGrow
<1>5. PagesExact'
  <2>1. \A x, y : Sent(x, y)' = Sent(x, y)
    BY DEF Sent
  <2> QED BY <1>1, <1>2, <2>1 DEF RInv, PagesExact
<1> QED BY <1>3, <1>4, <1>5 DEF RInv

(* A change of the drive leaves the operations of a page as they are. *)
LEMMA MutateRInv ==
  ASSUME Inv, RInv, NEW op \in Fed, Mutate(op)
  PROVE  RInv'
<1>1. /\ drive' = drive \union {op} /\ op \notin lost
      /\ UNCHANGED <<lost, snapshot, bytes, box, have, cursor, born, epoch>>
  BY DEF Mutate, openVars, clientVars
<1>2. Len(feed) \in Nat
  BY FeedOps DEF Inv
<1>3. /\ Len(feed') = Len(feed) + 1
      /\ \A i \in 1..Len(feed) : feed'[i] = feed[i]
      /\ feed'[Len(feed) + 1].op = op
  <2>1. feed' = Append(feed, [seq |-> Cursor + 1, op |-> op])
    BY DEF Mutate, Recorded
  <2> QED BY <1>2, <2>1 DEF Inv, TypeOK
<1>4. \A i \in 1..Len(feed') : feed'[i].op \in drive' \ lost'
  <2>1. \A i \in 1..Len(feed') : i \in 1..Len(feed) \/ i = Len(feed) + 1
    BY <1>2, <1>3
  <2> QED BY <1>1, <1>3, <2>1 DEF RInv, Known
<1>5. Known'
  BY <1>1, <1>4 DEF RInv, Known
<1>6. OpensGrow'
  BY <1>1 DEF RInv, OpensGrow
<1>7. ASSUME NEW m \in Mirrors, NEW r \in box[m], born[m] = epoch, r.kind = "changes"
      PROVE  /\ cursor[m] <= r.cursor /\ r.cursor <= Len(feed')
             /\ r.ops = {feed'[i].op : i \in (cursor[m] + 1)..r.cursor}
  <2>1. cursor[m] \in Nat /\ r.cursor \in Nat
    BY <1>7 DEF Inv, TypeOK, Replies
  <2>2. /\ cursor[m] <= r.cursor /\ r.cursor <= Len(feed)
        /\ r.ops = {feed[i].op : i \in (cursor[m] + 1)..r.cursor}
    BY <1>7 DEF RInv, PagesExact, Sent
  <2>3. \A i \in (cursor[m] + 1)..r.cursor : i \in 1..Len(feed)
    BY <1>2, <2>1, <2>2
  <2>4. r.cursor <= Len(feed')
    BY <1>2, <1>3, <2>1, <2>2
  <2> QED BY <1>3, <2>2, <2>3, <2>4
<1>8. PagesExact'
  BY <1>1, <1>7 DEF RInv, PagesExact, Sent
<1> QED BY <1>5, <1>6, <1>8 DEF RInv

LEMMA RStep == Inv /\ RInv /\ [Next]_vars => RInv'
<1> SUFFICES ASSUME Inv, RInv, [Next]_vars PROVE RInv'
  OBVIOUS
<1> USE DEF openVars, clientVars
<1>0. TypeOK /\ Numbered
  BY DEF Inv
<1>1. ASSUME NEW op \in Fed, Mutate(op) PROVE RInv'
  BY <1>1, MutateRInv
<1>2. ASSUME NEW op \in Ops, (op \in Meta /\ Annotate(op)) \/ Merge(op) PROVE RInv'
  <2>1. /\ drive' = drive \union {op}
        /\ UNCHANGED <<lost, feed, snapshot, bytes, box, have, cursor, born, epoch>>
    BY <1>2 DEF Annotate, Merge
  <2> QED BY <2>1 DEF RInv, Known, OpensGrow, PagesExact, Sent
<1>3. ASSUME NEW m \in Mirrors, OpenCached(m) PROVE RInv'
  <2>1. PICK s \in snapshot :
          /\ s.cursor = Cursor
          /\ box' = [box EXCEPT ![m] = {[kind |-> "opened", ops |-> s.ops,
                                         cursor |-> s.cursor, epoch |-> epoch]}]
    BY <1>3 DEF OpenCached, Send
  <2>2. UNCHANGED <<drive, lost, feed, snapshot, bytes, have, cursor, born, epoch>>
    BY <1>3 DEF OpenCached
  <2>3. s.cursor = Len(feed) /\ Len(feed) \in Nat
    BY <1>0, <2>1, CursorIsLen, FeedOps
  <2>4. Ahead(s.cursor) = {}
    <3>1. (Len(feed) + 1)..Len(feed) = {}
      BY <2>3
    <3>2. Ahead(s.cursor) = {feed[i].op : i \in (Len(feed) + 1)..Len(feed)}
      BY <1>0, <2>3, AheadIsTail
    <3> QED BY <3>1, <3>2
  <2>5. Promised \subseteq s.ops
    BY <2>1, <2>4 DEF Inv, SnapshotCovers, Covers
  <2>6. (Fed \intersect have[m]) \ lost \subseteq s.ops
    BY <2>5 DEF RInv, Known, Promised
  <2>7. s.ops \subseteq drive \union lost /\ bytes \subseteq drive \union lost /\ \A t \in snapshot : t.ops \subseteq drive \union lost
    BY <2>1 DEF RInv, Known
  <2> QED BY <2>1, <2>2, <2>6, <2>7, SentRInv
<1>4. ASSUME NEW m \in Mirrors, OpenSerialize(m) \/ Lose(m) PROVE RInv'
  <2>1. UNCHANGED <<drive, lost, feed, snapshot, have, cursor, born, epoch>> /\ bytes' \subseteq drive \union lost
    BY <1>4 DEF OpenSerialize, Lose, RInv, Known
  <2>2. \A n \in Mirrors : box'[n] \subseteq box[n]
    BY <1>0, <1>4 DEF OpenSerialize, Lose, TypeOK
  <2> QED BY <2>1, <2>2 DEF RInv, Known, OpensGrow, PagesExact, Sent
<1>5. CASE OpenPublished
  <2>1. /\ box' = [box EXCEPT ![opener] = {[kind |-> "opened", ops |-> bytes,
                                            cursor |-> Cursor, epoch |-> epoch]}]
        /\ snapshot' = {[ops |-> bytes, cursor |-> Cursor]} /\ bytes' = {}
        /\ UNCHANGED <<drive, lost, feed, have, cursor, born, epoch>>
    BY <1>5 DEF OpenPublished, Send
  <2>2. opener \in Mirrors /\ Promised \subseteq bytes
    BY <1>5 DEF OpenPublished, Inv, OpenUnderWay
  <2>3. bytes \subseteq drive \union lost /\ (Fed \intersect have[opener]) \ lost \subseteq bytes
    BY <2>2 DEF RInv, Known, Promised
  <2>4. bytes' \subseteq drive \union lost /\ \A s \in snapshot' : s.ops \subseteq drive \union lost
    BY <2>1, <2>3
  <2> QED BY <2>1, <2>2, <2>3, <2>4, SentRInv
<1>6. CASE OpenFailed
  BY <1>6 DEF OpenFailed, RInv, Known, OpensGrow, PagesExact, Sent
<1>7. ASSUME NEW m \in Mirrors, NEW limit \in Limits, Poll(m, limit) PROVE RInv'
  <2> DEFINE pg == Page(cursor[m], limit)
             nc == NewCursor(cursor[m], limit)
  <2>1. /\ box' = [box EXCEPT ![m] = {[kind |-> "changes", ops |-> pg,
                                       cursor |-> nc, epoch |-> epoch]}]
        /\ UNCHANGED <<drive, lost, feed, snapshot, bytes, have, cursor, born, epoch>>
    BY <1>7 DEF Poll, Send
  <2>2. cursor[m] \in Nat /\ limit \in Nat
    BY <1>0, MirrorSyncAssumption DEF TypeOK
  <2>3. pg \subseteq drive \union lost
    <3>1. pg \subseteq {feed[i].op : i \in 1..Len(feed)}
      BY <1>0, <2>2, PageTyped
    <3>2. \A i \in 1..Len(feed) : feed[i].op \in drive \union lost
      BY DEF RInv, Known
    <3> HIDE DEF pg
    <3> QED BY <3>1, <3>2
  <2>4. born[m] = epoch => cursor[m] <= nc /\ nc <= Len(feed) /\ pg = Sent(cursor[m], nc)
    <3>1. SUFFICES ASSUME born[m] = epoch
                   PROVE  cursor[m] <= nc /\ nc <= Len(feed) /\ pg = Sent(cursor[m], nc)
      OBVIOUS
    <3>2. cursor[m] <= Len(feed)
      BY <3>1 DEF Inv, ReplicasCover, Covers
    <3>3. nc \in cursor[m]..Len(feed)
      BY <1>0, <2>2, <3>2, PageCovers
    <3>4. pg = Sent(cursor[m], nc)
      BY <1>0, <2>2, <3>2, PageIsSent
    <3> QED BY <3>3, <3>4
  <2> HIDE DEF pg, nc
  <2>5. bytes \subseteq drive \union lost /\ \A s \in snapshot : s.ops \subseteq drive \union lost
    BY DEF RInv, Known
  <2> QED BY <2>1, <2>3, <2>4, <2>5, SentRInv
<1>8. ASSUME NEW m \in Mirrors, Receive(m) PROVE RInv'
  <2>1. PICK r \in box[m] :
          /\ have' = [have EXCEPT ![m] = IF r.kind = "opened" THEN r.ops ELSE @ \union r.ops]
          /\ cursor' = [cursor EXCEPT ![m] = r.cursor]
          /\ born' = [born EXCEPT ![m] = IF r.kind = "opened" THEN r.epoch ELSE @]
          /\ box' = [box EXCEPT ![m] = {}]
          /\ UNCHANGED <<drive, lost, feed, snapshot, openVars, epoch>>
    BY <1>8 DEF Receive
  <2>2. /\ box'[m] = {} /\ have'[m] \subseteq drive \union lost
        /\ \A n \in Mirrors : n # m => /\ box'[n] = box[n] /\ have'[n] = have[n]
                                       /\ cursor'[n] = cursor[n] /\ born'[n] = born[n]
    BY <1>0, <2>1 DEF TypeOK, RInv, Known
  <2>3. Known'
    BY <2>1, <2>2 DEF RInv, Known
  <2>4. OpensGrow' /\ PagesExact'
    BY <2>1, <2>2 DEF RInv, OpensGrow, PagesExact, Sent
  <2> QED BY <2>3, <2>4 DEF RInv
<1>9. CASE Restart
  <2>1. /\ feed' = <<>> /\ snapshot' = {} /\ bytes' = {} /\ epoch' = epoch + 1
        /\ drive' \union lost' = drive \union lost /\ lost \subseteq lost'
        /\ UNCHANGED <<box, have, cursor, born>>
    BY <1>9 DEF Restart
  <2>2. \A m \in Mirrors : born'[m] # epoch'
    BY <1>0, <2>1 DEF Inv, Epochs, TypeOK
  <2>3. 1..Len(feed') = {}
    BY <2>1
  <2> QED BY <2>1, <2>2, <2>3 DEF RInv, Known, OpensGrow, PagesExact
<1>10. CASE UNCHANGED vars
  BY <1>10 DEF vars, RInv, Known, OpensGrow, PagesExact, Sent
<1>11. QED
  BY <1>1, <1>2, <1>3, <1>4, <1>5, <1>6, <1>7, <1>8, <1>9, <1>10 DEF Next, Ops

-------------------------------------------------------------------------------
(* Every step is a step of Replication or none.                              *)

LEMMA ReplicationInit == Init => Replication!Init
BY DEF Init, Replication!Init, Due, Promised

LEMMA Unnoticed ==
  ASSUME UNCHANGED <<lost, feed, have, cursor, born, epoch>>, Promised' = Promised
  PROVE  UNCHANGED Replication!vars
BY DEF Replication!vars, Due

LEMMA MutateRecords ==
  ASSUME Inv, NEW op \in Fed, Mutate(op)
  PROVE  Replication!Record(op)
<1>1. /\ op \notin drive \union lost /\ drive' = drive \union {op} /\ feed' = Recorded(op)
      /\ UNCHANGED <<lost, have, cursor, born, epoch>>
  BY DEF Mutate, clientVars
<1>2. ASSUME NEW m \in Mirrors
      PROVE  Due(m)' = IF born[m] = epoch THEN Append(Due(m), op) ELSE << >>
  <2>1. CASE born[m] = epoch
    <3>1. cursor[m] \in Nat /\ cursor[m] <= Len(feed)
      BY <2>1 DEF Inv, TypeOK, ReplicasCover, Covers
    <3>2. \A c \in Nat : c <= Len(feed) => Rest(c)' = Append(Rest(c), op)
      BY <1>1, RestRecorded DEF Inv
    <3>3. [i \in 1..(Len(feed') - cursor[m]) |-> feed'[cursor[m] + i].op] = Append(Rest(cursor[m]), op)
      BY <3>1, <3>2 DEF Rest
    <3> QED BY <1>1, <2>1, <3>3 DEF Due, Rest
  <2>2. CASE born[m] # epoch
    BY <1>1, <2>2 DEF Due
  <2> QED BY <2>1, <2>2
<1>3. [m \in Mirrors |-> Due(m)]' =
        [m \in Mirrors |-> IF m \in {n \in Mirrors : born[n] = epoch}
                           THEN Append([n \in Mirrors |-> Due(n)][m], op) ELSE << >>]
  BY <1>2
<1>4. /\ op \notin Promised \union (Fed \intersect lost)
      /\ Promised' = Promised \union {op} /\ (Fed \intersect lost)' = Fed \intersect lost
      /\ [m \in Mirrors |-> Fed \intersect have[m]]' = [m \in Mirrors |-> Fed \intersect have[m]]
      /\ {m \in Mirrors : born[m] = epoch}' = {m \in Mirrors : born[m] = epoch}
  BY <1>1 DEF Promised
<1> QED BY <1>3, <1>4 DEF Replication!Record

(* A reply that comes in is a page of what is due, a bootstrap, or late. *)
LEMMA ReceiveFeeds ==
  ASSUME Inv, RInv, NEW m \in Mirrors, Receive(m)
  PROVE  Replication!Feed(m) \/ Replication!Bootstrap(m) \/ Replication!Late(m)
<1> DEFINE gone == Fed \intersect lost
           held == [n \in Mirrors |-> Fed \intersect have[n]]
           current == {n \in Mirrors : born[n] = epoch}
           due == [n \in Mirrors |-> Due(n)]
<1>1. PICK r \in box[m] :
        /\ have' = [have EXCEPT ![m] = IF r.kind = "opened" THEN r.ops ELSE @ \union r.ops]
        /\ cursor' = [cursor EXCEPT ![m] = r.cursor]
        /\ born' = [born EXCEPT ![m] = IF r.kind = "opened" THEN r.epoch ELSE @]
        /\ UNCHANGED <<drive, lost, feed, epoch>>
  BY DEF Receive
<1>2. /\ have'[m] = IF r.kind = "opened" THEN r.ops ELSE have[m] \union r.ops
      /\ cursor'[m] = r.cursor
      /\ born'[m] = IF r.kind = "opened" THEN r.epoch ELSE born[m]
      /\ \A n \in Mirrors \ {m} : /\ have'[n] = have[n] /\ cursor'[n] = cursor[n]
                                  /\ born'[n] = born[n]
  BY <1>1 DEF Inv, TypeOK
<1>3. r.kind \in {"opened", "changes"} /\ r.cursor \in Nat /\ cursor[m] \in Nat
  BY <1>1 DEF Inv, TypeOK, Replies
<1>4. /\ Promised' = Promised /\ gone' = gone
      /\ \A n \in Mirrors \ {m} : held'[n] = held[n] /\ due'[n] = due[n]
  BY <1>1, <1>2 DEF Due, Promised
<1>5. held'[m] = Fed \intersect have'[m] /\ due'[m] = Due(m)'
  OBVIOUS
<1>6. Due(m)' = IF born'[m] = epoch THEN Rest(r.cursor) ELSE << >>
  <2> DEFINE c == cursor'[m]
  <2>1. Due(m)' = IF born'[m] = epoch THEN Rest(c) ELSE << >>
    BY <1>1 DEF Due, Rest
  <2>2. c = r.cursor
    BY <1>2
  <2> HIDE DEF c
  <2> QED BY <2>1, <2>2
<1>7. held[m] \subseteq held'[m] \union gone /\ held'[m] \subseteq Promised \union gone
  <2>1. have[m] \subseteq drive \union lost /\ r.ops \subseteq drive \union lost
    BY <1>1 DEF RInv, Known
  <2>2. r.kind = "opened" => (Fed \intersect have[m]) \ lost \subseteq r.ops
    BY <1>1 DEF RInv, OpensGrow
  <2> QED BY <1>2, <2>1, <2>2 DEF Promised
<1>8. Replication!Grow(m)
  BY <1>4, <1>7 DEF Replication!Grow
<1>9. CASE r.kind = "changes" /\ born[m] = epoch
  <2> DEFINE c == cursor[m]
             e == r.cursor
  <2>1. c <= e /\ e <= Len(feed) /\ r.ops = Sent(c, e)
    BY <1>1, <1>9 DEF RInv, PagesExact
  <2>2. /\ e - c \in 0..Len(Rest(c))
        /\ Replication!Members(SubSeq(Rest(c), 1, e - c)) = Sent(c, e)
        /\ SubSeq(Rest(c), e - c + 1, Len(Rest(c))) = Rest(e)
    BY <1>3, <2>1, RestSent DEF Inv
  <2>3. due[m] = Rest(c) /\ m \in current /\ due'[m] = Rest(e) /\ current' = current
    BY <1>1, <1>2, <1>5, <1>6, <1>9 DEF Due, Rest
  <2>4. held'[m] = held[m] \union Sent(c, e)
    <3>1. r.ops \subseteq Fed
      <4>1. \A i \in (c + 1)..e : i \in 1..Len(feed)
        BY <1>3, <2>1, FeedOps DEF Inv
      <4> QED BY <2>1, <4>1, FeedOps DEF Inv, Sent
    <3> QED BY <1>2, <1>9, <2>1, <3>1
  <2> HIDE DEF c, e
  <2>5. held' = [held EXCEPT ![m] = @ \union Replication!Members(SubSeq(due[m], 1, e - c))]
    <3>1. held' = [n \in Mirrors |-> held'[n]]
      OBVIOUS
    <3>2. held'[m] = held[m] \union Replication!Members(SubSeq(due[m], 1, e - c))
      BY <2>2, <2>3, <2>4
    <3> HIDE DEF held, due
    <3> QED BY <1>4, <3>1, <3>2 DEF held
  <2>6. due' = [due EXCEPT ![m] = SubSeq(@, e - c + 1, Len(@))]
    <3>1. due' = [n \in Mirrors |-> due'[n]]
      OBVIOUS
    <3>2. due'[m] = SubSeq(due[m], e - c + 1, Len(due[m]))
      BY <2>2, <2>3
    <3> HIDE DEF held, due
    <3> QED BY <1>4, <3>1, <3>2 DEF due
  <2>7. e - c \in 0..Len(due[m])
    BY <2>2, <2>3
  <2>8. Replication!Feed(m)
    BY <1>4, <2>3, <2>5, <2>6, <2>7 DEF Replication!Feed
  <2> QED BY <2>8
<1>10. CASE r.kind = "opened" /\ r.epoch = epoch
  <2>1. current' = current \union {m}
    BY <1>1, <1>2, <1>10
  <2>2. Covers(r.ops, r.cursor)
    BY <1>1, <1>10 DEF Inv, RepliesCover
  <2>3. Replication!Members(due'[m]) = Ahead(r.cursor)
    BY <1>2, <1>3, <1>5, <1>6, <1>10, <2>2, RestMembers DEF Inv, Covers
  <2>4. Ahead(r.cursor) \subseteq Promised
    BY FeedOps DEF Inv, RInv, Known, Ahead, Promised
  <2>5. /\ Promised \ held'[m] \subseteq Replication!Members(due'[m])
        /\ Replication!Members(due'[m]) \subseteq Promised
    BY <1>2, <1>5, <1>10, <2>2, <2>3, <2>4 DEF Covers, Promised
  <2>6. Replication!Bootstrap(m)
    BY <1>8, <2>1, <2>5 DEF Replication!Bootstrap
  <2> QED BY <2>6
<1>11. CASE born[m] # epoch /\ ~ (r.kind = "opened" /\ r.epoch = epoch)
  <2>1. born'[m] # epoch
    BY <1>2, <1>11
  <2>2. m \notin current /\ current' = current
    BY <1>1, <1>2, <1>11, <2>1
  <2>3. due'[m] = due[m]
    BY <1>5, <1>6, <1>11, <2>1 DEF Due
  <2>4. due' = due
    <3>1. due' = [n \in Mirrors |-> due'[n]] /\ due = [n \in Mirrors |-> due[n]]
      OBVIOUS
    <3> HIDE DEF due
    <3> QED BY <1>4, <2>3, <3>1
  <2>5. Replication!Late(m)
    BY <1>8, <2>2, <2>4 DEF Replication!Late
  <2> QED BY <2>5
<1>12. born[m] = epoch => r.epoch = epoch
  BY <1>1 DEF RInv, PagesExact
<1> QED BY <1>3, <1>9, <1>10, <1>11, <1>12

LEMMA RestartCutsOff == ASSUME Inv, Restart PROVE Replication!Restart
<1>1. \A m \in Mirrors : born'[m] # epoch'
  BY DEF Inv, Epochs, TypeOK, Restart, clientVars
<1>2. /\ drive' \in SUBSET drive /\ lost' = lost \union (drive \ drive')
      /\ UNCHANGED have
  BY DEF Restart, clientVars
<1> DEFINE L == Promised \ drive'
<1>3. /\ L \in SUBSET Promised /\ Promised' = Promised \ L
      /\ (Fed \intersect lost)' = (Fed \intersect lost) \union L
  BY <1>2 DEF Promised
<1> HIDE DEF L
<1> QED BY <1>1, <1>2, <1>3 DEF Replication!Restart, Due

LEMMA ReplicationStep ==
  Inv /\ RInv /\ [Next]_vars => [Replication!Next]_(Replication!vars)
<1> SUFFICES ASSUME Inv, RInv, [Next]_vars PROVE [Replication!Next]_(Replication!vars)
  OBVIOUS
<1>1. ASSUME NEW op \in Fed, Mutate(op) PROVE Replication!Next
  BY <1>1, MutateRecords DEF Replication!Next
<1>2. ASSUME NEW op \in Ops, (op \in Meta /\ Annotate(op)) \/ Merge(op)
      PROVE  UNCHANGED Replication!vars
  <2>1. (op \in Fed => op \in lost) /\ drive' = drive \union {op} /\ lost' = lost
    BY <1>2, MirrorSyncAssumption DEF Annotate, Merge
  <2>2. Promised' = Promised
    BY <2>1 DEF Promised
  <2> QED BY <1>2, <2>2, Unnoticed DEF Annotate, Merge, clientVars
<1>3. ASSUME NEW m \in Mirrors, Receive(m) PROVE Replication!Next
  BY <1>3, ReceiveFeeds DEF Replication!Next
<1>4. CASE Restart
  BY <1>4, RestartCutsOff DEF Replication!Next
<1>5. ASSUME UNCHANGED <<drive, lost, feed, have, cursor, born, epoch>>
      PROVE  UNCHANGED Replication!vars
  BY <1>5, Unnoticed DEF Promised
<1>6. ASSUME NEW m \in Mirrors, OpenCached(m) \/ OpenSerialize(m) \/ Lose(m)
      PROVE  UNCHANGED Replication!vars
  BY <1>5, <1>6 DEF OpenCached, OpenSerialize, Lose, clientVars
<1>7. ASSUME OpenPublished \/ OpenFailed \/ UNCHANGED vars PROVE UNCHANGED Replication!vars
  BY <1>5, <1>7 DEF OpenPublished, OpenFailed, vars, clientVars
<1>8. ASSUME NEW m \in Mirrors, NEW limit \in Limits, Poll(m, limit)
      PROVE  UNCHANGED Replication!vars
  BY <1>5, <1>8 DEF Poll, clientVars
<1>9. QED
  BY <1>1, <1>2, <1>3, <1>4, <1>6, <1>7, <1>8 DEF Next, Ops

(* Feed, Open and Poll with their cursors, pages, cached snapshots and lost *)
(* replies feed every replica in order and without a gap, for any           *)
(* operations, clients, page limits and number of restarts, whatever the    *)
(* restarts lose: what is lost is out of the feed's care, and nothing else. *)
THEOREM FeedReplicates == Spec => ImplementsReplication
<1>1. Spec => []RInv
  BY RInit, RStep, InvHolds, PTL DEF Spec
<1>2. QED
  BY <1>1, InvHolds, ReplicationInit, ReplicationStep, PTL
  DEF Spec, Replication!Spec, ImplementsReplication
===============================================================================
