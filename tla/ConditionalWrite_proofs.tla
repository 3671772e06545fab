----------------------- MODULE ConditionalWrite_proofs -----------------------
(***************************************************************************)
(* Proofs about ConditionalWrite, for any clients, names and contents.     *)
(***************************************************************************)
EXTENDS ConditionalWrite, TLAPS

(* Equal etags of two files are etags of one content. *)
LEMMA EtagTellsContent ==
  ASSUME NEW e \in Entry, NEW f \in Entry, f.cid # None, Etag(e) = Etag(f)
  PROVE  e.cid = f.cid
<1>1. Etag(f) = [cid |-> f.cid, mtime |-> f.mtime]
  BY DEF Etag
<1>2. CASE e.cid = None
  <2>1. Etag(e) = [dir |-> e.node]
    BY <1>2 DEF Etag
  <2>2. DOMAIN Etag(e) = {"dir"} /\ DOMAIN Etag(f) = {"cid", "mtime"}
    BY <1>1, <2>1
  <2>3. QED
    BY <2>2
<1>3. CASE e.cid # None
  BY <1>1, <1>3 DEF Etag
<1>4. QED
  BY <1>2, <1>3

(* An etag that no merge crossed is that of an entry with the content that  *)
(* was read or written.                                                     *)
ReadOf(base) ==
  base # None /\ ~base.crossed => \E e \in Entry : base.etag = Etag(e) /\ base.cid = e.cid

HeldRead == \A c \in Clients : ReadOf(held[c])

(* As long as the name has not changed, it is the etag the host would       *)
(* compute.                                                                 *)
HeldFresh ==
  \A c \in Clients : (held[c] # None /\ ~stale[c]) =>
    held[c].name \in Bound /\ held[c].etag = Etag(dir[held[c].name])

LeftRead == left # None => ReadOf(left.base)

(* While no merge touches the name, what the check found still holds when   *)
(* add_file takes effect, and what it put there is still there when the     *)
(* reply is made.                                                           *)
Uncrossed(w) ==
  /\ w.node = 0 => ~Refuses(w.req.name, w.req.base)
  /\ w.node # 0 => w.req.name \in Bound /\ dir[w.req.name] = Put(w)

WritingKept ==
  writing # None => ReadOf(writing.req.base) /\ (~writing.crossed => Uncrossed(writing))

Inv ==
  /\ TypeOK /\ HeldRead /\ HeldFresh /\ LeftRead /\ WritingKept
  /\ NoLostUpdate /\ RefusedOnlyIfChanged

-------------------------------------------------------------------------------
LEMMA EtagType == ASSUME NEW e \in Entry PROVE Etag(e) \in Etags
  BY DEF Entry, Etag, Etags

LEMMA HoldType ==
  ASSUME NEW e \in Entry, NEW n \in Names
  PROVE  /\ Hold(n, e) \in Helds /\ Hold(n, e).name = n
         /\ Hold(n, e).etag = Etag(e) /\ Hold(n, e).cid = e.cid
  BY EtagType DEF Hold, Helds, Entry

LEMMA MadeType ==
  ASSUME TypeOK, edits < MaxEdits, NEW n \in Names, NEW cid \in Cids \union {None},
         NEW mtime \in 1..MaxClock
  PROVE  /\ Made(n, cid, mtime) \in Entry
         /\ Made(n, cid, mtime).cid = cid /\ Made(n, cid, mtime).mtime = mtime
  BY ConditionalWriteAssumption DEF TypeOK, Made, Entry, Bound

LEMMA OutcomeType ==
  ASSUME TypeOK, NEW r \in Requests, NEW crossed \in BOOLEAN,
         NEW result \in {"written", "conflict"}
  PROVE  Outcome(r, crossed, result) \in Outcomes
<1>1. CidAt(r.name) \in Cids \union {None}
  BY DEF CidAt, TypeOK, Entry
<1>2. (IF r.base = None THEN None ELSE r.base.cid) \in Cids \union {None}
  BY DEF Requests, Helds
<1>3. stale[r.client] \in BOOLEAN
  BY DEF TypeOK, Requests
<1>4. (crossed \/ (r.base # None /\ r.base.crossed)) \in BOOLEAN /\ (r.base # None) \in BOOLEAN
  OBVIOUS
<1>5. QED
  BY <1>1, <1>2, <1>3, <1>4 DEF Outcome, Outcomes

(* A change of the drive at the names in ns.                                *)
LEMMA ChangedStep ==
  ASSUME Inv, NEW d, NEW ns, Changed(d, ns), held' = held,
         DOMAIN d \subseteq Names, \A m \in DOMAIN d : d[m] \in Entry,
         \A m \in Names \ ns : (m \in DOMAIN d <=> m \in Bound)
                               /\ (m \in Bound => d[m] = dir[m])
  PROVE  /\ clock' = clock /\ clock' \in 1..MaxClock /\ edits' \in 0..MaxEdits
         /\ Bound' \subseteq Names /\ \A m \in Bound' : dir'[m] \in Entry
         /\ stale' \in [Clients -> BOOLEAN]
         /\ HeldRead' /\ HeldFresh'
<1>1. /\ edits < MaxEdits /\ edits' = edits + 1 /\ dir' = d /\ clock' = clock
      /\ stale' = [x \in Clients |-> stale[x] \/ (held[x] # None /\ held[x].name \in ns)]
  BY DEF Changed
<1>2. /\ clock' \in 1..MaxClock /\ edits' \in 0..MaxEdits /\ Bound' \subseteq Names
      /\ \A m \in Bound' : dir'[m] \in Entry
  BY <1>1, ConditionalWriteAssumption DEF Inv, TypeOK, Bound
<1>3. stale' \in [Clients -> BOOLEAN]
  BY <1>1 DEF Inv, TypeOK
<1>4. HeldRead'
  BY DEF Inv, HeldRead, ReadOf
<1>5. ASSUME NEW x \in Clients, held'[x] # None, ~stale'[x]
      PROVE  held'[x].name \in DOMAIN d /\ held'[x].etag = Etag(d[held'[x].name])
  <2>1. ~stale[x] /\ held[x] # None /\ held[x].name \notin ns
    BY <1>1, <1>5
  <2>2. held[x].name \in Bound /\ held[x].etag = Etag(dir[held[x].name])
    BY <2>1 DEF Inv, HeldFresh
  <2>3. held[x].name \in Names
    BY <2>2 DEF Inv, TypeOK
  <2>4. QED
    BY <2>1, <2>2, <2>3
<1>6. HeldFresh'
  BY <1>1, <1>5 DEF HeldFresh, Bound
<1>7. QED
  BY <1>1, <1>2, <1>3, <1>4, <1>6

-------------------------------------------------------------------------------
(* The steps of a write. *)
LEMMA BasesRead ==
  ASSUME Inv, NEW c \in Clients, NEW n \in Names, NEW cid \in Cids, NEW base \in Bases(c, n)
  PROVE  Asks(c, n, cid, base) \in Requests /\ ReadOf(base)
  BY DEF Bases, Asks, Requests, Inv, TypeOK, HeldRead, ReadOf

LEMMA CheckStep ==
  ASSUME Inv, NEW r \in Requests, ReadOf(r.base), NEW waits \in BOOLEAN, Check(r, waits),
         left' \in {left, r}
  PROVE  Inv'
<1> DEFINE w == [req |-> r, mtime |-> clock, waits |-> waits, node |-> 0, crossed |-> FALSE]
<1>1. /\ ~Refuses(r.name, r.base) /\ writing' = w /\ last' = None
      /\ UNCHANGED <<clock, dir, edits, held, stale>>
  BY DEF Check
<1>2. w \in Writings
  BY ConditionalWriteAssumption DEF Writings, Inv, TypeOK
<1>3. TypeOK'
  BY <1>1, <1>2 DEF Inv, TypeOK, Bound
<1>4. LeftRead'
  BY DEF Inv, LeftRead, ReadOf
<1>5. WritingKept'
  BY <1>1 DEF WritingKept, Uncrossed, ReadOf, Refuses, Bound
<1>6. HeldRead' /\ HeldFresh' /\ NoLostUpdate' /\ RefusedOnlyIfChanged'
  BY <1>1 DEF Inv, HeldRead, HeldFresh, ReadOf, Bound, NoLostUpdate, RefusedOnlyIfChanged
<1>7. QED
  BY <1>3, <1>4, <1>5, <1>6 DEF Inv

LEMMA RefuseStep ==
  ASSUME Inv, NEW c \in Clients, NEW n \in Names, NEW cid \in Cids, NEW base \in Bases(c, n),
         Refuse(Asks(c, n, cid, base))
  PROVE  Inv'
<1> DEFINE r == Asks(c, n, cid, base)
<1>1. r.client = c /\ r.name = n /\ r.base = base /\ r \in Requests
  BY BasesRead DEF Asks
<1> HIDE DEF r
<1>2. /\ n \in Bound /\ base # None /\ base.etag # Etag(dir[n])
      /\ last' = Outcome(r, FALSE, "conflict")
      /\ UNCHANGED <<clock, dir, edits, writing, held, stale, left>>
  BY <1>1 DEF Refuse, Refuses, r
<1>3. base = held[c] /\ base.name = n
  BY <1>2 DEF Bases
<1>4. stale[c]
  BY <1>2, <1>3 DEF Inv, HeldFresh
<1>5. last' \in Outcomes
  BY <1>1, <1>2, OutcomeType DEF Inv
<1>6. last'.result = "conflict" /\ last'.stale
  BY <1>1, <1>2, <1>4 DEF Outcome
<1>7. NoLostUpdate' /\ RefusedOnlyIfChanged'
  BY <1>6 DEF NoLostUpdate, RefusedOnlyIfChanged
<1>8. TypeOK' /\ HeldRead' /\ HeldFresh' /\ LeftRead' /\ WritingKept'
  BY <1>2, <1>5
  DEF Inv, TypeOK, HeldRead, HeldFresh, LeftRead, WritingKept, Uncrossed, ReadOf, Refuses, Bound
<1>9. QED
  BY <1>7, <1>8 DEF Inv

LEMMA ApplyStep ==
  ASSUME Inv, Apply
  PROVE  Inv'
<1> DEFINE r == writing.req
           n == writing.req.name
           e == Made(n, r.cid, writing.mtime)
           d == With(n, e)
<1>1. /\ writing # None /\ writing.node = 0
      /\ last' = Outcome(r, writing.crossed, "written")
      /\ writing' = [writing EXCEPT !.node = e.node, !.crossed = FALSE]
      /\ Changed(d, {n}) /\ edits < MaxEdits /\ dir' = d
      /\ UNCHANGED <<held, left>>
  BY DEF Apply, Changed
<1>2. /\ writing \in Writings /\ r \in Requests /\ n \in Names /\ r.cid \in Cids
      /\ writing.mtime \in 1..MaxClock /\ writing.crossed \in BOOLEAN
  BY <1>1 DEF Inv, TypeOK, Writings, Requests
<1>3. e \in Entry /\ e.cid = r.cid /\ e.mtime = writing.mtime
  BY <1>1, <1>2, MadeType DEF Inv
<1>4. /\ DOMAIN d = Bound \union {n} /\ d[n] = e
      /\ \A m \in Bound : m # n => d[m] = dir[m]
  BY DEF With
<1>5. /\ DOMAIN d \subseteq Names /\ \A m \in DOMAIN d : d[m] \in Entry
      /\ \A m \in Names \ {n} : (m \in DOMAIN d <=> m \in Bound) /\ (m \in Bound => d[m] = dir[m])
  BY <1>2, <1>3, <1>4 DEF Inv, TypeOK
<1>6. /\ clock' = clock /\ clock' \in 1..MaxClock /\ edits' \in 0..MaxEdits
      /\ Bound' \subseteq Names /\ \A m \in Bound' : dir'[m] \in Entry
      /\ stale' \in [Clients -> BOOLEAN]
      /\ HeldRead' /\ HeldFresh'
  <2> HIDE DEF d, n
  <2>1. QED
    BY <1>1, <1>5, ChangedStep
<1>7. last' \in Outcomes
  BY <1>1, <1>2, OutcomeType DEF Inv
<1>8. /\ writing' \in Writings
      /\ writing'.req = r /\ writing'.mtime = writing.mtime /\ writing'.node = e.node
      /\ writing'.crossed = FALSE
  <2>1. e.node \in 0..MaxEdits
    BY <1>3 DEF Entry
  <2> HIDE DEF e
  <2>2. QED
    BY <1>1, <1>2, <2>1 DEF Writings
<1>9. WritingKept'
  <2>1. e.node # 0 /\ e = [node |-> e.node, cid |-> r.cid, mtime |-> writing.mtime]
    BY <1>3 DEF Entry
  <2>2. Uncrossed(writing)'
    BY <1>1, <1>4, <1>8, <2>1 DEF Uncrossed, Put, Bound
  <2>3. ReadOf(writing'.req.base)
    BY <1>1, <1>8 DEF Inv, WritingKept
  <2>4. QED
    BY <2>2, <2>3 DEF WritingKept, ReadOf
<1>10. NoLostUpdate'
  <2>1. /\ last'.conditional = (r.base # None)
        /\ last'.over = CidAt(n)
        /\ last'.base = IF r.base = None THEN None ELSE r.base.cid
        /\ last'.crossed = (writing.crossed \/ (r.base # None /\ r.base.crossed))
    BY <1>1 DEF Outcome
  <2>2. SUFFICES ASSUME r.base # None, CidAt(n) # None, ~writing.crossed, ~r.base.crossed
                 PROVE  r.base.cid = CidAt(n)
    BY <2>1 DEF NoLostUpdate
  <2>3. ~Refuses(n, r.base) /\ ReadOf(r.base)
    BY <1>1, <2>2 DEF Inv, WritingKept, Uncrossed
  <2>4. n \in Bound /\ dir[n] \in Entry /\ CidAt(n) = dir[n].cid /\ r.base.etag = Etag(dir[n])
    BY <2>2, <2>3 DEF Refuses, CidAt, Inv, TypeOK
  <2>5. PICK f \in Entry : r.base.etag = Etag(f) /\ r.base.cid = f.cid
    BY <2>2, <2>3 DEF ReadOf
  <2>6. QED
    BY <2>2, <2>4, <2>5, EtagTellsContent
<1>11. RefusedOnlyIfChanged'
  BY <1>1 DEF RefusedOnlyIfChanged, Outcome
<1>12. LeftRead'
  BY <1>1 DEF Inv, LeftRead, ReadOf
<1>13. TypeOK'
  BY <1>1, <1>6, <1>7, <1>8 DEF Inv, TypeOK
<1>14. QED
  BY <1>6, <1>9, <1>10, <1>11, <1>12, <1>13 DEF Inv

(* The reply of a write that no merge crossed carries the etag the host     *)
(* would compute.                                                           *)
LEMMA ReplyStep ==
  ASSUME Inv, NEW heard \in BOOLEAN, Reply(heard)
  PROVE  Inv'
<1> DEFINE w == writing
           c == writing.req.client
           n == writing.req.name
<1>1. /\ w # None /\ w.node # 0 /\ writing' = None /\ last' = None
      /\ UNCHANGED <<clock, dir, edits, left>>
  BY DEF Reply
<1>2. w \in Writings /\ c \in Clients /\ n \in Names /\ w.req.cid \in Cids /\ w.crossed \in BOOLEAN
  BY <1>1 DEF Inv, TypeOK, Writings, Requests
<1>3. Put(w) \in Entry /\ Put(w).cid = w.req.cid
  BY <1>1, <1>2 DEF Put, Entry, Writings
<1>4. NodeNow(w) \in Entry
  BY <1>3 DEF NodeNow, Inv, TypeOK
<1>5. /\ Written(w) \in Helds /\ Written(w).name = n /\ Written(w).etag = Etag(NodeNow(w))
      /\ Written(w).cid = w.req.cid /\ Written(w).crossed = w.crossed
  BY <1>2, <1>4, EtagType DEF Written, Helds
<1>6. ~w.crossed => n \in Bound /\ dir[n] = Put(w) /\ NodeNow(w) = Put(w)
  BY <1>1 DEF Inv, WritingKept, Uncrossed, NodeNow, Put
<1>7. TypeOK' /\ HeldRead' /\ HeldFresh'
  <2>1. CASE heard
    <3>1. /\ held' = [held EXCEPT ![c] = Written(w)]
          /\ stale' = [stale EXCEPT ![c] = w.crossed]
      BY <2>1 DEF Reply
    <3>2. /\ held' \in [Clients -> Helds \union {None}] /\ stale' \in [Clients -> BOOLEAN]
          /\ held'[c] = Written(w) /\ stale'[c] = w.crossed
          /\ \A x \in Clients : x # c => held'[x] = held[x] /\ stale'[x] = stale[x]
      BY <1>2, <1>5, <3>1 DEF Inv, TypeOK
    <3>3. ReadOf(held'[c])
      BY <1>3, <1>5, <1>6, <3>2 DEF ReadOf
    <3>4. HeldRead'
      BY <3>2, <3>3 DEF Inv, HeldRead, ReadOf
    <3>5. HeldFresh'
      BY <1>1, <1>5, <1>6, <3>2 DEF Inv, HeldFresh, Bound
    <3>6. QED
      BY <1>1, <3>2, <3>4, <3>5 DEF Inv, TypeOK, Bound
  <2>2. CASE ~heard
    BY <1>1, <2>2 DEF Reply, Inv, TypeOK, HeldRead, HeldFresh, ReadOf, Bound
  <2>3. QED
    BY <2>1, <2>2
<1>8. LeftRead' /\ WritingKept' /\ NoLostUpdate' /\ RefusedOnlyIfChanged'
  BY <1>1 DEF Inv, LeftRead, ReadOf, WritingKept, NoLostUpdate, RefusedOnlyIfChanged
<1>9. QED
  BY <1>7, <1>8 DEF Inv

-------------------------------------------------------------------------------
(* The handlers that give no etag. *)
LEMMA HandlesStep ==
  ASSUME Inv, NEW d, NEW ns, Handles(d, ns),
         DOMAIN d \subseteq Names, \A m \in DOMAIN d : d[m] \in Entry,
         \A m \in Names \ ns : (m \in DOMAIN d <=> m \in Bound)
                               /\ (m \in Bound => d[m] = dir[m])
  PROVE  Inv'
<1>1. Changed(d, ns) /\ writing = None /\ last' = None /\ UNCHANGED <<writing, held, left>>
  BY DEF Handles
<1>2. /\ clock' = clock /\ clock' \in 1..MaxClock /\ edits' \in 0..MaxEdits
      /\ Bound' \subseteq Names /\ \A m \in Bound' : dir'[m] \in Entry
      /\ stale' \in [Clients -> BOOLEAN]
      /\ HeldRead' /\ HeldFresh'
  BY <1>1, ChangedStep
<1>3. QED
  BY <1>1, <1>2
  DEF Inv, TypeOK, LeftRead, ReadOf, WritingKept, NoLostUpdate, RefusedOnlyIfChanged

(* A merge at the name of the write under way counts as crossing it; at any *)
(* other name it leaves what the write relies on.                           *)
LEMMA MergedStep ==
  ASSUME Inv, NEW d, NEW n \in Names, Merged(d, n),
         DOMAIN d \subseteq Names, \A m \in DOMAIN d : d[m] \in Entry,
         \A m \in Names \ {n} : (m \in DOMAIN d <=> m \in Bound)
                                /\ (m \in Bound => d[m] = dir[m])
  PROVE  Inv'
<1>1. /\ Changed(d, {n}) /\ last' = None /\ UNCHANGED <<held, left>> /\ dir' = d
      /\ writing' = IF writing # None /\ writing.req.name = n
                    THEN [writing EXCEPT !.crossed = TRUE] ELSE writing
  BY DEF Merged, Changed
<1>2. /\ clock' = clock /\ clock' \in 1..MaxClock /\ edits' \in 0..MaxEdits
      /\ Bound' \subseteq Names /\ \A m \in Bound' : dir'[m] \in Entry
      /\ stale' \in [Clients -> BOOLEAN]
      /\ HeldRead' /\ HeldFresh'
  BY <1>1, ChangedStep
<1>3. writing' \in Writings \union {None} /\ WritingKept'
  <2>1. CASE writing # None /\ writing.req.name = n
    <3>1. writing \in Writings
      BY <2>1 DEF Inv, TypeOK
    <3>2. /\ writing' \in Writings /\ writing'.req = writing.req /\ writing'.crossed = TRUE
      BY <1>1, <2>1, <3>1 DEF Writings
    <3>3. QED
      BY <2>1, <3>2 DEF Inv, WritingKept, ReadOf
  <2>2. CASE writing # None /\ writing.req.name # n
    <3>1. writing' = writing /\ writing \in Writings /\ writing.req.name \in Names
      BY <1>1, <2>2 DEF Inv, TypeOK, Writings, Requests
    <3>2. /\ writing.req.name \in Bound' <=> writing.req.name \in Bound
          /\ writing.req.name \in Bound => dir'[writing.req.name] = dir[writing.req.name]
      BY <1>1, <2>2, <3>1 DEF Bound
    <3>3. Uncrossed(writing) => Uncrossed(writing)'
      BY <3>1, <3>2 DEF Uncrossed, Refuses, Put
    <3>4. QED
      BY <2>2, <3>1, <3>3 DEF Inv, WritingKept, ReadOf
  <2>3. CASE writing = None
    BY <1>1, <2>3 DEF WritingKept
  <2>4. QED
    BY <2>1, <2>2, <2>3
<1>4. QED
  BY <1>1, <1>2, <1>3 DEF Inv, TypeOK, LeftRead, ReadOf, NoLostUpdate, RefusedOnlyIfChanged

(* What a handler or a merge puts at one name. *)
LEMMA WithOne ==
  ASSUME Inv, NEW n \in Names, NEW e \in Entry
  PROVE  /\ DOMAIN With(n, e) \subseteq Names
         /\ \A m \in DOMAIN With(n, e) : With(n, e)[m] \in Entry
         /\ \A m \in Names \ {n} : (m \in DOMAIN With(n, e) <=> m \in Bound)
                                   /\ (m \in Bound => With(n, e)[m] = dir[m])
  BY DEF With, Inv, TypeOK

LEMMA WithoutOne ==
  ASSUME Inv, NEW n \in Names
  PROVE  /\ DOMAIN Without(n) \subseteq Names
         /\ \A m \in DOMAIN Without(n) : Without(n)[m] \in Entry
         /\ \A m \in Names \ {n} : (m \in DOMAIN Without(n) <=> m \in Bound)
                                   /\ (m \in Bound => Without(n)[m] = dir[m])
  BY DEF Without, Inv, TypeOK

LEMMA StepInv == ASSUME Inv, [Next]_vars PROVE Inv'
<1>1. ASSUME NEW c \in Clients, NEW n \in Names, NEW cid \in Cids, NEW base \in Bases(c, n),
             Write(Asks(c, n, cid, base))
      PROVE  Inv'
  <2> DEFINE r == Asks(c, n, cid, base)
  <2>1. r \in Requests /\ r.base = base /\ ReadOf(base)
    BY BasesRead DEF Asks
  <2>2. Check(r, TRUE) /\ left' \in {left, r}
    BY <1>1 DEF Write
  <2> HIDE DEF r
  <2>3. QED
    BY <2>1, <2>2, CheckStep
<1>2. ASSUME NEW c \in Clients, NEW n \in Names, NEW cid \in Cids, NEW base \in Bases(c, n),
             Refuse(Asks(c, n, cid, base))
      PROVE  Inv'
  BY <1>2, RefuseStep
<1>3. CASE Repeat
  <2>1. left \in Requests /\ ReadOf(left.base)
    BY <1>3 DEF Repeat, Inv, TypeOK, LeftRead
  <2>2. QED
    BY <1>3, <2>1, CheckStep DEF Repeat
<1>4. CASE Apply
  BY <1>4, ApplyStep
<1>5. CASE ApplyFails
  BY <1>5
  DEF ApplyFails, Inv, TypeOK, HeldRead, HeldFresh, LeftRead, ReadOf, WritingKept, Bound,
      NoLostUpdate, RefusedOnlyIfChanged
<1>6. ASSUME NEW heard \in BOOLEAN, Reply(heard) PROVE Inv'
  BY <1>6, ReplyStep
<1>7. ASSUME NEW c \in Clients, NEW n \in Names, Stat(c, n) PROVE Inv'
  <2>1. n \in Bound /\ dir[n] \in Entry /\ Hold(n, dir[n]) \in Helds
    BY <1>7, HoldType DEF Stat, Inv, TypeOK
  <2>2. /\ held' = [held EXCEPT ![c] = Hold(n, dir[n])] /\ stale' = [stale EXCEPT ![c] = FALSE]
        /\ writing = None /\ last' = None /\ UNCHANGED <<clock, dir, edits, writing, left>>
    BY <1>7 DEF Stat
  <2>3. TypeOK'
    BY <2>1, <2>2 DEF Inv, TypeOK, Bound
  <2>4. HeldRead' /\ HeldFresh'
    BY <2>1, <2>2, HoldType DEF Inv, TypeOK, HeldRead, HeldFresh, ReadOf, Bound
  <2>5. QED
    BY <2>2, <2>3, <2>4 DEF Inv, LeftRead, ReadOf, WritingKept, NoLostUpdate, RefusedOnlyIfChanged
<1>8. ASSUME NEW from \in Names, NEW to \in Names, Copy(from, to) PROVE Inv'
  <2>1. /\ IsFile(from) /\ edits < MaxEdits /\ clock \in 1..MaxClock
        /\ Handles(With(to, Made(to, dir[from].cid, clock)), {to})
    BY <1>8 DEF Copy, Handles, Changed, Inv, TypeOK
  <2>2. Made(to, dir[from].cid, clock) \in Entry
    BY <2>1, MadeType DEF Inv, TypeOK, IsFile, Entry
  <2>3. QED
    BY <2>1, <2>2, WithOne, HandlesStep
<1>9. ASSUME NEW n \in Names, Mkdir(n) PROVE Inv'
  <2>1. /\ edits < MaxEdits /\ clock \in 1..MaxClock
        /\ Handles(With(n, Made(n, None, clock)), {n})
    BY <1>9 DEF Mkdir, Handles, Changed, Inv, TypeOK
  <2>2. Made(n, None, clock) \in Entry
    BY <2>1, MadeType DEF Inv
  <2>3. QED
    BY <2>1, <2>2, WithOne, HandlesStep
<1>10. ASSUME NEW n \in Names, Delete(n) PROVE Inv'
  BY <1>10, WithoutOne, HandlesStep DEF Delete
<1>11. ASSUME NEW from \in Names, NEW to \in Names, Move(from, to) PROVE Inv'
  BY <1>11, HandlesStep DEF Move, Inv, TypeOK
<1>12. ASSUME NEW n \in Names, NEW cid \in Cids \union {None}, NEW mtime \in 1..MaxClock,
              MergeBinds(n, cid, mtime)
       PROVE  Inv'
  <2>1. PICK node \in {edits + 1} \union {dir[m].node : m \in {x \in {n} : IsFile(x) /\ cid # None}} :
          Merged(With(n, [node |-> node, cid |-> cid, mtime |-> mtime]), n)
    BY <1>12 DEF MergeBinds
  <2>2. edits < MaxEdits
    BY <2>1 DEF Merged, Changed
  <2>3. node \in 1..MaxEdits
    BY <2>1, <2>2, ConditionalWriteAssumption DEF IsFile, Inv, TypeOK, Entry
  <2>4. [node |-> node, cid |-> cid, mtime |-> mtime] \in Entry
    BY <2>3 DEF Entry
  <2>5. QED
    BY <2>1, <2>4, WithOne, MergedStep
<1>13. ASSUME NEW n \in Names, MergeRemoves(n) PROVE Inv'
  BY <1>13, WithoutOne, MergedStep DEF MergeRemoves
<1>14. CASE ClockTick
  BY <1>14, ConditionalWriteAssumption
  DEF ClockTick, Inv, TypeOK, HeldRead, HeldFresh, LeftRead, ReadOf, WritingKept, Uncrossed,
      Refuses, Bound, NoLostUpdate, RefusedOnlyIfChanged
<1>15. CASE UNCHANGED vars
  BY <1>15
  DEF vars, Inv, TypeOK, HeldRead, HeldFresh, LeftRead, ReadOf, WritingKept, Uncrossed,
      Refuses, Bound, NoLostUpdate, RefusedOnlyIfChanged
<1>16. QED
  BY <1>1, <1>2, <1>3, <1>4, <1>5, <1>6, <1>7, <1>8, <1>9, <1>10, <1>11, <1>12, <1>13,
     <1>14, <1>15
  DEF Next

LEMMA InvHolds == Spec => []Inv
<1>1. Init => Inv
  BY ConditionalWriteAssumption
  DEF Init, Inv, TypeOK, HeldRead, HeldFresh, LeftRead, ReadOf, WritingKept, Bound,
      NoLostUpdate, RefusedOnlyIfChanged
<1>2. QED
  BY <1>1, StepInv, PTL DEF Spec

(* Type correctness: every name is bound to an entry, every etag a client   *)
(* holds is one the host can give out.                                      *)
THEOREM TypeCorrect == Spec => []TypeOK
<1>1. Inv => TypeOK
  BY DEF Inv
<1>2. QED
  BY <1>1, InvHolds, PTL

(* A conditional write over a file replaces the content its client read,    *)
(* for any clients, names, contents and clocks and whatever other devices   *)
(* do, unless one of their operations on that name is merged in the middle  *)
(* of it, or of the write that gave the client its etag.                    *)
THEOREM UpdatesAreNotLost == Spec => []NoLostUpdate
<1>1. Inv => NoLostUpdate
  BY DEF Inv
<1>2. QED
  BY <1>1, InvHolds, PTL

(* No write is refused while its name is as the client read it.             *)
THEOREM RefusalsAreJustified == Spec => []RefusedOnlyIfChanged
<1>1. Inv => RefusedOnlyIfChanged
  BY DEF Inv
<1>2. QED
  BY <1>1, InvHolds, PTL
=============================================================================
