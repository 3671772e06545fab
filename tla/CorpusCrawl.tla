----------------------------- MODULE CorpusCrawl -----------------------------
(***************************************************************************)
(* How a drive's files reach a search index: op_items walks the drive,     *)
(* keeps what changed since a given second, sorts by path and takes one    *)
(* page by offset, all under the registry lock; then, with the lock        *)
(* released, it asks for each file of the page the content app for the     *)
(* bytes and the kind app for their text, and replies.  The index asks for *)
(* page after page, and starts its next crawl from the newest "updated" it *)
(* has seen.                                                               *)
(*                                                                         *)
(* Every page is a new walk.  Requests of other clients are served between *)
(* two pages, because the serve loop is serial; what ce-coord merges from  *)
(* other devices comes in at any time, also while a page is extracted.     *)
(* Times are what each device's clock says: the host's may be set back, and *)
(* another device's may be ahead of it.                                    *)
(*                                                                         *)
(* The index is external, modelled as ItemsArgs describes it.  A page that *)
(* is lost is asked for again and changes nothing.  Titles, tags and links *)
(* count as part of a file's version.                                      *)
(***************************************************************************)
EXTENDS Integers, FiniteSets

CONSTANTS
  Nodes,      \* file nodes, by their stable ids
  Paths,      \* paths, numbers in the order the walk is sorted by
  Home,       \* Home[n]: the path of a file that is there when crawls begin
  Limits,     \* page limits the index asks for, 0 included
  MaxLimit,   \* ItemsArgs::MAX_LIMIT
  Unextracted,         \* the text of an item no app could give a text for
  MaxClock, MaxEdits   \* bounds for model checking only

ASSUME CorpusCrawlAssumption ==
  /\ IsFiniteSet(Nodes) /\ Paths \subseteq Nat
  /\ DOMAIN Home \subseteq Nodes /\ Home \in [DOMAIN Home -> Paths]
  /\ \A m, n \in DOMAIN Home : Home[m] = Home[n] => m = n
  /\ Limits \subseteq Nat /\ MaxLimit \in Nat \ {0}
  /\ Unextracted \notin Nat
  /\ MaxClock \in Nat \ {0} /\ MaxEdits \in Nat

VARIABLES
  clock,     \* the host's clock, in seconds
  files,     \* files[n]: the facts the walk collects of a file that is there
  pc,        \* "idle", "crawl" (a page is due) or "page" (one is extracted)
  since, offset, limit,   \* arguments of the page
  page,      \* page[n]: the facts collected of the files of the page
  more,      \* there are files after the page
  texts,     \* texts[n]: the text of the items assembled so far
  newest,    \* newest "updated" the index has seen
  index,     \* index[n]: the item the index holds
  behind,    \* history: files no crawl may come back to as they are
  used,      \* node ids given out: none is given twice
  edits      \* changes of the drive so far: the version of the next one

driveVars == <<files, used, edits, behind>>
pageVars == <<pc, since, offset, limit, page, more, texts>>
indexVars == <<newest, index>>
vars == <<clock, driveVars, pageVars, indexVars>>

(* What a file is to the index: ver counts its changes, also those that     *)
(* leave its modification time alone; doc is the content it is bound to.    *)
Facts == [path : Paths, sec : 0..MaxClock, ver : 0..MaxEdits, doc : 0..MaxEdits]

Items == [facts : Facts, text : (0..MaxEdits) \union {Unextracted}]

Init ==
  /\ clock = 1
  /\ files = [n \in DOMAIN Home |-> [path |-> Home[n], sec |-> 1, ver |-> 0, doc |-> 0]]
  /\ used = DOMAIN Home
  /\ pc = "idle" /\ since = 0 /\ offset = 0 /\ limit = 0
  /\ page = << >> /\ more = FALSE /\ texts = << >>
  /\ newest = 0 /\ index = << >> /\ behind = {} /\ edits = 0

-------------------------------------------------------------------------------
(* One page. *)

(* Fault: the bound of changed_since is exclusive. *)
KeptAfter(fs, s) == {n \in DOMAIN fs : s = 0 \/ fs[n].sec > s}

(* changed_since: at or after s; 0 keeps everything. *)
Kept(fs, s) == {n \in DOMAIN fs : s = 0 \/ fs[n].sec >= s}

(* The place of n in the filtered, sorted walk. *)
Rank(fs, s, n) == Cardinality({m \in Kept(fs, s) : fs[m].path <= fs[n].path})

(* Fault: the limit is bounded above only. *)
ClampAbove(l) == IF l > MaxLimit THEN MaxLimit ELSE l

Clamp(l) == IF l < 1 THEN 1 ELSE IF l > MaxLimit THEN MaxLimit ELSE l

OnPage ==
  {n \in Kept(files, since) :
     Rank(files, since, n) \in (offset + 1)..(offset + Clamp(limit))}

NextOffset == offset + Cardinality(DOMAIN page)

(* Files of the crawl that later pages hold. *)
Ahead(fs) ==
  CASE pc = "crawl" -> {n \in Kept(fs, since) : Rank(fs, since, n) > offset}
    [] pc = "page" /\ more -> {n \in Kept(fs, since) : Rank(fs, since, n) > NextOffset}
    [] OTHER -> {}

(* Files that the crawl under way, or the next one, will return as they are. *)
Due ==
  IF pc = "idle" THEN {n \in DOMAIN files : files[n].sec >= newest}
  ELSE Ahead(files) \union {n \in DOMAIN page \intersect DOMAIN files : page[n] = files[n]}

Current(n) == n \in DOMAIN index /\ index[n].facts = files[n] /\ index[n].text = files[n].doc

-------------------------------------------------------------------------------
(* The drive becomes fs by a change of file n; lost are the files that no   *)
(* crawl may look at again for it.                                          *)
Edit(fs, n, lost) ==
  /\ edits < MaxEdits
  /\ edits' = edits + 1
  /\ files' = fs
  /\ used' = used \union {n}
  /\ behind' = ((behind \ {n}) \union lost) \intersect DOMAIN fs
  /\ UNCHANGED <<clock, pageVars, indexVars>>

With(n, f) == [m \in DOMAIN files \union {n} |-> IF m = n THEN f ELSE files[m]]
Without(n) == [m \in DOMAIN files \ {n} |-> files[m]]
Free(p) == \A n \in DOMAIN files : files[n].path # p

(* A new content at p, written at sec. *)
File(p, sec) == [path |-> p, sec |-> sec, ver |-> edits + 1, doc |-> edits + 1]

(* Files that slide over the page boundary when the drive becomes fs. *)
Slid(fs) == Ahead(files) \ Ahead(fs)

(* Fault: the stamp is left in milliseconds. *)
StampMs == clock * 1000

(* mtime_ms / 1000, of a file written now. *)
Stamp == clock

(* A file written while a crawl is under way: it may be behind the offset,  *)
(* and a later page may raise newest above it.  And one written when the    *)
(* index has already seen a newer time, of a device whose clock is ahead or *)
(* of this one before it was set back: changed_since drops it.              *)
Unseen(n) == IF pc = "crawl" \/ Stamp < newest THEN {n} ELSE {}

(* Write or Copy to a path with no file, or to a path with one. *)
Add(n, p) ==
  /\ pc # "page" /\ n \notin used /\ Free(p)
  /\ Edit(With(n, File(p, Stamp)), n, Unseen(n))

Write(n) ==
  /\ pc # "page" /\ n \in DOMAIN files
  /\ LET fs == With(n, File(files[n].path, Stamp))
     IN  Edit(fs, n, Unseen(n) \union (IF Stamp < since THEN Slid(fs) ELSE {}))

(* Move: the content and its modification time stay. *)
Rename(n, p) ==
  /\ pc # "page" /\ n \in DOMAIN files /\ Free(p)
  /\ LET fs == With(n, [files[n] EXCEPT !.path = p, !.ver = edits + 1])
     IN  Edit(fs, n, {n} \union Slid(fs))

(* SetProp, Tag, Link: the item's tags, links and kind change. *)
Annotate(n) ==
  /\ pc # "page" /\ n \in DOMAIN files
  /\ Edit(With(n, [files[n] EXCEPT !.ver = edits + 1]), n, {n})

Delete(n) ==
  /\ pc # "page" /\ n \in DOMAIN files
  /\ Edit(Without(n), n, Slid(Without(n)))

(* Another device's change is merged: a content written at whatever time    *)
(* that device's clock showed, at a free path or at the file's own, or the  *)
(* removal of a file.                                                       *)
Merge(n, p, sec) ==
  /\ \/ n \notin used /\ Free(p)
     \/ n \in DOMAIN files /\ p = files[n].path
  /\ LET fs == With(n, File(p, sec))
     IN  Edit(fs, n, {n} \union Slid(fs))

MergeDelete(n) ==
  /\ n \in DOMAIN files
  /\ Edit(Without(n), n, Slid(Without(n)))

(* Time passes, or the clock is set, back as well. *)
ClockSet(t) ==
  /\ clock' = t
  /\ UNCHANGED <<driveVars, pageVars, indexVars>>

-------------------------------------------------------------------------------
(* The index starts a crawl from the newest "updated" it has seen. *)
StartCrawl(l) ==
  /\ pc = "idle"
  /\ pc' = "crawl" /\ since' = newest /\ offset' = 0 /\ limit' = l
  /\ UNCHANGED <<clock, driveVars, page, more, texts, indexVars>>

(* op_items: the facts of the page and the total, under one lock. *)
Collect ==
  /\ pc = "crawl"
  /\ pc' = "page"
  /\ page' = [n \in OnPage |-> files[n]]
  /\ more' = (offset + Cardinality(OnPage) < Cardinality(Kept(files, since)))
  /\ UNCHANGED <<clock, driveVars, since, offset, limit, texts, indexVars>>

(* Fault: the content is looked up in the drive once more. *)
LocatedNow(n) == IF n \in DOMAIN files THEN files[n].doc ELSE Unextracted

(* The bytes are asked for by the locator that was collected; the content   *)
(* apps are taken to hold what a locator names, as the blob store does.     *)
Located(n) == page[n].doc

(* extract_node of the page's next file: an app that is missing, slow,      *)
(* broken or not named leaves the item without text.                        *)
Extract(n) ==
  /\ pc = "page" /\ n \in DOMAIN page \ DOMAIN texts
  /\ \A m \in DOMAIN page \ DOMAIN texts : page[n].path <= page[m].path
  /\ \E text \in {Located(n), Unextracted} :
       texts' = [m \in DOMAIN texts \union {n} |-> IF m = n THEN text ELSE texts[m]]
  /\ UNCHANGED <<clock, driveVars, pc, since, offset, limit, page, more, indexVars>>

(* Every item of the page is assembled; the index takes them, keyed by node *)
(* id, and asks for the next page if there is more.                         *)
Reply ==
  LET secs == {page[n].sec : n \in DOMAIN page} \union {newest}
  IN  /\ pc = "page" /\ DOMAIN texts = DOMAIN page
      /\ index' = [n \in DOMAIN index \union DOMAIN page |->
                     IF n \in DOMAIN page THEN [facts |-> page[n], text |-> texts[n]]
                     ELSE index[n]]
      /\ newest' \in secs /\ \A t \in secs : t <= newest'
      /\ behind' = {n \in DOMAIN files :
                      IF n \in DOMAIN page /\ page[n] = files[n]
                      THEN texts[n] = Unextracted ELSE n \in behind}
      /\ offset' = IF more THEN NextOffset ELSE 0
      /\ pc' = IF more THEN "crawl" ELSE "idle"
      /\ page' = << >> /\ more' = FALSE /\ texts' = << >>
      /\ UNCHANGED <<clock, files, used, edits, since, limit>>

Next ==
  \/ \E n \in Nodes, p \in Paths : Add(n, p) \/ Rename(n, p)
  \/ \E n \in Nodes : Write(n) \/ Annotate(n) \/ Delete(n)
  \/ \E n \in Nodes, p \in Paths, sec \in 1..MaxClock : Merge(n, p, sec)
  \/ \E n \in Nodes : MergeDelete(n)
  \/ \E t \in 1..MaxClock \ {clock} : ClockSet(t)
  \/ \E l \in Limits : StartCrawl(l)
  \/ Collect \/ Reply
  \/ \E n \in Nodes : Extract(n)

Spec == Init /\ [][Next]_vars

(* The index keeps crawling, with any page limit.  Every call to an app     *)
(* ends, by its timeout at the latest; nothing else is assumed of the apps. *)
Fairness ==
  /\ WF_vars(\E l \in Limits : StartCrawl(l))
  /\ WF_vars(Collect \/ Reply \/ \E n \in Nodes : Extract(n))

LiveSpec == Spec /\ Fairness

-------------------------------------------------------------------------------
TypeOK ==
  /\ clock \in 1..MaxClock /\ edits \in 0..MaxEdits
  /\ DOMAIN files \subseteq Nodes /\ \A n \in DOMAIN files : files[n] \in Facts
  /\ pc \in {"idle", "crawl", "page"}
  /\ since \in 0..MaxClock /\ newest \in 0..MaxClock /\ offset \in Nat
  /\ limit \in Limits \union {0}
  /\ DOMAIN page \subseteq Nodes /\ \A n \in DOMAIN page : page[n] \in Facts
  /\ DOMAIN texts \subseteq DOMAIN page /\ more \in BOOLEAN
  /\ DOMAIN index \subseteq Nodes /\ \A n \in DOMAIN index : index[n] \in Items
  /\ behind \subseteq DOMAIN files /\ DOMAIN files \subseteq used /\ used \subseteq Nodes

(* An item's text is of the very content its facts name, or the item says   *)
(* that it has none, although the file is rewritten or removed between the  *)
(* walk and the calls to the apps: a page is never a mixture of two states  *)
(* of a file.                                                               *)
ItemsOfOneState ==
  \A n \in DOMAIN index : index[n].text \in {index[n].facts.doc, Unextracted}

(* Whatever the index does not hold as it is now, the crawl under way or    *)
(* the next one returns, but for the files renamed, annotated or merged,    *)
(* written during a crawl or in a second older than the newest the index    *)
(* has seen, slid over a page boundary by a removal or by a write with a    *)
(* time before the crawl's, or left without text by an app.  So files added *)
(* or rewritten between two pages push no other file out of the crawl, a    *)
(* write in the second of the cursor is not missed, and a failing app hides *)
(* no other file.                                                           *)
CurrentOrDue ==
  \A n \in DOMAIN files : Current(n) \/ n \in Due \/ n \in behind

ChangesStop == <>[][UNCHANGED files]_vars

(* The same as it shows in the index, once the drive is left alone: every   *)
(* file is indexed as it is, or left behind, also when no app ever answers  *)
(* and whatever the page limits.  While the drive changes for ever nothing  *)
(* of the kind holds: at a limit of 1 a file added in front of another      *)
(* between every two pages keeps that one a page ahead.                     *)
EventuallyIndexed ==
  ChangesStop =>
    \A n \in Nodes :
      <>[](n \in DOMAIN files => Current(n) \/ n \in behind)

(* A page that announces another moves the offset on, whatever the limit    *)
(* and whatever was merged while the page was extracted: the index never    *)
(* asks for the same page twice in a crawl.                                 *)
CrawlAdvances == [][Reply /\ more => offset' > offset]_vars
===============================================================================
