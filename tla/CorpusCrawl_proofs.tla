-------------------------- MODULE CorpusCrawl_proofs --------------------------
(***************************************************************************)
(* Proofs about CorpusCrawl, for any files, paths, page limits and changes.*)
(***************************************************************************)
EXTENDS CorpusCrawl, FiniteSetTheorems, TLAPS

DistinctPaths ==
  \A m, n \in DOMAIN files : files[m].path = files[n].path => m = n

NoPage == pc # "page" => DOMAIN page = {}

(* A text of the page under way is of the content collected. *)
TextsOfOneState == \A n \in DOMAIN texts : texts[n] \in {page[n].doc, Unextracted}

(* A file that was changed since its page was collected is left behind. *)
Outdated == \A n \in DOMAIN page \intersect DOMAIN files : page[n] = files[n] \/ n \in behind

TInv == TypeOK /\ DistinctPaths /\ NoPage /\ TextsOfOneState /\ ItemsOfOneState

CInv == Outdated /\ CurrentOrDue

-------------------------------------------------------------------------------
LEMMA EmptyDomain == DOMAIN << >> = {}
  OBVIOUS

LEMMA FileType ==
  ASSUME TypeOK, edits < MaxEdits, NEW p \in Paths, NEW s \in 0..MaxClock
  PROVE  /\ File(p, s) \in Facts /\ File(p, s).path = p /\ File(p, s).sec = s
         /\ File(p, s).ver = edits + 1
  BY CorpusCrawlAssumption DEF TypeOK, File, Facts

(* A change of one file: the rest of the drive stays as it is. *)
LEMMA EditTInv ==
  ASSUME TInv, NEW fs, NEW n \in Nodes, NEW lost, Edit(fs, n, lost),
         DOMAIN fs \in {DOMAIN files \union {n}, DOMAIN files \ {n}},
         \A m \in DOMAIN files \ {n} : fs[m] = files[m],
         n \in DOMAIN fs => /\ fs[n] \in Facts
                            /\ \A m \in DOMAIN files \ {n} : files[m].path # fs[n].path
  PROVE  TInv'
<1>1. TypeOK'
  BY CorpusCrawlAssumption DEF TInv, TypeOK, Edit, pageVars, indexVars
<1>3. DistinctPaths'
  BY DEF TInv, DistinctPaths, Edit
<1>4. NoPage' /\ TextsOfOneState' /\ ItemsOfOneState'
  BY DEF TInv, NoPage, TextsOfOneState, ItemsOfOneState, Edit, pageVars, indexVars
<1>5. QED
  BY <1>1, <1>3, <1>4 DEF TInv

LEMMA WithIs ==
  ASSUME NEW n, NEW f
  PROVE  /\ DOMAIN With(n, f) = DOMAIN files \union {n} /\ With(n, f)[n] = f
         /\ \A m \in DOMAIN files \ {n} : With(n, f)[m] = files[m]
  BY DEF With

LEMMA WithoutIs ==
  ASSUME NEW n
  PROVE  /\ DOMAIN Without(n) = DOMAIN files \ {n}
         /\ \A m \in DOMAIN files \ {n} : Without(n)[m] = files[m]
  BY DEF Without
LEMMA WithTInv ==
  ASSUME TInv, NEW n \in Nodes, NEW f \in Facts, NEW lost, Edit(With(n, f), n, lost),
         \A m \in DOMAIN files \ {n} : files[m].path # f.path
  PROVE  TInv'
<1> DEFINE fs == With(n, f)
<1>1. /\ DOMAIN fs = DOMAIN files \union {n} /\ fs[n] = f
      /\ \A m \in DOMAIN files \ {n} : fs[m] = files[m]
  BY DEF With
<1>2. Edit(fs, n, lost)
  OBVIOUS
<1> HIDE DEF fs
<1>3. QED
  BY <1>1, <1>2, EditTInv

LEMMA WithoutTInv ==
  ASSUME TInv, NEW n \in Nodes, NEW lost, Edit(Without(n), n, lost)
  PROVE  TInv'
<1> DEFINE fs == Without(n)
<1>1. /\ DOMAIN fs = DOMAIN files \ {n}
      /\ \A m \in DOMAIN files \ {n} : fs[m] = files[m]
  BY WithoutIs
<1>2. Edit(fs, n, lost)
  OBVIOUS
<1> HIDE DEF fs
<1>3. QED
  BY <1>1, <1>2, EditTInv

-------------------------------------------------------------------------------
(* Type correctness, and items of one state. *)

LEMMA TInit == Init => TInv
<1> SUFFICES ASSUME Init PROVE TInv
  OBVIOUS
<1>1. /\ DOMAIN files = DOMAIN Home /\ DOMAIN page = {} /\ DOMAIN texts = {} /\ DOMAIN index = {}
  BY EmptyDomain DEF Init
<1>2. \A n \in DOMAIN files : files[n].path = Home[n] /\ files[n].sec = 1 /\ files[n] \in Facts
  BY CorpusCrawlAssumption DEF Init, Facts
<1>3. TypeOK
  <2>1. /\ clock = 1 /\ edits = 0 /\ since = 0 /\ newest = 0 /\ offset = 0 /\ limit = 0
        /\ pc = "idle" /\ more = FALSE /\ behind = {} /\ used = DOMAIN Home
    BY DEF Init
  <2>2. 1 \in 1..MaxClock /\ 0 \in 0..MaxClock /\ 0 \in 0..MaxEdits /\ DOMAIN Home \subseteq Nodes
    BY CorpusCrawlAssumption
  <2>3. QED
    BY <1>1, <1>2, <2>1, <2>2 DEF TypeOK
<1>4. DistinctPaths
  BY <1>1, <1>2, CorpusCrawlAssumption DEF Init, DistinctPaths
<1>5. NoPage /\ TextsOfOneState /\ ItemsOfOneState
  BY <1>1 DEF NoPage, TextsOfOneState, ItemsOfOneState
<1>6. QED
  BY <1>3, <1>4, <1>5 DEF TInv

LEMMA RequestTInv ==
  ASSUME TInv, NEW n \in Nodes,
         (\E p \in Paths : Add(n, p) \/ Rename(n, p)) \/ Write(n) \/ Annotate(n) \/ Delete(n)
  PROVE  TInv'
<1>0. Stamp \in 0..MaxClock
  BY DEF TInv, TypeOK, Stamp
<1>1. ASSUME NEW p \in Paths, Add(n, p) PROVE TInv'
  <2>1. n \notin DOMAIN files /\ edits < MaxEdits /\ Edit(With(n, File(p, Stamp)), n, Unseen(n))
    BY <1>1 DEF TInv, TypeOK, Add, Edit
  <2>2. \A m \in DOMAIN files \ {n} : files[m].path # p
    BY <1>1 DEF Add, Free
  <2>3. QED
    BY <1>0, <2>1, <2>2, FileType, WithTInv DEF TInv
<1>2. CASE Write(n)
  <2>1. n \in DOMAIN files /\ edits < MaxEdits
    BY <1>2 DEF Write, Edit
  <2>2. PICK lost : Edit(With(n, File(files[n].path, Stamp)), n, lost)
    BY <1>2 DEF Write
  <2>3. files[n].path \in Paths /\ \A m \in DOMAIN files \ {n} : files[m].path # files[n].path
    BY <2>1 DEF TInv, TypeOK, Facts, DistinctPaths
  <2>4. QED
    BY <1>0, <2>1, <2>2, <2>3, FileType, WithTInv DEF TInv
<1>3. ASSUME NEW p \in Paths, Rename(n, p) PROVE TInv'
  <2> DEFINE f == [files[n] EXCEPT !.path = p, !.ver = edits + 1]
  <2>1. n \in DOMAIN files /\ edits < MaxEdits /\ edits \in 0..MaxEdits
        /\ Edit(With(n, f), n, {n} \union Slid(With(n, f)))
        /\ \A m \in DOMAIN files : files[m].path # p
    BY <1>3 DEF TInv, TypeOK, Rename, Edit, Free
  <2>2. f \in Facts /\ f.sec = files[n].sec /\ f.path = p
    <3>1. files[n] \in Facts /\ edits + 1 \in 0..MaxEdits
      BY <2>1, CorpusCrawlAssumption DEF TInv, TypeOK
    <3> DEFINE g == [files[n] EXCEPT !.path = p]
    <3>2. g \in Facts /\ g.sec = files[n].sec /\ g.path = p
      BY <3>1 DEF Facts
    <3>3. f = [g EXCEPT !.ver = edits + 1]
      OBVIOUS
    <3> HIDE DEF f, g
    <3>4. QED
      BY <3>1, <3>2, <3>3 DEF Facts
  <2> HIDE DEF f
  <2>3. QED
    BY <2>1, <2>2, WithTInv
<1>4. CASE Annotate(n)
  <2> DEFINE f == [files[n] EXCEPT !.ver = edits + 1]
  <2>1. n \in DOMAIN files /\ edits < MaxEdits /\ edits \in 0..MaxEdits
        /\ Edit(With(n, f), n, {n})
    BY <1>4 DEF TInv, TypeOK, Annotate, Edit
  <2>2. f \in Facts /\ f.sec = files[n].sec /\ f.path = files[n].path
    BY <2>1, CorpusCrawlAssumption DEF TInv, TypeOK, Facts
  <2>3. \A m \in DOMAIN files \ {n} : files[m].path # f.path
    BY <2>1, <2>2 DEF TInv, DistinctPaths
  <2> HIDE DEF f
  <2>4. QED
    BY <2>1, <2>2, <2>3, WithTInv
<1>5. CASE Delete(n)
  BY <1>5, WithoutTInv DEF Delete
<1>6. QED
  BY <1>1, <1>2, <1>3, <1>4, <1>5

LEMMA MergeTInv ==
  ASSUME TInv, NEW n \in Nodes,
         (\E p \in Paths, sec \in 1..MaxClock : Merge(n, p, sec)) \/ MergeDelete(n)
  PROVE  TInv'
<1>1. ASSUME NEW p \in Paths, NEW sec \in 1..MaxClock, Merge(n, p, sec) PROVE TInv'
  <2>1. edits < MaxEdits /\ sec \in 0..MaxClock
        /\ Edit(With(n, File(p, sec)), n, {n} \union Slid(With(n, File(p, sec))))
    BY <1>1 DEF TInv, TypeOK, Merge, Edit
  <2>2. \A m \in DOMAIN files \ {n} : files[m].path # p
    BY <1>1 DEF TInv, Merge, Free, DistinctPaths
  <2>3. QED
    BY <2>1, <2>2, FileType, WithTInv DEF TInv
<1>2. CASE MergeDelete(n)
  BY <1>2, WithoutTInv DEF MergeDelete
<1>3. QED
  BY <1>1, <1>2
LEMMA CrawlTInv ==
  ASSUME TInv,
         (\E t \in 1..MaxClock : ClockSet(t)) \/ (\E l \in Limits : StartCrawl(l)) \/ Collect
         \/ (\E n \in Nodes : Extract(n)) \/ Reply
  PROVE  TInv'
<1>1. CASE \E t \in 1..MaxClock : ClockSet(t)
  <2>1. TypeOK'
    BY <1>1 DEF ClockSet, driveVars, pageVars, indexVars, TInv, TypeOK
  <2>2. DistinctPaths' /\ NoPage' /\ TextsOfOneState' /\ ItemsOfOneState'
    BY <1>1 DEF ClockSet, driveVars, pageVars, indexVars, TInv, DistinctPaths, NoPage,
                TextsOfOneState, ItemsOfOneState
  <2>3. QED
    BY <2>1, <2>2 DEF TInv
<1>2. CASE \E l \in Limits : StartCrawl(l)
  BY <1>2
  DEF StartCrawl, driveVars, indexVars, TInv, TypeOK, DistinctPaths, NoPage,
      TextsOfOneState, ItemsOfOneState
<1>3. CASE Collect
  <2>1. OnPage \subseteq DOMAIN files
    BY DEF OnPage, Kept
  <2>2. DOMAIN page' = OnPage /\ (\A n \in OnPage : page'[n] = files[n]) /\ more' \in BOOLEAN
    BY <1>3 DEF Collect
  <2>3. DOMAIN texts = {}
    BY <1>3 DEF Collect, TInv, TypeOK, NoPage
  <2>4. TypeOK'
    BY <1>3, <2>1, <2>2, <2>3 DEF Collect, driveVars, indexVars, TInv, TypeOK
  <2>5. DistinctPaths' /\ NoPage' /\ TextsOfOneState' /\ ItemsOfOneState'
    BY <1>3, <2>3 DEF Collect, driveVars, indexVars, TInv, DistinctPaths, NoPage,
                      TextsOfOneState, ItemsOfOneState
  <2>6. QED
    BY <2>4, <2>5 DEF TInv
<1>4. ASSUME NEW n \in Nodes, Extract(n) PROVE TInv'
  <2>1. PICK text \in {page[n].doc, Unextracted} :
          texts' = [m \in DOMAIN texts \union {n} |-> IF m = n THEN text ELSE texts[m]]
    BY <1>4 DEF Extract, Located
  <2>2. /\ DOMAIN texts' = DOMAIN texts \union {n} /\ texts'[n] = text /\ n \in DOMAIN page
        /\ \A m \in DOMAIN texts \ {n} : texts'[m] = texts[m]
    BY <1>4, <2>1 DEF Extract
  <2>3. TypeOK'
    BY <1>4, <2>2 DEF Extract, driveVars, indexVars, TInv, TypeOK
  <2>4. TextsOfOneState'
    BY <1>4, <2>1, <2>2 DEF Extract, TInv, TextsOfOneState
  <2>5. DistinctPaths' /\ NoPage' /\ ItemsOfOneState'
    BY <1>4 DEF Extract, driveVars, indexVars, TInv, DistinctPaths, NoPage, ItemsOfOneState
  <2>6. QED
    BY <2>3, <2>4, <2>5 DEF TInv
<1>5. CASE Reply
  <2>1. /\ DOMAIN index' = DOMAIN index \union DOMAIN page
        /\ \A n \in DOMAIN page : index'[n] = [facts |-> page[n], text |-> texts[n]]
        /\ \A n \in DOMAIN index \ DOMAIN page : index'[n] = index[n]
    BY <1>5 DEF Reply
  <2>2. \A n \in DOMAIN page : page[n] \in Facts /\ texts[n] \in {page[n].doc, Unextracted}
    BY <1>5 DEF Reply, TInv, TypeOK, TextsOfOneState
  <2>3. \A n \in DOMAIN page : index'[n] \in Items
                             /\ index'[n].text \in {index'[n].facts.doc, Unextracted}
    BY <2>1, <2>2 DEF Items, Facts
  <2>4. DOMAIN page' = {} /\ DOMAIN texts' = {}
    BY <1>5, EmptyDomain DEF Reply
  <2>5. newest' \in 0..MaxClock
    BY <1>5 DEF Reply, TInv, TypeOK, Facts
  <2>6. IsFiniteSet(DOMAIN page)
    BY FS_Subset, CorpusCrawlAssumption DEF TInv, TypeOK
  <2>7. NextOffset \in Nat
    BY <2>6, FS_CardinalityType DEF NextOffset, TInv, TypeOK
  <2>8. TypeOK'
    BY <1>5, <2>1, <2>3, <2>4, <2>5, <2>7 DEF Reply, TInv, TypeOK
  <2>9. DistinctPaths' /\ NoPage' /\ TextsOfOneState'
    BY <1>5, <2>4 DEF Reply, TInv, DistinctPaths, NoPage, TextsOfOneState
  <2>10. ItemsOfOneState'
    BY <2>1, <2>3 DEF TInv, ItemsOfOneState
  <2>11. QED
    BY <2>8, <2>9, <2>10 DEF TInv
<1>6. QED
  BY <1>1, <1>2, <1>3, <1>4, <1>5

LEMMA TStep == ASSUME TInv, [Next]_vars PROVE TInv'
<1>1. CASE UNCHANGED vars
  BY <1>1 DEF vars, driveVars, pageVars, indexVars, TInv, TypeOK, DistinctPaths, NoPage,
              TextsOfOneState, ItemsOfOneState
<1>2. CASE Next
  <2>1. CASE \E n \in Nodes, p \in Paths : Add(n, p) \/ Rename(n, p)
    BY <2>1, RequestTInv
  <2>2. CASE \E n \in Nodes : Write(n) \/ Annotate(n) \/ Delete(n)
    BY <2>2, RequestTInv
  <2>3. CASE \E n \in Nodes, p \in Paths, sec \in 1..MaxClock : Merge(n, p, sec)
    BY <2>3, MergeTInv
  <2>4. CASE \E n \in Nodes : MergeDelete(n)
    BY <2>4, MergeTInv
  <2>5. CASE (\E t \in 1..MaxClock : ClockSet(t)) \/ (\E l \in Limits : StartCrawl(l)) \/ Collect \/ Reply
             \/ (\E n \in Nodes : Extract(n))
    BY <2>5, CrawlTInv
  <2>6. QED
    BY <1>2, <2>1, <2>2, <2>3, <2>4, <2>5 DEF Next
<1>3. QED
  BY <1>1, <1>2
-------------------------------------------------------------------------------
(* Ranks and pages. *)

LEMMA RankBound ==
  ASSUME NEW fs, IsFiniteSet(DOMAIN fs), \A n \in DOMAIN fs : fs[n].path \in Nat, NEW s
  PROVE  /\ IsFiniteSet(Kept(fs, s)) /\ Cardinality(Kept(fs, s)) \in Nat
         /\ \A n \in Kept(fs, s) : Rank(fs, s, n) \in 1..Cardinality(Kept(fs, s))
<1>1. IsFiniteSet(Kept(fs, s)) /\ Cardinality(Kept(fs, s)) \in Nat
  BY FS_Subset, FS_CardinalityType DEF Kept
<1>2. ASSUME NEW n \in Kept(fs, s) PROVE Rank(fs, s, n) \in 1..Cardinality(Kept(fs, s))
  <2> DEFINE R == {m \in Kept(fs, s) : fs[m].path <= fs[n].path}
  <2>1. n \in R
    BY DEF Kept
  <2>2. R \in SUBSET Kept(fs, s)
    OBVIOUS
  <2> HIDE DEF R
  <2>3. IsFiniteSet(R) /\ Cardinality(R) <= Cardinality(Kept(fs, s))
    BY <1>1, <2>2, FS_Subset
  <2>4. Cardinality(R) \in Nat /\ Cardinality(R) # 0
    BY <2>1, <2>3, FS_CardinalityType, FS_EmptySet
  <2>5. QED
    BY <1>1, <2>3, <2>4 DEF Rank, R
<1>3. QED
  BY <1>1, <1>2

(* The walk is strictly sorted. *)
LEMMA RankStrict ==
  ASSUME NEW fs, IsFiniteSet(DOMAIN fs), \A n \in DOMAIN fs : fs[n].path \in Nat, NEW s,
         NEW m \in Kept(fs, s), NEW n \in Kept(fs, s), fs[m].path < fs[n].path
  PROVE  Rank(fs, s, m) < Rank(fs, s, n)
<1> DEFINE R(x) == {y \in Kept(fs, s) : fs[y].path <= fs[x].path}
<1>1. IsFiniteSet(Kept(fs, s))
  BY FS_Subset DEF Kept
<1>2. R(n) \in SUBSET Kept(fs, s) /\ R(m) \in SUBSET R(n) /\ R(m) # R(n)
  <2>1. n \in R(n) /\ n \notin R(m)
    BY DEF Kept
  <2>2. ASSUME NEW y \in R(m) PROVE y \in R(n)
    BY DEF Kept
  <2>3. QED
    BY <2>1, <2>2
<1>3. Rank(fs, s, m) = Cardinality(R(m)) /\ Rank(fs, s, n) = Cardinality(R(n))
  BY DEF Rank
<1> HIDE DEF R
<1>4. IsFiniteSet(R(n)) /\ IsFiniteSet(R(m)) /\ Cardinality(R(m)) <= Cardinality(R(n))
      /\ Cardinality(R(m)) # Cardinality(R(n))
  BY <1>1, <1>2, FS_Subset
<1>5. Cardinality(R(n)) \in Nat /\ Cardinality(R(m)) \in Nat
  BY <1>4, FS_CardinalityType
<1>6. QED
  BY <1>3, <1>4, <1>5

LEMMA FilesFinite ==
  ASSUME TInv
  PROVE  IsFiniteSet(DOMAIN files) /\ \A n \in DOMAIN files : files[n].path \in Nat
  BY FS_Subset, CorpusCrawlAssumption DEF TInv, TypeOK, Facts

(* Files have different places in the filtered walk. *)
LEMMA RankDistinct ==
  ASSUME TInv, NEW m \in Kept(files, since), NEW n \in Kept(files, since),
         Rank(files, since, m) = Rank(files, since, n)
  PROVE  m = n
<1>1. m \in DOMAIN files /\ n \in DOMAIN files
  BY DEF Kept
<1>2. Rank(files, since, m) \in Nat /\ Rank(files, since, n) \in Nat
  BY FilesFinite, RankBound
<1>3. ~(files[m].path < files[n].path) /\ ~(files[n].path < files[m].path)
  BY <1>2, FilesFinite, RankStrict
<1>4. files[m].path = files[n].path
  BY <1>1, <1>3, FilesFinite
<1>5. QED
  BY <1>1, <1>4 DEF TInv, DistinctPaths

(* A page never holds more files than its limit. *)
LEMMA PageSize ==
  ASSUME TInv
  PROVE  /\ Clamp(limit) \in Nat /\ Cardinality(OnPage) \in 0..Clamp(limit)
<1>1. Clamp(limit) \in Nat /\ offset \in Nat
  BY CorpusCrawlAssumption DEF TInv, TypeOK, Clamp
<1> DEFINE T == (offset + 1)..(offset + Clamp(limit))
           f == [n \in OnPage |-> Rank(files, since, n)]
<1>2. IsFiniteSet(T) /\ Cardinality(T) = Clamp(limit)
  <2>1. offset + 1 \in Int /\ offset + Clamp(limit) \in Int
    BY <1>1
  <2>2. IsFiniteSet(T) /\ Cardinality(T) = IF offset + 1 > offset + Clamp(limit) THEN 0
                                           ELSE (offset + Clamp(limit)) - (offset + 1) + 1
    BY <2>1, FS_Interval
  <2>3. QED
    BY <1>1, <2>2
<1>3. f \in [OnPage -> T]
  BY DEF OnPage
<1>4. ASSUME NEW m \in OnPage, NEW n \in OnPage, f[m] = f[n] PROVE m = n
  BY <1>4, RankDistinct DEF OnPage
<1>5. f \in Injection(OnPage, T)
  BY <1>3, <1>4 DEF Injection, IsInjective
<1>6. IsFiniteSet(OnPage) /\ Cardinality(OnPage) <= Cardinality(T)
  <2> HIDE DEF T, f
  <2>1. QED
    BY <1>2, <1>5, FS_Injection
<1>7. QED
  BY <1>1, <1>2, <1>6, FS_CardinalityType
-------------------------------------------------------------------------------
(* What the index lacks is due or left behind. *)

(* A change of one file that pushes no file back over a page boundary but   *)
(* for those in lost.                                                       *)
LEMMA EditCInv ==
  ASSUME TInv, CInv, NEW fs, NEW n \in Nodes, NEW lost, Edit(fs, n, lost),
         DOMAIN fs \in {DOMAIN files \union {n}, DOMAIN files \ {n}},
         \A m \in DOMAIN files \ {n} : fs[m] = files[m],
         n \in DOMAIN fs => n \in lost \/ (pc = "idle" /\ fs[n].sec >= newest),
         Slid(fs) \ {n} \subseteq lost
  PROVE  CInv'
<1>1. /\ files' = fs /\ behind' = ((behind \ {n}) \union lost) \intersect DOMAIN fs
      /\ UNCHANGED <<pc, since, offset, page, more, newest, index>>
  BY DEF Edit, pageVars, indexVars
<1>2. Outdated'
  BY <1>1 DEF CInv, Outdated, TInv, NoPage
<1>3. Ahead(files)' = Ahead(fs)
  BY <1>1 DEF Ahead, NextOffset
<1>4. ASSUME NEW m \in DOMAIN fs PROVE Current(m)' \/ m \in Due' \/ m \in behind'
  <2>1. CASE m = n
    BY <1>1, <1>4, <2>1 DEF Due
  <2>2. CASE m # n
    <3>1. m \in DOMAIN files /\ fs[m] = files[m]
      BY <1>4, <2>2
    <3>2. CASE Current(m)
      BY <1>1, <3>1, <3>2 DEF Current
    <3>3. CASE m \in behind
      BY <1>1, <1>4, <2>2, <3>3
    <3>4. CASE m \in Due
      <4>1. CASE pc = "idle"
        BY <1>1, <1>4, <3>1, <3>4, <4>1 DEF Due
      <4>2. CASE pc # "idle" /\ m \in Ahead(files)
        <5>1. m \in Ahead(fs) \/ m \in lost
          BY <2>2, <4>2 DEF Slid
        <5>2. QED
          BY <1>1, <1>3, <1>4, <4>2, <5>1 DEF Due
      <4>3. CASE pc # "idle" /\ m \in DOMAIN page /\ page[m] = files[m]
        BY <1>1, <1>4, <3>1, <4>3 DEF Due
      <4>4. QED
        BY <3>4, <4>1, <4>2, <4>3 DEF Due
    <3>5. QED
      BY <3>1, <3>2, <3>3, <3>4 DEF CInv, CurrentOrDue
  <2>3. QED
    BY <2>1, <2>2
<1>5. QED
  BY <1>1, <1>2, <1>4 DEF CInv, CurrentOrDue

(* A file that is added, or gets a later stamp at the same path, pushes no  *)
(* other file back.                                                         *)
LEMMA NoSlide ==
  ASSUME TInv, NEW n \in Nodes, NEW f \in Facts,
         since = 0 \/ f.sec >= since \/ n \notin Kept(files, since),
         n \in DOMAIN files => f.path = files[n].path
  PROVE  Slid(With(n, f)) \ {n} = {}
<1> DEFINE fs == With(n, f)
<1>1. /\ DOMAIN fs = DOMAIN files \union {n} /\ fs[n] = f
      /\ \A m \in DOMAIN files \ {n} : fs[m] = files[m]
  BY DEF With
<1> HIDE DEF fs
<1>2. IsFiniteSet(DOMAIN fs) /\ \A m \in DOMAIN fs : fs[m].path \in Nat
  <2>1. DOMAIN fs \in SUBSET Nodes
    BY <1>1 DEF TInv, TypeOK
  <2>2. f.path \in Nat
    BY CorpusCrawlAssumption DEF Facts
  <2>3. QED
    BY <1>1, <2>1, <2>2, FilesFinite, FS_Subset, CorpusCrawlAssumption
<1>3. Kept(files, since) \subseteq Kept(fs, since)
  BY <1>1 DEF Kept
<1>4. ASSUME NEW m \in Kept(files, since), m # n
      PROVE  /\ m \in Kept(fs, since) /\ Rank(files, since, m) \in Nat
             /\ Rank(fs, since, m) \in Nat /\ Rank(files, since, m) <= Rank(fs, since, m)
  <2> DEFINE R == {x \in Kept(files, since) : files[x].path <= files[m].path}
             Q == {x \in Kept(fs, since) : fs[x].path <= fs[m].path}
  <2>1. R \in SUBSET Q
    BY <1>1, <1>3, <1>4 DEF Kept
  <2>2. Rank(files, since, m) = Cardinality(R) /\ Rank(fs, since, m) = Cardinality(Q)
    BY DEF Rank
  <2>3. Q \in SUBSET Kept(fs, since)
    OBVIOUS
  <2> HIDE DEF R, Q
  <2>4. IsFiniteSet(Q) /\ IsFiniteSet(R) /\ Cardinality(R) <= Cardinality(Q)
    BY <1>2, <2>1, <2>3, RankBound, FS_Subset
  <2>5. QED
    BY <1>3, <2>2, <2>4, FS_CardinalityType
<1>5. offset \in Nat
  BY DEF TInv, TypeOK
<1>6. pc = "page" => NextOffset \in Nat
  <2>1. IsFiniteSet(DOMAIN page)
    BY FS_Subset, CorpusCrawlAssumption DEF TInv, TypeOK
  <2>2. QED
    BY <1>5, <2>1, FS_CardinalityType DEF NextOffset
<1>7. ASSUME NEW m \in Ahead(files), m # n PROVE m \in Ahead(fs)
  BY <1>4, <1>5, <1>6, <1>7 DEF Ahead
<1>8. QED
  BY <1>7 DEF Slid, fs
LEMMA WithCInv ==
  ASSUME TInv, CInv, NEW n \in Nodes, NEW f, NEW lost, Edit(With(n, f), n, lost),
         n \in lost \/ (pc = "idle" /\ f.sec >= newest),
         Slid(With(n, f)) \ {n} \subseteq lost
  PROVE  CInv'
<1> DEFINE fs == With(n, f)
<1>1. /\ DOMAIN fs = DOMAIN files \union {n} /\ fs[n] = f
      /\ \A m \in DOMAIN files \ {n} : fs[m] = files[m]
  BY DEF With
<1>2. Edit(fs, n, lost) /\ Slid(fs) \ {n} \subseteq lost
  OBVIOUS
<1> HIDE DEF fs
<1>3. QED
  BY <1>1, <1>2, EditCInv

LEMMA WithoutCInv ==
  ASSUME TInv, CInv, NEW n \in Nodes, Edit(Without(n), n, Slid(Without(n)))
  PROVE  CInv'
<1> DEFINE fs == Without(n)
<1>1. DOMAIN fs = DOMAIN files \ {n} /\ \A m \in DOMAIN files \ {n} : fs[m] = files[m]
  BY DEF Without
<1>2. Edit(fs, n, Slid(fs))
  OBVIOUS
<1> HIDE DEF fs
<1>3. QED
  BY <1>1, <1>2, EditCInv

LEMMA EditsCInv ==
  ASSUME TInv, CInv, NEW n \in Nodes,
         \/ \E p \in Paths : Add(n, p) \/ Rename(n, p)
         \/ Write(n) \/ Annotate(n) \/ Delete(n)
         \/ \E p \in Paths, sec \in 1..MaxClock : Merge(n, p, sec)
         \/ MergeDelete(n)
  PROVE  CInv'
<1>0. /\ Stamp \in 0..MaxClock /\ newest \in 0..MaxClock /\ since \in 0..MaxClock
      /\ pc \in {"idle", "crawl", "page"}
  BY DEF TInv, TypeOK, Stamp
<1>1. ASSUME NEW p \in Paths, Add(n, p) PROVE CInv'
  <2>1. n \notin DOMAIN files /\ edits < MaxEdits /\ Edit(With(n, File(p, Stamp)), n, Unseen(n))
    BY <1>1 DEF TInv, TypeOK, Add, Edit
  <2>2. File(p, Stamp) \in Facts /\ File(p, Stamp).sec = Stamp
    BY <1>0, <2>1, FileType DEF TInv
  <2>3. n \in Unseen(n) \/ (pc = "idle" /\ File(p, Stamp).sec >= newest)
    BY <1>0, <1>1, <2>2 DEF Add, Unseen
  <2>4. Slid(With(n, File(p, Stamp))) \ {n} = {}
    BY <2>1, <2>2, NoSlide DEF Kept
  <2>5. QED
    BY <2>1, <2>3, <2>4, WithCInv
<1>2. ASSUME NEW p \in Paths, Rename(n, p) PROVE CInv'
  BY <1>2, WithCInv DEF Rename
<1>3. CASE Write(n)
  <2> DEFINE p == files[n].path
             lost == Unseen(n) \union (IF Stamp < since THEN Slid(With(n, File(p, Stamp))) ELSE {})
  <2>1. n \in DOMAIN files /\ edits < MaxEdits /\ p \in Paths
        /\ Edit(With(n, File(p, Stamp)), n, lost)
    BY <1>3 DEF TInv, TypeOK, Facts, Write, Edit
  <2>2. File(p, Stamp) \in Facts /\ File(p, Stamp).sec = Stamp /\ File(p, Stamp).path = p
    BY <1>0, <2>1, FileType DEF TInv
  <2>3. n \in lost \/ (pc = "idle" /\ File(p, Stamp).sec >= newest)
    BY <1>0, <1>3, <2>2 DEF Write, Unseen
  <2>4. Slid(With(n, File(p, Stamp))) \ {n} \subseteq lost
    <3>1. CASE Stamp >= since
      BY <1>0, <2>2, <3>1, NoSlide
    <3>2. CASE Stamp < since
      BY <3>2
    <3>3. QED
      BY <1>0, <3>1, <3>2
  <2> HIDE DEF lost
  <2>5. QED
    BY <2>1, <2>3, <2>4, WithCInv
<1>4. CASE Annotate(n)
  <2> DEFINE f == [files[n] EXCEPT !.ver = edits + 1]
  <2>1. n \in DOMAIN files /\ edits < MaxEdits /\ edits \in 0..MaxEdits
        /\ Edit(With(n, f), n, {n})
    BY <1>4 DEF TInv, TypeOK, Annotate, Edit
  <2>2. f \in Facts /\ f.sec = files[n].sec /\ f.path = files[n].path
    BY <2>1, CorpusCrawlAssumption DEF TInv, TypeOK, Facts
  <2> HIDE DEF f
  <2>3. Slid(With(n, f)) \ {n} = {}
    BY <2>1, <2>2, NoSlide DEF Kept
  <2>4. QED
    BY <2>1, <2>3, WithCInv
<1>5. CASE Delete(n) \/ MergeDelete(n)
  BY <1>5, WithoutCInv DEF Delete, MergeDelete
<1>6. ASSUME NEW p \in Paths, NEW sec \in 1..MaxClock, Merge(n, p, sec) PROVE CInv'
  BY <1>6, WithCInv DEF Merge
<1>7. QED
  BY <1>1, <1>2, <1>3, <1>4, <1>5, <1>6

LEMMA StartCInv == ASSUME TInv, CInv, NEW l \in Limits, StartCrawl(l) PROVE CInv'
<1>1. ASSUME NEW n \in DOMAIN files, pc = "idle", n \in Due PROVE n \in Due'
  <2>1. n \in Kept(files, newest)
    BY <1>1 DEF Due, Kept
  <2>2. Rank(files, newest, n) > 0
    BY <2>1, FilesFinite, RankBound
  <2>3. QED
    BY <2>1, <2>2 DEF StartCrawl, driveVars, indexVars, Due, Ahead
<1>2. QED
  BY <1>1 DEF StartCrawl, driveVars, indexVars, CInv, Outdated, CurrentOrDue, Current

LEMMA CollectCInv == ASSUME TInv, CInv, Collect PROVE CInv'
<1>1. /\ pc = "crawl" /\ pc' = "page" /\ UNCHANGED <<files, since, offset, index, behind>>
      /\ DOMAIN page' = OnPage /\ \A n \in OnPage : page'[n] = files[n]
      /\ more' = (offset + Cardinality(OnPage) < Cardinality(Kept(files, since)))
  BY DEF Collect, driveVars, indexVars
<1>2. Outdated'
  BY <1>1 DEF Outdated
<1>3. ASSUME NEW n \in DOMAIN files, n \in Due PROVE n \in Due'
  <2>1. n \in Kept(files, since) /\ Rank(files, since, n) > offset
    BY <1>1, <1>3 DEF Due, Ahead, TInv, NoPage
  <2>2. CASE n \in OnPage
    BY <1>1, <2>2 DEF Due
  <2>3. CASE n \notin OnPage
    <3>1. /\ Rank(files, since, n) \in 1..Cardinality(Kept(files, since)) /\ offset \in Nat
          /\ Cardinality(Kept(files, since)) \in Nat
      BY <2>1, FilesFinite, RankBound DEF TInv, TypeOK
    <3>2. Rank(files, since, n) > offset + Clamp(limit)
      BY <2>1, <2>3, <3>1, PageSize DEF OnPage
    <3>3. Rank(files, since, n) > offset + Cardinality(OnPage)
      BY <3>1, <3>2, PageSize
    <3>4. Cardinality(OnPage) \in Nat /\ offset + Cardinality(OnPage) < Cardinality(Kept(files, since))
      BY <3>1, <3>3, PageSize
    <3>5. more' /\ NextOffset' = offset + Cardinality(OnPage)
      BY <1>1, <3>4 DEF NextOffset
    <3>6. n \in Ahead(files)'
      BY <1>1, <2>1, <3>3, <3>5 DEF Ahead, Kept, Rank
    <3>7. QED
      BY <1>1, <3>6 DEF Due
  <2>4. QED
    BY <2>2, <2>3
<1>4. QED
  BY <1>1, <1>2, <1>3 DEF CInv, CurrentOrDue, Current

LEMMA ReplyCInv == ASSUME TInv, CInv, Reply PROVE CInv'
<1>1. /\ pc = "page" /\ UNCHANGED <<files, since>> /\ DOMAIN page' = {}
      /\ DOMAIN texts = DOMAIN page
      /\ \A n \in DOMAIN page : n \in DOMAIN index'
                              /\ index'[n] = [facts |-> page[n], text |-> texts[n]]
      /\ \A n \in DOMAIN index \ DOMAIN page : n \in DOMAIN index' /\ index'[n] = index[n]
      /\ \A n \in DOMAIN files : n \in behind' <=>
            IF n \in DOMAIN page /\ page[n] = files[n] THEN texts[n] = Unextracted
            ELSE n \in behind
  BY EmptyDomain DEF Reply
<1>2. more => pc' = "crawl" /\ offset' = NextOffset
  BY DEF Reply
<1>3. ASSUME NEW n \in DOMAIN files PROVE Current(n)' \/ n \in Due' \/ n \in behind'
  <2>1. CASE n \in DOMAIN page /\ page[n] = files[n]
    <3>1. /\ n \in DOMAIN index' /\ index'[n] = [facts |-> page[n], text |-> texts[n]]
          /\ texts[n] \in {page[n].doc, Unextracted}
          /\ n \in behind' <=> texts[n] = Unextracted
      BY <1>1, <2>1 DEF TInv, TextsOfOneState
    <3>2. index'[n].facts = files[n] /\ index'[n].text = texts[n]
      BY <2>1, <3>1
    <3>3. QED
      BY <1>1, <2>1, <3>1, <3>2 DEF Current
  <2>2. CASE n \in DOMAIN page /\ page[n] # files[n]
    BY <1>1, <2>2 DEF CInv, Outdated
  <2>3. CASE n \notin DOMAIN page
    <3>1. CASE Current(n)
      BY <1>1, <2>3, <3>1 DEF Current
    <3>2. CASE n \in Due
      BY <1>1, <1>2, <2>3, <3>2 DEF Due, Ahead
    <3>3. QED
      BY <1>1, <2>3, <3>1, <3>2 DEF CInv, CurrentOrDue
  <2>4. QED
    BY <2>1, <2>2, <2>3
<1>4. QED
  BY <1>1, <1>3 DEF CInv, CurrentOrDue, Outdated

LEMMA CStep == ASSUME TInv, CInv, [Next]_vars PROVE CInv'
<1>1. CASE UNCHANGED vars \/ (\E t \in 1..MaxClock : ClockSet(t)) \/ \E n \in Nodes : Extract(n)
  <2>1. UNCHANGED <<files, behind, pc, since, offset, page, more, newest, index>>
    BY <1>1 DEF vars, driveVars, pageVars, indexVars, ClockSet, Extract
  <2>2. /\ Due' = Due /\ Outdated' = Outdated
        /\ \A n : Current(n)' = Current(n)
    BY <2>1 DEF Due, Ahead, Kept, Rank, NextOffset, Outdated, Current
  <2>3. QED
    BY <2>1, <2>2 DEF CInv, CurrentOrDue
<1>2. CASE \E n \in Nodes, p \in Paths : Add(n, p) \/ Rename(n, p)
  BY <1>2, EditsCInv
<1>3. CASE \E n \in Nodes : Write(n) \/ Annotate(n) \/ Delete(n) \/ MergeDelete(n)
  BY <1>3, EditsCInv
<1>4. CASE \E n \in Nodes, p \in Paths, sec \in 1..MaxClock : Merge(n, p, sec)
  BY <1>4, EditsCInv
<1>5. CASE (\E l \in Limits : StartCrawl(l)) \/ Collect \/ Reply
  BY <1>5, StartCInv, CollectCInv, ReplyCInv
<1>6. QED
  BY <1>1, <1>2, <1>3, <1>4, <1>5 DEF Next

LEMMA CInit == Init => CInv
<1> SUFFICES ASSUME Init PROVE CInv
  OBVIOUS
<1>1. DOMAIN page = {} /\ pc = "idle" /\ newest = 0 /\ \A n \in DOMAIN files : files[n].sec = 1
  BY EmptyDomain DEF Init
<1>2. QED
  BY <1>1 DEF CInv, Outdated, CurrentOrDue, Due

-------------------------------------------------------------------------------
LEMMA Invariance == Spec => [](TInv /\ CInv)
<1>1. Init => TInv /\ CInv
  BY TInit, CInit
<1>2. TInv /\ CInv /\ [Next]_vars => (TInv /\ CInv)'
  BY TStep, CStep
<1>3. QED
  BY <1>1, <1>2, PTL DEF Spec

(* The variables stay in their types: among them, no stamp is in other      *)
(* units than the clock, and every text belongs to a file of the page.      *)
THEOREM TypeCorrect == Spec => []TypeOK
<1>1. TInv /\ CInv => TypeOK
  BY DEF TInv
<1>2. QED
  BY <1>1, Invariance, PTL

(* op_items and extract_node never mix two states of a file in one item.    *)
THEOREM ItemsAreOfOneState == Spec => []ItemsOfOneState
<1>1. TInv /\ CInv => ItemsOfOneState
  BY DEF TInv
<1>2. QED
  BY <1>1, Invariance, PTL

(* op_items and changed_since, whatever the pages are, whatever changes     *)
(* between and during them and whatever the clocks of the devices show:     *)
(* no file falls out of the crawl but for the causes CurrentOrDue names.    *)
THEOREM CrawlForgetsNothing == Spec => []CurrentOrDue
<1>1. TInv /\ CInv => CurrentOrDue
  BY DEF CInv
<1>2. QED
  BY <1>1, Invariance, PTL

-------------------------------------------------------------------------------
(* A crawl advances. *)

(* Every place of the filtered walk has its file. *)
LEMMA RankOnto ==
  ASSUME TInv, NEW k \in 1..Cardinality(Kept(files, since))
  PROVE  \E n \in Kept(files, since) : Rank(files, since, n) = k
<1> DEFINE K == Kept(files, since)
           T == 1..Cardinality(K)
           f == [n \in K |-> Rank(files, since, n)]
<1>1. IsFiniteSet(K) /\ Cardinality(K) \in Nat
  BY FilesFinite, FS_Subset, FS_CardinalityType DEF Kept
<1>2. IsFiniteSet(T) /\ Cardinality(T) = Cardinality(K)
  BY <1>1, FS_Interval
<1>3. f \in [K -> T]
  BY FilesFinite, RankBound
<1>4. f \in Injection(K, T)
  BY <1>3, RankDistinct DEF Injection, IsInjective
<1>5. f \in Surjection(K, T)
  <2> HIDE DEF K, T, f
  <2>1. QED
    BY <1>1, <1>2, <1>4, FS_Injection
<1>6. QED
  BY <1>5 DEF Surjection

(* A page that announces another holds a file. *)
MorePage == pc = "page" /\ more => DOMAIN page # {}

LEMMA CollectMorePage == ASSUME TInv, Collect, more' PROVE DOMAIN page' # {}
<1>1. DOMAIN page' = OnPage /\ offset + Cardinality(OnPage) < Cardinality(Kept(files, since))
  BY DEF Collect
<1>2. SUFFICES ASSUME OnPage = {} PROVE FALSE
  BY <1>1
<1>3. offset \in Nat /\ Cardinality(Kept(files, since)) \in Nat
  BY FilesFinite, FS_Subset, FS_CardinalityType DEF TInv, TypeOK, Kept
<1>4. offset + 1 \in 1..Cardinality(Kept(files, since))
  BY <1>1, <1>2, <1>3, FS_EmptySet
<1>5. PICK n \in Kept(files, since) : Rank(files, since, n) = offset + 1
  BY <1>4, RankOnto
<1>6. Clamp(limit) \in Nat /\ Clamp(limit) >= 1
  BY CorpusCrawlAssumption DEF TInv, TypeOK, Clamp
<1>7. n \in OnPage
  BY <1>3, <1>5, <1>6 DEF OnPage
<1>8. QED
  BY <1>2, <1>7

LEMMA MorePageStep == TInv /\ MorePage /\ [Next]_vars => MorePage'
<1> SUFFICES ASSUME TInv, MorePage, [Next]_vars PROVE MorePage'
  OBVIOUS
<1>1. CASE Collect
  BY <1>1, CollectMorePage DEF MorePage
<1>2. CASE Reply \/ \E l \in Limits : StartCrawl(l)
  BY <1>2 DEF MorePage, Reply, StartCrawl
<1>3. CASE UNCHANGED <<pc, page, more>>
  BY <1>3 DEF MorePage
<1>4. UNCHANGED vars \/ (\E t \in 1..MaxClock : ClockSet(t)) => UNCHANGED <<pc, page, more>>
  BY DEF vars, pageVars, ClockSet
<1>5. ASSUME NEW n \in Nodes, Extract(n) PROVE UNCHANGED <<pc, page, more>>
  BY <1>5 DEF Extract
<1>6. ASSUME NEW fs, NEW n, NEW lost, Edit(fs, n, lost) PROVE UNCHANGED <<pc, page, more>>
  BY <1>6 DEF Edit, pageVars
<1>7. ASSUME NEW n \in Nodes, NEW p \in Paths, Add(n, p) \/ Rename(n, p)
      PROVE  UNCHANGED <<pc, page, more>>
  BY <1>6, <1>7 DEF Add, Rename
<1>8. ASSUME NEW n \in Nodes, Write(n) \/ Annotate(n) \/ Delete(n) \/ MergeDelete(n)
      PROVE  UNCHANGED <<pc, page, more>>
  BY <1>6, <1>8 DEF Write, Annotate, Delete, MergeDelete
<1>9. ASSUME NEW n \in Nodes, NEW p \in Paths, NEW sec \in 1..MaxClock, Merge(n, p, sec)
      PROVE  UNCHANGED <<pc, page, more>>
  BY <1>6, <1>9 DEF Merge
<1>10. QED
  BY <1>1, <1>2, <1>3, <1>4, <1>5, <1>7, <1>8, <1>9 DEF Next

(* op_items never announces a page it would answer with the same offset: a  *)
(* clamped limit and a place for every rank make each page but the last     *)
(* hold a file, and nothing that happens during its extraction changes it.  *)
THEOREM OffsetAdvances == Spec => CrawlAdvances
<1>1. Spec => []MorePage
  <2>1. Init => MorePage
    BY DEF Init, MorePage
  <2>2. TInv /\ CInv => TInv
    OBVIOUS
  <2>3. QED
    BY <2>1, <2>2, MorePageStep, Invariance, PTL DEF Spec
<1>2. ASSUME TInv, MorePage, Reply, more PROVE offset' > offset
  <2>1. offset' = NextOffset /\ DOMAIN page # {} /\ offset \in Nat
    BY <1>2 DEF Reply, MorePage, TInv, TypeOK
  <2>2. IsFiniteSet(DOMAIN page)
    BY <1>2, FS_Subset, CorpusCrawlAssumption DEF TInv, TypeOK
  <2>3. Cardinality(DOMAIN page) \in Nat /\ Cardinality(DOMAIN page) # 0
    BY <2>1, <2>2, FS_CardinalityType, FS_EmptySet
  <2>4. QED
    BY <2>1, <2>3 DEF NextOffset
<1>3. (TInv /\ CInv) /\ MorePage /\ [Next]_vars => [Reply /\ more => offset' > offset]_vars
  BY <1>2
<1>4. QED
  BY <1>1, <1>3, Invariance, PTL DEF Spec, CrawlAdvances
===============================================================================
