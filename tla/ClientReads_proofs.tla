-------------------------- MODULE ClientReads_proofs --------------------------
(***************************************************************************)
(* Proofs about the two reads a client does in several steps while others  *)
(* change the drive.  Listing, for any set of names and any page limits: a *)
(* listing gives every name that stays bound, once.  RangedRead, for any   *)
(* sizes of objects and chunks and any width of the numbers: a read that   *)
(* succeeds returns the range it was asked for.                            *)
(***************************************************************************)
EXTENDS Listing, RangedRead, FiniteSetTheorems, SequenceTheorems,
        WellFoundedInduction, TLAPS

-------------------------------------------------------------------------------
(* Lemmas on finite sets of numbers. *)

(* A finite set of numbers that is not empty has a greatest element: of the *)
(* sets of elements above one of its elements, take a minimal one.          *)
LEMMA GreatestExists ==
  ASSUME NEW S \in SUBSET Nat, IsFiniteSet(S), S # {}
  PROVE  \E x \in S : \A y \in S : y <= x
<1> DEFINE Above(x) == {y \in S : y > x}
           T == {Above(x) : x \in S}
<1>1. IsWellFoundedOn(StrictSubsetOrdering(S), FiniteSubsetsOf(S))
  BY FS_StrictSubsetOrderingWellFounded
<1>2. ASSUME NEW x \in S PROVE Above(x) \in SUBSET S /\ IsFiniteSet(Above(x))
  BY FS_Subset
<1>3. T \subseteq FiniteSubsetsOf(S)
  BY <1>2 DEF FiniteSubsetsOf
<1>4. T # {}
  OBVIOUS
<1>5. PICK u \in T : \A v \in T : ~ (<<v, u>> \in StrictSubsetOrdering(S))
  <2> HIDE DEF T
  <2> QED BY <1>1, <1>3, <1>4, WFMin
<1>6. PICK x \in S : u = Above(x)
  BY <1>5
<1>7. ASSUME NEW y \in S, y > x PROVE FALSE
  <2>1. ASSUME NEW z \in Above(y) PROVE z \in Above(x)
    <3>1. x \in Nat /\ y \in Nat /\ z \in Nat /\ z > y
      OBVIOUS
    <3> QED BY <1>7, <3>1
  <2>2. y \in Above(x) /\ y \notin Above(y)
    BY <1>7
  <2>3. <<Above(y), Above(x)>> \in StrictSubsetOrdering(S)
    BY <2>1, <2>2 DEF StrictSubsetOrdering
  <2> QED BY <2>3, <1>5, <1>6
<1> QED BY <1>7

(* A set of numbers that is not empty has a least element. *)
LEMMA LeastExists ==
  ASSUME NEW S \in SUBSET Nat, S # {}
  PROVE  \E x \in S : \A y \in S : x <= y
<1>1. PICK x \in S : \A y \in S : ~ (<<y, x>> \in OpToRel(<, Nat))
  BY NatLessThanWellFounded, WFMin
<1>2. \A y \in S : ~ (y < x)
  BY <1>1 DEF OpToRel
<1> QED BY <1>2

-------------------------------------------------------------------------------
(* Listing: lemmas on one page. *)

(* The names up to n among those after the cursor. *)
UpTo(n) == {m \in AfterCursor : m <= n}

LEMMA AfterCursorFinite ==
  ASSUME TypeOK
  PROVE  /\ AfterCursor \subseteq Names /\ AfterCursor \subseteq Nat
         /\ IsFiniteSet(AfterCursor)
<1>1. AfterCursor \subseteq Names
  BY DEF TypeOK, AfterCursor
<1> QED BY <1>1, FS_Subset, ListingAssumption

(* A page is not empty as long as names are left, and all its names come    *)
(* before those it leaves.                                                  *)
LEMMA PageIsFirst ==
  ASSUME TypeOK, NEW limit \in Nat
  PROVE  /\ Page(limit) \subseteq AfterCursor
         /\ AfterCursor # {} => Page(limit) # {}
         /\ \A n \in Page(limit), m \in AfterCursor \ Page(limit) : n < m
<1> USE AfterCursorFinite
<1>1. AtLeastOne(limit) \in Nat /\ AtLeastOne(limit) >= 1
  BY DEF AtLeastOne
<1>2. Page(limit) = {n \in AfterCursor : Cardinality(UpTo(n)) <= AtLeastOne(limit)}
  BY DEF Page, UpTo
<1>3. ASSUME NEW n \in AfterCursor
      PROVE  IsFiniteSet(UpTo(n)) /\ Cardinality(UpTo(n)) \in Nat
  BY FS_Subset, FS_CardinalityType DEF UpTo
<1>4. ASSUME AfterCursor # {} PROVE Page(limit) # {}
  <2>1. PICK n \in AfterCursor : \A m \in AfterCursor : n <= m
    BY <1>4, LeastExists
  <2>2. UpTo(n) = {n}
    BY <2>1 DEF UpTo
  <2>3. Cardinality(UpTo(n)) = 1
    BY <2>2, FS_Singleton
  <2> QED BY <2>3, <1>1, <1>2
<1>5. ASSUME NEW n \in Page(limit), NEW m \in AfterCursor \ Page(limit), ~ (n < m)
      PROVE  FALSE
  <2>1. n \in AfterCursor /\ Cardinality(UpTo(n)) <= AtLeastOne(limit)
    BY <1>2
  <2>2. UpTo(m) \in SUBSET UpTo(n)
    BY <1>5, <2>1 DEF UpTo
  <2>3. Cardinality(UpTo(m)) <= Cardinality(UpTo(n))
    BY <2>1, <2>2, <1>3, FS_Subset
  <2>4. Cardinality(UpTo(m)) <= AtLeastOne(limit)
    BY <2>1, <2>3, <1>1, <1>3
  <2> QED BY <2>4, <1>2
<1>6. \A n \in Page(limit), m \in AfterCursor \ Page(limit) : n < m
  BY <1>5
<1> QED BY <1>2, <1>4, <1>6

(* The name of the last entry of a page is the greatest on it. *)
LEMMA LastNameIsGreatest ==
  ASSUME NEW page \in SUBSET Nat, IsFiniteSet(page), page # {}
  PROVE  LastName(page) \in page /\ \A m \in page : m <= LastName(page)
BY GreatestExists DEF LastName

-------------------------------------------------------------------------------
(* Listing: the inductive invariant. *)

(* While the client pages, what it was given is at or before the cursor,    *)
(* and what was bound all the time is given or still after it.              *)
Paged ==
  listing => /\ \A n \in got : n <= cursor
             /\ \A n \in steady : n \in got \/ n > cursor

IInv == TypeOK /\ ListingWhole /\ Paged

LEMMA InitInv == Init => IInv
BY DEF Init, IInv, TypeOK, ListingWhole, Paged

(* A change of the directory only takes names from steady. *)
LEMMA ChangeInv ==
  ASSUME IInv, NEW names \in SUBSET Names, Change(names)
  PROVE  IInv'
BY DEF IInv, TypeOK, ListingWhole, Paged, Change

LEMMA StartInv ==
  ASSUME IInv, StartList
  PROVE  IInv'
BY ListingAssumption DEF IInv, TypeOK, ListingWhole, Paged, StartList

(* A page: nothing on it was given before, and what it leaves is after the  *)
(* new cursor.                                                              *)
LEMMA PageInv ==
  ASSUME IInv, NEW limit \in Limits, ListPage(limit)
  PROVE  IInv'
<1> DEFINE page == Page(limit)
           more == page # AfterCursor /\ page # {}
<1>1. TypeOK /\ limit \in Nat
  BY ListingAssumption DEF IInv
<1>2. /\ page \subseteq AfterCursor
      /\ AfterCursor # {} => page # {}
      /\ \A n \in page, m \in AfterCursor \ page : n < m
  BY <1>1, PageIsFirst
<1>3. /\ AfterCursor \subseteq Names /\ AfterCursor \subseteq Nat
      /\ IsFiniteSet(AfterCursor)
  BY <1>1, AfterCursorFinite
<1>4. /\ listing /\ got' = got \union page
      /\ twice' = twice \union (got \intersect page)
      /\ listing' = more
      /\ cursor' = IF more THEN LastName(page) ELSE 0
      /\ bound' = bound /\ steady' = steady
  BY DEF ListPage
<1>5. more => LastName(page) \in page /\ \A m \in page : m <= LastName(page)
  <2>1. page \in SUBSET Nat /\ IsFiniteSet(page)
    BY <1>2, <1>3, FS_Subset
  <2> QED BY <2>1, LastNameIsGreatest
<1>6. cursor \in Nat /\ got \subseteq Nat /\ steady \subseteq Nat
  BY <1>1, ListingAssumption DEF TypeOK
<1>7. (\A n \in got : n <= cursor) /\ (\A n \in steady : n \in got \/ n > cursor)
  BY <1>4 DEF IInv, Paged
<1>8. \A n \in AfterCursor : n \in bound /\ n > cursor
  BY DEF AfterCursor
<1>9. \A n \in steady : n \in got \/ n \in AfterCursor
  BY <1>1, <1>7 DEF AfterCursor, TypeOK
<1> HIDE DEF page, more
<1>10. got \intersect page = {}
  BY <1>2, <1>3, <1>6, <1>7, <1>8
<1>11. TypeOK'
  BY <1>1, <1>2, <1>3, <1>4, <1>5 DEF TypeOK, more
<1>12. more => \A n \in got' : n <= cursor'
  <2> SUFFICES ASSUME more, NEW n \in got' PROVE n <= cursor'
    OBVIOUS
  <2>1. cursor' = LastName(page) /\ LastName(page) \in page
    BY <1>4, <1>5
  <2>2. CASE n \in page
    BY <2>1, <2>2, <1>5
  <2>3. CASE n \in got
    <3>1. n <= cursor /\ cursor < LastName(page)
      BY <2>1, <2>3, <1>2, <1>7, <1>8
    <3>2. n \in Nat /\ LastName(page) \in Nat
      BY <2>1, <2>3, <1>2, <1>3, <1>6
    <3>3. n <= LastName(page)
      BY <3>1, <3>2, <1>6
    <3> QED BY <2>1, <3>3
  <2> QED BY <2>2, <2>3, <1>4
<1>13. more => \A n \in steady' : n \in got' \/ n > cursor'
  BY <1>2, <1>4, <1>5, <1>9
<1>14. ~more => page = AfterCursor
  BY <1>2 DEF more
<1>15. ListingWhole'
  BY <1>4, <1>9, <1>10, <1>14 DEF IInv, ListingWhole
<1> QED BY <1>4, <1>11, <1>12, <1>13, <1>15 DEF IInv, Paged

LEMMA NextInv == IInv /\ [Next]_vars => IInv'
<1> SUFFICES ASSUME IInv, [Next]_vars PROVE IInv'
  OBVIOUS
<1>1. bound \subseteq Names
  BY DEF IInv, TypeOK
<1>2. ASSUME NEW n \in Names, Bind(n) PROVE IInv'
  BY <1>1, <1>2, ChangeInv DEF Bind
<1>3. ASSUME NEW n \in Names, Unbind(n) PROVE IInv'
  BY <1>1, <1>3, ChangeInv DEF Unbind
<1>4. ASSUME NEW from \in Names, NEW to \in Names, Rename(from, to) PROVE IInv'
  BY <1>1, <1>4, ChangeInv DEF Rename
<1>5. CASE StartList
  BY <1>5, StartInv
<1>6. ASSUME NEW limit \in Limits, ListPage(limit) PROVE IInv'
  BY <1>6, PageInv
<1>7. CASE UNCHANGED vars
  BY <1>7 DEF vars, IInv, TypeOK, ListingWhole, Paged
<1> QED BY <1>2, <1>3, <1>4, <1>5, <1>6, <1>7 DEF Next

THEOREM Invariance == Spec => []IInv
BY InitInv, NextInv, PTL DEF Spec

(* The types, for any names and limits. *)
THEOREM TypeCorrect == Spec => []TypeOK
<1>1. IInv => TypeOK
  BY DEF IInv
<1> QED BY <1>1, Invariance, PTL

(* op_list paged to its end gives every name that stayed bound, and no name *)
(* twice, for any directory, any changes between the pages and any limits.  *)
THEOREM ListsWhole == Spec => []ListingWhole
<1>1. IInv => ListingWhole
  BY DEF IInv
<1> QED BY <1>1, Invariance, PTL

(* op_list never answers a page with the cursor it was asked with, or an    *)
(* earlier one, so a client that pages on does not go round in circles.     *)
THEOREM CursorAdvances == Spec => PagesAdvance
<1>1. ASSUME TypeOK, NEW limit \in Limits, ListPage(limit), listing'
      PROVE  cursor' > cursor
  <2> DEFINE page == Page(limit)
  <2>1. page # {} /\ cursor' = LastName(page)
    BY <1>1 DEF ListPage
  <2>2. page \subseteq AfterCursor /\ AfterCursor \subseteq Nat /\ IsFiniteSet(AfterCursor)
    BY <1>1, PageIsFirst, AfterCursorFinite, ListingAssumption
  <2>3. page \in SUBSET Nat /\ IsFiniteSet(page)
    BY <2>2, FS_Subset
  <2>4. LastName(page) \in page
    BY <2>1, <2>3, LastNameIsGreatest
  <2>5. LastName(page) > cursor
    BY <2>2, <2>4 DEF AfterCursor
  <2> QED BY <2>1, <2>5
<1>2. TypeOK /\ [Next]_vars =>
        [(\E limit \in Limits : ListPage(limit)) /\ listing' => cursor' > cursor]_vars
  BY <1>1
<1> QED BY <1>2, TypeCorrect, PTL DEF Spec, PagesAdvance

-------------------------------------------------------------------------------
(* RangedRead: lemmas on the chunks of an object. *)

LEMMA DivisionBounds ==
  ASSUME NEW a \in Nat, NEW b \in Nat \ {0}
  PROVE  /\ a \div b \in Nat
         /\ (a \div b) * b <= a /\ a < (a \div b) * b + b
OBVIOUS

(* Of two multiples of b, the lesser ends b before the greater. *)
LEMMA MultiplesApart ==
  ASSUME NEW i \in Nat, NEW j \in Nat, NEW b \in Nat, i < j
  PROVE  i * b \in Nat /\ j * b \in Nat /\ i * b + b <= j * b
<1>1. PICK k \in Nat : j = i + 1 + k
  <2>1. j - i - 1 \in Nat /\ j = i + 1 + (j - i - 1)
    OBVIOUS
  <2> QED BY <2>1
<1>2. j * b = i * b + b + k * b /\ k * b \in Nat /\ i * b \in Nat
  BY <1>1
<1> QED BY <1>2

(* The number of chunks of a manifest. *)
Count(o) == (o.size + o.chunk - 1) \div o.chunk

LEMMA ObjectTypes ==
  ASSUME NEW o \in Objects
  PROVE  /\ o.size \in Nat /\ o.size <= MaxU /\ o.chunk \in Nat /\ o.chunk >= 1
         /\ MaxU \in Nat
<1>1. MaxU \in Nat /\ o.size \in Sizes /\ o.chunk \in ChunkSizes
  BY RangedReadAssumption DEF Objects
<1>2. o.size \in 0..MaxU /\ o.chunk \in 1..MaxU
  BY <1>1, RangedReadAssumption
<1> QED BY <1>1, <1>2

(* The chunks before the last one start before the end of the object. *)
LEMMA ChunkStarts ==
  ASSUME NEW o \in Objects
  PROVE  /\ Count(o) \in Nat
         /\ \A i \in 1..Count(o) : (i - 1) * o.chunk \in Nat /\ (i - 1) * o.chunk < o.size
         /\ o.size <= Count(o) * o.chunk
<1> USE ObjectTypes
<1>1. o.size + o.chunk - 1 \in Nat /\ o.chunk \in Nat \ {0}
  OBVIOUS
<1>2. /\ Count(o) \in Nat
      /\ Count(o) * o.chunk <= o.size + o.chunk - 1
      /\ o.size + o.chunk - 1 < Count(o) * o.chunk + o.chunk
  BY <1>1, DivisionBounds DEF Count
<1>3. Count(o) * o.chunk \in Nat
  BY <1>2
<1>4. ASSUME NEW i \in 1..Count(o)
      PROVE  (i - 1) * o.chunk \in Nat /\ (i - 1) * o.chunk < o.size
  <2>1. i - 1 \in Nat /\ i - 1 < Count(o)
    BY <1>2
  <2>2. (i - 1) * o.chunk \in Nat /\ (i - 1) * o.chunk + o.chunk <= Count(o) * o.chunk
    BY <2>1, <1>2, MultiplesApart
  <2> QED BY <2>2, <1>2, <1>3
<1> QED BY <1>2, <1>3, <1>4

(* The chunks of a manifest are not empty, lie within the object, are       *)
(* disjoint, and cover it.                                                  *)
LEMMA ManifestTiles ==
  ASSUME NEW o \in Objects
  PROVE  /\ \A c \in Manifest(o) :
              /\ c \in Chunks /\ c.offset \in Nat /\ c.len \in Nat
              /\ c.len >= 1 /\ c.offset + c.len <= o.size
         /\ \A c, d \in Manifest(o) :
              c = d \/ c.offset + c.len <= d.offset \/ d.offset + d.len <= c.offset
         /\ \A p \in 0..(o.size - 1) :
              \E c \in Manifest(o) : c.offset <= p /\ p < c.offset + c.len
<1> USE ObjectTypes
<1>1. Manifest(o) = {Chunk(o, i) : i \in 1..Count(o)}
  BY DEF Manifest, Count
<1>2. ASSUME NEW i \in 1..Count(o)
      PROVE  /\ Chunk(o, i).offset = (i - 1) * o.chunk
             /\ Chunk(o, i).offset \in Nat
             /\ Chunk(o, i).len \in Nat /\ Chunk(o, i).len >= 1
             /\ Chunk(o, i).len <= o.chunk
             /\ Chunk(o, i).offset + Chunk(o, i).len <= o.size
             /\ Chunk(o, i).len = o.chunk \/ Chunk(o, i).offset + Chunk(o, i).len = o.size
             /\ Chunk(o, i) \in Chunks
  <2> DEFINE start == (i - 1) * o.chunk
  <2>1. start \in Nat /\ start < o.size
    BY ChunkStarts
  <2>2. Chunk(o, i) = [offset |-> start, len |-> Least(o.chunk, o.size - start)]
    BY DEF Chunk
  <2> HIDE DEF start
  <2>3. /\ Chunk(o, i).offset = start
        /\ Chunk(o, i).len = IF o.chunk < o.size - start THEN o.chunk ELSE o.size - start
    BY <2>2 DEF Least
  <2>4. Chunk(o, i).offset \in U64 /\ Chunk(o, i).len \in U64
    BY <2>1, <2>3 DEF U64
  <2>5. Chunk(o, i) \in Chunks
    BY <2>2, <2>4 DEF Chunks
  <2> QED BY <2>1, <2>3, <2>5 DEF start
<1>3. ASSUME NEW i \in 1..Count(o), NEW j \in 1..Count(o), i < j
      PROVE  Chunk(o, i).offset + Chunk(o, i).len <= Chunk(o, j).offset
  <2>1. i - 1 \in Nat /\ j - 1 \in Nat /\ i - 1 < j - 1
    BY <1>3, ChunkStarts
  <2>2. (i - 1) * o.chunk + o.chunk <= (j - 1) * o.chunk
    BY <2>1, MultiplesApart
  <2>3. (i - 1) * o.chunk \in Nat /\ (j - 1) * o.chunk \in Nat
    BY ChunkStarts
  <2> QED BY <2>2, <2>3, <1>2
<1>4. ASSUME NEW i \in 1..Count(o), NEW j \in 1..Count(o)
      PROVE  \/ Chunk(o, i) = Chunk(o, j)
             \/ Chunk(o, i).offset + Chunk(o, i).len <= Chunk(o, j).offset
             \/ Chunk(o, j).offset + Chunk(o, j).len <= Chunk(o, i).offset
  <2>1. i = j \/ i < j \/ j < i
    BY ChunkStarts
  <2> QED BY <2>1, <1>3
<1>5. ASSUME NEW p \in 0..(o.size - 1)
      PROVE  \E c \in Manifest(o) : c.offset <= p /\ p < c.offset + c.len
  <2> DEFINE q == p \div o.chunk
  <2>1. p \in Nat /\ p < o.size /\ o.chunk \in Nat \ {0}
    OBVIOUS
  <2>2. q \in Nat /\ q * o.chunk <= p /\ p < q * o.chunk + o.chunk
    BY <2>1, DivisionBounds
  <2> HIDE DEF q
  <2>3. Count(o) \in Nat /\ o.size <= Count(o) * o.chunk
    BY ChunkStarts
  <2>4. q < Count(o)
    <3> SUFFICES ASSUME Count(o) <= q PROVE FALSE
      BY <2>2, <2>3
    <3>1. Count(o) = q \/ Count(o) * o.chunk + o.chunk <= q * o.chunk
      BY <2>2, <2>3, MultiplesApart
    <3>2. Count(o) * o.chunk \in Nat /\ q * o.chunk \in Nat
      BY <2>2, <2>3
    <3> QED BY <3>1, <3>2, <2>1, <2>2, <2>3
  <2>5. q + 1 \in 1..Count(o) /\ (q + 1) - 1 = q
    BY <2>2, <2>3, <2>4
  <2>6. /\ Chunk(o, q + 1).offset = q * o.chunk
        /\ \/ Chunk(o, q + 1).len = o.chunk
           \/ Chunk(o, q + 1).offset + Chunk(o, q + 1).len = o.size
    BY <2>5, <1>2
  <2>7. Chunk(o, q + 1).offset <= p /\ p < Chunk(o, q + 1).offset + Chunk(o, q + 1).len
    BY <2>1, <2>2, <2>6
  <2> QED BY <2>5, <2>7, <1>1
<1>6. \A c \in Manifest(o) : \E i \in 1..Count(o) : c = Chunk(o, i)
  BY <1>1
<1>7. \A c \in Manifest(o) :
        /\ c \in Chunks /\ c.offset \in Nat /\ c.len \in Nat
        /\ c.len >= 1 /\ c.offset + c.len <= o.size
  BY <1>2, <1>6
<1>8. \A c, d \in Manifest(o) :
        c = d \/ c.offset + c.len <= d.offset \/ d.offset + d.len <= c.offset
  BY <1>4, <1>6
<1> QED BY <1>5, <1>7, <1>8

-------------------------------------------------------------------------------
(* RangedRead: lemmas on plans. *)

(* A set of chunks that is not empty has a first one. *)
LEMMA EarliestIsFirst ==
  ASSUME NEW chunks, chunks # {}, \A c \in chunks : c.offset \in Nat
  PROVE  Earliest(chunks) \in chunks /\ \A d \in chunks : Earliest(chunks).offset <= d.offset
<1> DEFINE S == {c.offset : c \in chunks}
<1>1. S \in SUBSET Nat /\ S # {}
  OBVIOUS
<1>2. PICK x \in S : \A y \in S : x <= y
  <2> HIDE DEF S
  <2> QED BY <1>1, LeastExists
<1>3. \E c \in chunks : \A d \in chunks : c.offset <= d.offset
  BY <1>2
<1> QED BY <1>3 DEF Earliest

(* What is meant by a range: from off to End, although off + n may be more  *)
(* than a u64 holds.                                                        *)
LEMMA WantedInterval ==
  ASSUME NEW o \in Objects, NEW off \in U64, NEW n \in U64 \union {None}
  PROVE  /\ End(o, off, n) \in Nat /\ End(o, off, n) <= o.size /\ off \in Nat
         /\ n = None => End(o, off, n) = o.size
         /\ n # None => /\ n \in Nat
                        /\ End(o, off, n) = IF off + n < o.size THEN off + n ELSE o.size
         /\ Wanted(o, off, n) = off..(End(o, off, n) - 1)
<1>1. o.size \in Nat /\ o.size <= MaxU /\ MaxU \in Nat /\ off \in Nat
  BY ObjectTypes DEF U64
<1>2. n # None => n \in Nat
  BY <1>1 DEF U64
<1>3. CASE n = None
  <2>1. End(o, off, n) = o.size
    BY <1>3 DEF End
  <2>2. Wanted(o, off, n) = {p \in 0..(o.size - 1) : p >= off}
    BY <1>3 DEF Wanted
  <2> QED BY <1>1, <1>3, <2>1, <2>2
<1>4. CASE n # None
  <2>1. End(o, off, n) = IF off + n < o.size THEN off + n ELSE o.size
    BY <1>1, <1>2, <1>4 DEF End, SaturatingAdd, Least
  <2>2. Wanted(o, off, n) = {p \in 0..(o.size - 1) : p >= off /\ p < off + n}
    BY <1>4 DEF Wanted
  <2> HIDE DEF End
  <2>3. Wanted(o, off, n) = off..(End(o, off, n) - 1)
    BY <1>1, <1>2, <1>4, <2>1, <2>2
  <2> QED BY <1>1, <1>2, <1>4, <2>1, <2>3
<1> QED BY <1>3, <1>4

(* The chunks of a plan are chunks of the object that hold a byte of the    *)
(* range; a chunk that holds one is in the plan; and an empty plan is one   *)
(* for an empty range.                                                      *)
LEMMA PlanCovers ==
  ASSUME NEW o \in Objects, NEW off \in U64, NEW n \in U64 \union {None}
  PROVE  /\ ReadPlan(o, off, n) \subseteq Manifest(o)
         /\ \A c \in ReadPlan(o, off, n) :
              c.offset + c.len > off /\ c.offset < End(o, off, n) /\ off < End(o, off, n)
         /\ \A p \in off..(End(o, off, n) - 1) :
              \E c \in ReadPlan(o, off, n) : c.offset <= p /\ p < c.offset + c.len
<1>1. /\ End(o, off, n) \in Nat /\ End(o, off, n) <= o.size /\ off \in Nat
  BY WantedInterval
<1>2. o.size \in Nat
  BY ObjectTypes
<1>3. off < End(o, off, n) =>
        ReadPlan(o, off, n) = {c \in Manifest(o) : Intersects(c, off, End(o, off, n))}
  BY <1>1 DEF ReadPlan
<1>4. ~ (off < End(o, off, n)) => ReadPlan(o, off, n) = {}
  BY <1>1 DEF ReadPlan
<1>5. ReadPlan(o, off, n) \subseteq Manifest(o)
  BY <1>3, <1>4
<1>6. ASSUME NEW c \in ReadPlan(o, off, n)
      PROVE  c.offset + c.len > off /\ c.offset < End(o, off, n) /\ off < End(o, off, n)
  BY <1>3, <1>4 DEF Intersects
<1>7. ASSUME NEW p \in off..(End(o, off, n) - 1)
      PROVE  \E c \in ReadPlan(o, off, n) : c.offset <= p /\ p < c.offset + c.len
  <2>1. p \in 0..(o.size - 1) /\ p \in Nat /\ off <= p /\ p < End(o, off, n)
    BY <1>1, <1>2
  <2>2. PICK c \in Manifest(o) : c.offset <= p /\ p < c.offset + c.len
    BY <2>1, ManifestTiles
  <2>3. c.offset \in Nat /\ c.len \in Nat
    BY ManifestTiles
  <2>4. Intersects(c, off, End(o, off, n)) /\ off < End(o, off, n)
    BY <1>1, <2>1, <2>2, <2>3 DEF Intersects
  <2> QED BY <1>3, <2>2, <2>4
<1> QED BY <1>5, <1>6, <1>7

(* Chunk c of a plan holds a byte of the range. *)
LEMMA PlanChunkWanted ==
  ASSUME NEW o \in Objects, NEW off \in U64, NEW n \in U64 \union {None},
         NEW c \in ReadPlan(o, off, n)
  PROVE  \E place \in c.offset..(c.offset + c.len - 1) :
           place >= off /\ (n = None \/ place < off + n)
<1>1. /\ c \in Manifest(o)
      /\ c.offset + c.len > off /\ c.offset < End(o, off, n) /\ off < End(o, off, n)
  BY PlanCovers
<1>2. c.offset \in Nat /\ c.len \in Nat /\ c.len >= 1
  BY <1>1, ManifestTiles
<1>3. /\ End(o, off, n) \in Nat /\ End(o, off, n) <= o.size /\ off \in Nat
      /\ n # None => /\ n \in Nat
                     /\ End(o, off, n) = IF off + n < o.size THEN off + n ELSE o.size
  BY WantedInterval
<1>4. o.size \in Nat
  BY ObjectTypes
<1>5. n = None \/ End(o, off, n) <= off + n
  BY <1>3, <1>4
<1>6. CASE c.offset >= off
  <2>1. c.offset \in c.offset..(c.offset + c.len - 1)
    BY <1>2
  <2>2. n = None \/ c.offset < off + n
    BY <1>1, <1>2, <1>3, <1>5
  <2> QED BY <1>6, <2>1, <2>2
<1>7. CASE c.offset < off
  <2>1. off \in c.offset..(c.offset + c.len - 1)
    BY <1>1, <1>2, <1>3, <1>7
  <2>2. n = None \/ off < off + n
    BY <1>1, <1>3, <1>5
  <2> QED BY <1>3, <2>1, <2>2
<1> QED BY <1>2, <1>3, <1>6, <1>7

-------------------------------------------------------------------------------
(* RangedRead: the inductive invariant. *)

(* The plan of the read as it was answered. *)
Full == ReadPlan(object, offset, len)

(* The place the fetched bytes reach. *)
Reached == first + Len(buf)

(* While the client fetches, its bytes are those of the object from the     *)
(* first chunk on, end where a chunk ends, and no place is skipped: what is *)
(* fetched of the plan lies before that place, what is left after it.       *)
Fetched ==
  /\ first \in Nat /\ Reached <= object.size
  /\ Full = {} => buf = << >>
  /\ Full # {} => first = Earliest(Full).offset
  /\ \A k \in 1..Len(buf) : buf[k] = <<object, first + k - 1>>
  /\ \A c \in Full \ plan : c.offset + c.len <= Reached
  /\ \A c \in plan : Reached <= c.offset
  /\ (buf = << >> /\ plan = Full) \/ Reached > offset

ReadInv ==
  /\ ReadTypeOK /\ ReadExact
  /\ plan \subseteq Full
  /\ pc \in {"idle", "manifest"} => plan = {} /\ buf = << >>
  /\ pc = "fetch" => Fetched

LEMMA ReadInitInv == ReadInit => ReadInv
<1> SUFFICES ASSUME ReadInit PROVE ReadInv
  OBVIOUS
<1>1. MaxU \in Nat /\ 0 \in U64
  BY RangedReadAssumption DEF U64
<1>2. << >> \in Seq(Bytes)
  BY EmptySeq
<1> QED BY <1>1, <1>2 DEF ReadInit, ReadInv, ReadTypeOK, ReadExact

LEMMA ResolveInv ==
  ASSUME ReadInv, NEW off \in U64, NEW n \in U64 \union {None}, Resolve(off, n)
  PROVE  ReadInv'
BY DEF Resolve, ReadInv, ReadTypeOK, ReadExact

LEMMA PlanInv ==
  ASSUME ReadInv, Plan
  PROVE  ReadInv'
<1>1. /\ object \in Objects /\ offset \in U64 /\ len \in U64 \union {None}
      /\ buf = << >> /\ pc = "manifest" /\ ReadTypeOK
  BY DEF Plan, ReadInv, ReadTypeOK
<1>2. /\ plan' = Full /\ Full' = Full /\ pc' = "fetch"
      /\ first' = IF Full = {} THEN 0 ELSE Earliest(Full).offset
      /\ UNCHANGED <<current, offset, len, object, buf, result>>
  BY DEF Plan, Full
<1>3. Full \subseteq Manifest(object)
  BY <1>1, PlanCovers DEF Full
<1>4. \A c \in Full :
        /\ c \in Chunks /\ c.offset \in Nat /\ c.len \in Nat
        /\ c.offset + c.len <= object.size
  BY <1>1, <1>3, ManifestTiles
<1>5. Full # {} => /\ Earliest(Full) \in Full
                   /\ \A d \in Full : Earliest(Full).offset <= d.offset
  BY <1>4, EarliestIsFirst
<1>6. object.size \in Nat /\ object.size <= MaxU /\ MaxU \in Nat
  BY <1>1, ObjectTypes
<1>7. Len(buf) = 0
  BY <1>1
<1>8. first' \in U64 /\ first' \in Nat /\ first' <= object.size
  BY <1>2, <1>4, <1>5, <1>6 DEF U64
<1>9. ReadTypeOK'
  BY <1>1, <1>2, <1>4, <1>8 DEF ReadTypeOK
<1>10. Reached' = first' /\ Len(buf') = 0
  BY <1>2, <1>7, <1>8 DEF Reached
<1>11. Fetched'
  BY <1>1, <1>2, <1>5, <1>8, <1>10 DEF Fetched
<1> QED BY <1>2, <1>9, <1>11 DEF ReadInv, ReadExact

(* The chunk fetched next starts at the place reached: the chunk that holds *)
(* that place is in the plan, and it is not fetched yet.                    *)
LEMMA NextChunkStarts ==
  ASSUME ReadInv, pc = "fetch", plan # {}
  PROVE  /\ Earliest(plan) \in plan /\ Earliest(plan).offset = Reached
         /\ \A d \in plan : d = Earliest(plan)
                          \/ Earliest(plan).offset + Earliest(plan).len <= d.offset
<1> DEFINE c == Earliest(plan)
           end == End(object, offset, len)
<1>1. /\ object \in Objects /\ offset \in U64 /\ len \in U64 \union {None}
      /\ plan \subseteq Full /\ Fetched /\ buf \in Seq(Bytes)
  BY DEF ReadInv, ReadTypeOK
<1>2. /\ Full \subseteq Manifest(object)
      /\ \A d \in Full : d.offset + d.len > offset /\ d.offset < end /\ offset < end
      /\ \A p \in offset..(end - 1) :
           \E d \in Full : d.offset <= p /\ p < d.offset + d.len
  BY <1>1, PlanCovers DEF Full
<1>3. /\ \A d \in Full : d.offset \in Nat /\ d.len \in Nat /\ d.len >= 1
      /\ \A d, e \in Full :
           d = e \/ d.offset + d.len <= e.offset \/ e.offset + e.len <= d.offset
  BY <1>1, <1>2, ManifestTiles
<1>4. c \in plan /\ \A d \in plan : c.offset <= d.offset
  BY <1>1, <1>3, EarliestIsFirst
<1>5. end \in Nat /\ offset \in Nat
  BY <1>1, WantedInterval
<1>6. first \in Nat /\ Len(buf) \in Nat /\ Reached \in Nat
  BY <1>1, LenProperties DEF Fetched, Reached
<1>7. /\ (buf = << >> /\ plan = Full) \/ Reached > offset
      /\ \A d \in Full \ plan : d.offset + d.len <= Reached
      /\ \A d \in plan : Reached <= d.offset
      /\ Full # {} => first = Earliest(Full).offset
  BY <1>1 DEF Fetched
<1> HIDE DEF c, end
<1>8. ASSUME buf = << >>, plan = Full PROVE c.offset = Reached
  <2>1. Len(buf) = 0
    BY <1>8
  <2> QED BY <1>4, <1>6, <1>7, <1>8, <2>1 DEF Reached, c
<1>9. ASSUME Reached > offset PROVE c.offset = Reached
  <2> SUFFICES ASSUME Reached < c.offset PROVE FALSE
    BY <1>1, <1>3, <1>4, <1>6, <1>7
  <2>1. c.offset < end /\ c.offset \in Nat
    BY <1>1, <1>2, <1>3, <1>4
  <2>2. Reached \in offset..(end - 1)
    BY <1>5, <1>6, <1>9, <2>1
  <2>3. PICK d \in Full : d.offset <= Reached /\ Reached < d.offset + d.len
    BY <1>2, <2>2
  <2>4. d.offset \in Nat /\ d.len \in Nat
    BY <1>3
  <2>5. CASE d \in plan
    BY <1>4, <1>6, <2>1, <2>3, <2>4, <2>5
  <2>6. CASE d \notin plan
    BY <1>6, <1>7, <2>3, <2>4, <2>6
  <2> QED BY <2>5, <2>6
<1>10. ASSUME NEW d \in plan, d # c
       PROVE  c.offset + c.len <= d.offset
  BY <1>1, <1>3, <1>4, <1>10
<1>11. c.offset = Reached
  BY <1>7, <1>8, <1>9
<1> QED BY <1>4, <1>10, <1>11 DEF c

(* The bytes of a chunk of the object. *)
LEMMA ChunkBytesSeq ==
  ASSUME object \in Objects, NEW c \in Manifest(object)
  PROVE  /\ ChunkBytes(c) \in Seq(Bytes) /\ Len(ChunkBytes(c)) = c.len
         /\ \A k \in 1..c.len : ChunkBytes(c)[k] = <<object, c.offset + k - 1>>
<1>1. /\ c.offset \in Nat /\ c.len \in Nat /\ c.offset + c.len <= object.size
      /\ object.size \in Nat
  BY ManifestTiles, ObjectTypes
<1>2. ASSUME NEW k \in 1..c.len PROVE <<object, c.offset + k - 1>> \in Bytes
  <2>1. c.offset + k - 1 \in 0..(object.size - 1)
    BY <1>1
  <2> QED BY <2>1 DEF Bytes
<1>3. ChunkBytes(c) = [k \in 1..c.len |-> <<object, c.offset + k - 1>>]
  BY DEF ChunkBytes
<1>4. ChunkBytes(c) \in [1..c.len -> Bytes]
  BY <1>2, <1>3
<1>5. ChunkBytes(c) \in Seq(Bytes)
  BY <1>1, <1>4, SeqDef
<1>6. Len(ChunkBytes(c)) = c.len
  BY <1>1, <1>3, <1>5, LenProperties
<1> QED BY <1>3, <1>5, <1>6

LEMMA FetchInv ==
  ASSUME ReadInv, Fetch
  PROVE  ReadInv'
<1> DEFINE c == Earliest(plan)
<1>1. /\ pc = "fetch" /\ plan # {}
      /\ buf' = buf \o ChunkBytes(c) /\ plan' = plan \ {c}
      /\ UNCHANGED <<current, pc, offset, len, object, first, result>>
  BY DEF Fetch
<1>2. /\ object \in Objects /\ offset \in U64 /\ len \in U64 \union {None}
      /\ plan \subseteq Full /\ Fetched /\ buf \in Seq(Bytes) /\ ReadTypeOK
  BY <1>1 DEF ReadInv, ReadTypeOK
<1>3. /\ c \in plan /\ c.offset = Reached
      /\ \A d \in plan : d = c \/ c.offset + c.len <= d.offset
  BY <1>1, NextChunkStarts
<1>4. /\ Full \subseteq Manifest(object)
      /\ \A d \in Full : d.offset + d.len > offset
  BY <1>2, PlanCovers DEF Full
<1>5. /\ c \in Full /\ c \in Manifest(object)
      /\ c.offset \in Nat /\ c.len \in Nat /\ c.len >= 1
      /\ c.offset + c.len <= object.size
  BY <1>2, <1>3, <1>4, ManifestTiles
<1>6. /\ ChunkBytes(c) \in Seq(Bytes) /\ Len(ChunkBytes(c)) = c.len
      /\ \A k \in 1..c.len : ChunkBytes(c)[k] = <<object, c.offset + k - 1>>
  BY <1>2, <1>5, ChunkBytesSeq
<1>7. /\ first \in Nat /\ Len(buf) \in Nat /\ Reached = first + Len(buf)
      /\ \A k \in 1..Len(buf) : buf[k] = <<object, first + k - 1>>
      /\ \A d \in Full \ plan : d.offset + d.len <= Reached
      /\ Full # {} => first = Earliest(Full).offset
  BY <1>2, LenProperties DEF Fetched, Reached
<1> HIDE DEF c
<1>8. /\ buf' \in Seq(Bytes) /\ Len(buf') = Len(buf) + c.len
      /\ \A k \in 1..(Len(buf) + c.len) :
           buf'[k] = IF k <= Len(buf) THEN buf[k] ELSE ChunkBytes(c)[k - Len(buf)]
  <2>1. /\ buf \o ChunkBytes(c) \in Seq(Bytes)
        /\ Len(buf \o ChunkBytes(c)) = Len(buf) + Len(ChunkBytes(c))
        /\ \A k \in 1..(Len(buf) + Len(ChunkBytes(c))) :
             (buf \o ChunkBytes(c))[k] =
               IF k <= Len(buf) THEN buf[k] ELSE ChunkBytes(c)[k - Len(buf)]
    BY <1>2, <1>6, ConcatProperties
  <2> QED BY <1>1, <1>6, <2>1
<1>9. Full' = Full /\ first' = first /\ object' = object /\ offset' = offset
  BY <1>1 DEF Full
<1>10. Reached' = c.offset + c.len
  BY <1>3, <1>5, <1>7, <1>8, <1>9 DEF Reached
<1>11. ASSUME NEW k \in 1..Len(buf')
       PROVE  buf'[k] = <<object, first + k - 1>>
  <2>1. k \in Nat /\ k >= 1 /\ k <= Len(buf) + c.len
    BY <1>5, <1>7, <1>8
  <2>2. CASE k <= Len(buf)
    BY <1>7, <1>8, <2>1, <2>2
  <2>3. CASE k > Len(buf)
    <3>1. k - Len(buf) \in 1..c.len
      BY <1>5, <1>7, <2>1, <2>3
    <3>2. buf'[k] = ChunkBytes(c)[k - Len(buf)]
      BY <1>5, <1>7, <1>8, <2>1, <2>3
    <3>3. c.offset + (k - Len(buf)) - 1 = first + k - 1
      BY <1>3, <1>5, <1>7, <2>1
    <3> QED BY <1>6, <3>1, <3>2, <3>3
  <2> QED BY <1>7, <2>1, <2>2, <2>3
<1>12. \A d \in Full \ plan' : d.offset + d.len <= Reached'
  <2> SUFFICES ASSUME NEW d \in Full \ plan' PROVE d.offset + d.len <= Reached'
    OBVIOUS
  <2>1. d = c \/ d \in Full \ plan
    BY <1>1
  <2>2. d.offset \in Nat /\ d.len \in Nat
    BY <1>2, <1>4, ManifestTiles
  <2> QED BY <1>3, <1>5, <1>7, <1>10, <2>1, <2>2
<1>13. \A d \in plan' : Reached' <= d.offset
  BY <1>1, <1>3, <1>10
<1>14. Reached' > offset' /\ Reached' <= object.size
  BY <1>4, <1>5, <1>9, <1>10
<1>15. Full' = {} => buf' = << >>
  BY <1>5, <1>9
<1>16. Fetched'
  BY <1>7, <1>9, <1>11, <1>12, <1>13, <1>14, <1>15 DEF Fetched
<1>17. ReadTypeOK'
  BY <1>1, <1>2, <1>8 DEF ReadTypeOK
<1>18. plan' \subseteq Full'
  BY <1>1, <1>2, <1>9
<1> QED BY <1>1, <1>16, <1>17, <1>18 DEF ReadInv, ReadExact

(* All of the plan is fetched: the bytes reach the end of the range, and    *)
(* what is cut from them is the range.                                      *)
LEMMA TrimInv ==
  ASSUME ReadInv, Trim
  PROVE  ReadInv'
<1> DEFINE end == End(object, offset, len)
           start == offset - first
           stop == IF len = None THEN Len(buf) ELSE Least(start + len, Len(buf))
<1>1. /\ pc = "fetch" /\ plan = {} /\ pc' = "done"
      /\ result' = IF buf = << >> THEN << >> ELSE SubSeq(buf, start + 1, stop)
      /\ UNCHANGED <<current, offset, len, object, plan, first, buf>>
  BY DEF Trim
<1>2. /\ object \in Objects /\ offset \in U64 /\ len \in U64 \union {None}
      /\ plan \subseteq Full /\ Fetched /\ buf \in Seq(Bytes) /\ ReadTypeOK
  BY <1>1 DEF ReadInv, ReadTypeOK
<1>3. /\ end \in Nat /\ end <= object.size /\ offset \in Nat /\ object.size \in Nat
      /\ len = None => end = object.size
      /\ len # None => /\ len \in Nat
                       /\ end = IF offset + len < object.size THEN offset + len
                                                             ELSE object.size
      /\ Wanted(object, offset, len) = offset..(end - 1)
  BY <1>2, WantedInterval, ObjectTypes
<1>4. /\ Full \subseteq Manifest(object)
      /\ \A d \in Full : d.offset + d.len > offset /\ d.offset < end /\ offset < end
      /\ \A p \in offset..(end - 1) :
           \E d \in Full : d.offset <= p /\ p < d.offset + d.len
  BY <1>2, PlanCovers DEF Full
<1>5. \A d \in Full : d.offset \in Nat /\ d.len \in Nat
  BY <1>2, <1>4, ManifestTiles
<1>6. /\ first \in Nat /\ Len(buf) \in Nat /\ Reached = first + Len(buf)
      /\ \A k \in 1..Len(buf) : buf[k] = <<object, first + k - 1>>
      /\ \A d \in Full : d.offset + d.len <= Reached
      /\ Full = {} => buf = << >>
      /\ Full # {} => first = Earliest(Full).offset
      /\ Reached <= object.size
      /\ Full = {} \/ Reached > offset
  BY <1>1, <1>2, LenProperties DEF Fetched, Reached
<1>7. Full # {} => \A d \in Full : first <= d.offset
  BY <1>5, <1>6, EarliestIsFirst
<1> HIDE DEF end, start, stop
<1>8. CASE Full = {}
  <2>1. ~ (offset < end)
    <3> SUFFICES ASSUME offset < end PROVE FALSE
      OBVIOUS
    <3>1. offset \in offset..(end - 1)
      BY <1>3
    <3> QED BY <1>4, <1>8, <3>1
  <2>2. Wanted(object, offset, len) = {}
    BY <1>3, <2>1
  <2>3. Cardinality(Wanted(object, offset, len)) = 0
    BY <2>2, FS_EmptySet
  <2>4. result' = << >> /\ result' \in Seq(Bytes)
    BY <1>1, <1>6, <1>8, EmptySeq
  <2>5. result' = [k \in 1..Cardinality(Wanted(object, offset, len)) |->
                     <<object, offset + k - 1>>]
    BY <2>3, <2>4
  <2> QED BY <1>1, <1>2, <2>4, <2>5 DEF ReadInv, ReadTypeOK, ReadExact, Full
<1>9. CASE Full # {}
  <2>1. offset < end
    BY <1>4, <1>9
  <2>2. first <= offset
    <3>1. offset \in offset..(end - 1)
      BY <1>3, <2>1
    <3>2. PICK d \in Full : d.offset <= offset
      BY <1>4, <3>1
    <3> QED BY <1>3, <1>5, <1>6, <1>7, <3>2
  <2>3. end <= Reached
    <3>1. end - 1 \in offset..(end - 1)
      BY <1>3, <2>1
    <3>2. PICK d \in Full : end - 1 < d.offset + d.len
      BY <1>4, <3>1
    <3> QED BY <1>3, <1>5, <1>6, <3>2
  <2>4. start \in Nat /\ start = offset - first
    BY <1>3, <1>6, <2>2 DEF start
  <2>5. stop = end - first /\ stop \in Nat /\ stop <= Len(buf) /\ start < stop
    <3>1. CASE len = None
      <4>1. stop = Len(buf) /\ end = object.size
        BY <1>3, <3>1 DEF stop
      <4> QED BY <1>3, <1>6, <2>1, <2>2, <2>3, <2>4, <4>1
    <3>2. CASE len # None
      <4>1. stop = IF start + len < Len(buf) THEN start + len ELSE Len(buf)
        BY <3>2 DEF stop, Least
      <4>2. /\ len \in Nat
            /\ end = IF offset + len < object.size THEN offset + len ELSE object.size
        BY <1>3, <3>2
      <4>3. start + len = offset + len - first /\ Len(buf) = Reached - first
        BY <1>3, <1>6, <2>4, <4>2
      <4>4. CASE offset + len < object.size
        <5>1. end = offset + len /\ start + len <= Len(buf)
          BY <1>3, <1>6, <2>3, <4>2, <4>3, <4>4
        <5>2. stop = start + len
          <6>1. start + len \in Nat /\ Len(buf) \in Nat
            BY <1>6, <2>4, <4>2
          <6> QED BY <4>1, <5>1, <6>1
        <5>3. stop = end - first
          BY <4>2, <4>3, <5>1, <5>2, <1>3, <1>6
        <5> QED BY <1>3, <1>6, <2>1, <2>2, <2>3, <2>4, <5>3
      <4>5. CASE ~ (offset + len < object.size)
        <5>1. end = object.size /\ end = Reached /\ Len(buf) <= start + len
          BY <1>3, <1>6, <2>3, <4>2, <4>3, <4>5
        <5>2. stop = Len(buf)
          <6>1. start + len \in Nat /\ Len(buf) \in Nat
            BY <1>6, <2>4, <4>2
          <6> QED BY <4>1, <5>1, <6>1
        <5>3. stop = end - first
          BY <4>3, <5>1, <5>2
        <5> QED BY <1>3, <1>6, <2>1, <2>2, <2>3, <2>4, <5>3
      <4> QED BY <4>4, <4>5
    <3> QED BY <3>1, <3>2
  <2>6. buf # << >>
    <3>1. Len(buf) > 0
      BY <1>6, <2>4, <2>5
    <3> QED BY <3>1
  <2>7. result' = SubSeq(buf, start + 1, stop)
    BY <1>1, <2>6
  <2>8. /\ result' \in Seq(Bytes) /\ Len(result') = end - offset
        /\ \A k \in 1..(end - offset) : result'[k] = buf[start + k]
    <3>1. start + 1 \in Int /\ stop \in Int
      BY <2>4, <2>5
    <3>2. \A i \in (start + 1)..stop : buf[i] \in Bytes
      <4>1. \A i \in (start + 1)..stop : i \in 1..Len(buf)
        BY <1>6, <2>4, <2>5
      <4> QED BY <1>2, <4>1, ElementOfSeq
    <3>3. /\ SubSeq(buf, start + 1, stop) \in Seq(Bytes)
          /\ Len(SubSeq(buf, start + 1, stop)) =
               IF start + 1 <= stop THEN stop - (start + 1) + 1 ELSE 0
          /\ \A i \in 1..(stop - (start + 1) + 1) :
               SubSeq(buf, start + 1, stop)[i] = buf[(start + 1) + i - 1]
      BY <3>1, <3>2, SubSeqProperties
    <3>4. stop - (start + 1) + 1 = end - offset /\ start + 1 <= stop
      BY <1>3, <1>6, <2>4, <2>5
    <3>5. ASSUME NEW k \in 1..(end - offset) PROVE result'[k] = buf[start + k]
      <4>1. (start + 1) + k - 1 = start + k
        BY <1>3, <2>4
      <4> QED BY <2>7, <3>3, <3>4, <4>1
    <3> QED BY <2>7, <3>3, <3>4, <3>5
  <2>9. ASSUME NEW k \in 1..(end - offset) PROVE result'[k] = <<object, offset + k - 1>>
    <3>1. start + k \in 1..Len(buf) /\ first + (start + k) - 1 = offset + k - 1
      BY <1>3, <1>6, <2>4, <2>5
    <3> QED BY <1>6, <2>8, <3>1
  <2>10. Cardinality(Wanted(object, offset, len)) = end - offset
    <3>1. offset \in Int /\ end - 1 \in Int /\ (end - 1) - offset + 1 = end - offset
      BY <1>3
    <3> QED BY <1>3, <2>1, <3>1, FS_Interval
  <2>11. result' = [k \in 1..(end - offset) |-> <<object, offset + k - 1>>]
    <3>1. DOMAIN result' = 1..(end - offset)
      BY <2>8, LenProperties
    <3>2. result' = [k \in 1..(end - offset) |-> result'[k]]
      BY <2>8, <3>1, LenProperties
    <3> QED BY <2>9, <3>2
  <2> QED BY <1>1, <1>2, <2>8, <2>10, <2>11 DEF ReadInv, ReadTypeOK, ReadExact, Full
<1> QED BY <1>8, <1>9

LEMMA ReadNextInv == ReadInv /\ [ReadNext]_readVars => ReadInv'
<1> SUFFICES ASSUME ReadInv, [ReadNext]_readVars PROVE ReadInv'
  OBVIOUS
<1>1. ASSUME NEW o \in Objects, Overwrite(o) PROVE ReadInv'
  BY <1>1 DEF Overwrite, ReadInv, ReadTypeOK, ReadExact, Full, Fetched, Reached
<1>2. ASSUME NEW off \in U64, NEW n \in U64 \union {None}, Resolve(off, n) PROVE ReadInv'
  BY <1>2, ResolveInv
<1>3. CASE Plan
  BY <1>3, PlanInv
<1>4. CASE Fetch
  BY <1>4, FetchInv
<1>5. CASE Fail
  BY <1>5 DEF Fail, ReadInv, ReadTypeOK, ReadExact, Full
<1>6. CASE Trim
  BY <1>6, TrimInv
<1>7. CASE Again
  <2>1. << >> \in Seq(Bytes) /\ 0 \in U64
    BY EmptySeq, RangedReadAssumption DEF U64
  <2> QED BY <1>7, <2>1 DEF Again, ReadInv, ReadTypeOK, ReadExact, Full
<1>8. CASE UNCHANGED readVars
  BY <1>8 DEF readVars, ReadInv, ReadTypeOK, ReadExact, Full, Fetched, Reached
<1> QED BY <1>1, <1>2, <1>3, <1>4, <1>5, <1>6, <1>7, <1>8 DEF ReadNext

THEOREM ReadInvariance == ReadSpec => []ReadInv
BY ReadInitInv, ReadNextInv, PTL DEF ReadSpec

(* The types, for any sizes of objects and chunks and any MaxU. *)
THEOREM ReadTypeCorrect == ReadSpec => []ReadTypeOK
<1>1. ReadInv => ReadTypeOK
  BY DEF ReadInv
<1> QED BY <1>1, ReadInvariance, PTL

(* A read that succeeds returns the bytes asked for, of one version, for    *)
(* any sizes, offset and length, the ones whose sum is beyond u64 included. *)
THEOREM ReadsExactly == ReadSpec => []ReadExact
<1>1. ReadInv => ReadExact
  BY DEF ReadInv
<1> QED BY <1>1, ReadInvariance, PTL

(* No chunk of a plan is fetched for nothing. *)
THEOREM FetchesNothingInVain == ReadSpec => []NoChunkInVain
<1>1. ReadInv => NoChunkInVain
  BY PlanChunkWanted DEF ReadInv, ReadTypeOK, Full, NoChunkInVain
<1> QED BY <1>1, ReadInvariance, PTL
===============================================================================
