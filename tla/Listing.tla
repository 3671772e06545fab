-------------------------------- MODULE Listing --------------------------------
(***************************************************************************)
(* A client lists a directory page by page while others change it.  Each   *)
(* page is computed under the registry lock from the directory as it is by *)
(* then: the names after the last one given, up to the limit.  The client  *)
(* asks on until it is given no cursor.  op_list answers from the drive's  *)
(* ls, which is external and sorted by name; the pages' entries are left   *)
(* out but for their names.                                                *)
(***************************************************************************)
EXTENDS Integers, FiniteSets

CONSTANTS
  Names,     \* numbers, in the order ls returns the names
  Limits     \* page limits a client may ask for, 0 included

ASSUME ListingAssumption ==
  /\ Names \subseteq Nat \ {0} /\ IsFiniteSet(Names)
  /\ Limits \subseteq Nat /\ Limits # {}

VARIABLES
  bound,     \* the names that are bound
  listing,   \* the client pages through the directory
  cursor,    \* the last name it was given, 0 before the first page
  got,       \* names it was given
  twice,     \* history: names it was given more than once
  steady     \* history: names bound ever since the listing began

vars == <<bound, listing, cursor, got, twice, steady>>

Init ==
  /\ bound \in SUBSET Names
  /\ listing = FALSE /\ cursor = 0 /\ got = {} /\ twice = {} /\ steady = {}

(* Write, Copy, Mkdir, Move and Delete as the listing sees them: names      *)
(* appear and disappear.                                                    *)
Change(names) ==
  /\ bound' = names
  /\ steady' = steady \intersect names
  /\ UNCHANGED <<listing, cursor, got, twice>>

Bind(n) == n \notin bound /\ Change(bound \union {n})
Unbind(n) == n \in bound /\ Change(bound \ {n})
Rename(from, to) ==
  /\ from \in bound /\ to \notin bound
  /\ Change((bound \ {from}) \union {to})

(* Fault: the page starts at the cursor, not after it. *)
FromCursor == {n \in bound : n >= cursor}

(* entries[start..]; a cursor whose name is gone still has its place. *)
AfterCursor == {n \in bound : n > cursor}

(* Fault: limit 0 is taken as it is. *)
AsGiven(limit) == limit

AtLeastOne(limit) == IF limit < 1 THEN 1 ELSE limit

Page(limit) ==
  {n \in AfterCursor : Cardinality({m \in AfterCursor : m <= n}) <= AtLeastOne(limit)}

(* Fault: the cursor counts the entries given out. *)
LastPlace(page) == Cardinality(got \union page)

LastName(page) == CHOOSE n \in page : \A m \in page : m <= n

StartList ==
  /\ ~listing
  /\ listing' = TRUE /\ cursor' = 0 /\ got' = {} /\ twice' = {} /\ steady' = bound
  /\ UNCHANGED bound

(* op_list: there is a next cursor if entries remain and the page has one.  *)
ListPage(limit) ==
  LET page == Page(limit)
      more == page # AfterCursor /\ page # {}
  IN  /\ listing
      /\ got' = got \union page
      /\ twice' = twice \union (got \intersect page)
      /\ listing' = more
      /\ cursor' = IF more THEN LastName(page) ELSE 0
      /\ UNCHANGED <<bound, steady>>

Next ==
  \/ \E n \in Names : Bind(n) \/ Unbind(n)
  \/ \E from \in Names, to \in Names : Rename(from, to)
  \/ StartList
  \/ \E limit \in Limits : ListPage(limit)

Spec == Init /\ [][Next]_vars

-------------------------------------------------------------------------------
TypeOK ==
  /\ bound \subseteq Names /\ listing \in BOOLEAN /\ cursor \in Names \union {0}
  /\ got \subseteq Names /\ twice \subseteq got /\ steady \subseteq bound

(* A listing that has come to its end gave every name that was bound all    *)
(* the time, and none twice, whatever was added, moved or removed between   *)
(* its pages, the cursor's own name included, for any mix of limits.        *)
ListingWhole == twice = {} /\ (~listing => steady \subseteq got)

(* Every page that announces another moves the cursor on, a page asked for  *)
(* with limit 0 and a page after a name that is gone included.  A listing   *)
(* need not end: a writer that binds a greater name before every page keeps *)
(* the client asking.                                                       *)
PagesAdvance ==
  [][(\E limit \in Limits : ListPage(limit)) /\ listing' => cursor' > cursor]_vars
===============================================================================
