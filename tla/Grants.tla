-------------------------------- MODULE Grants --------------------------------
(***************************************************************************)
(* Who may do what: the gate every request passes (authorize_req) and the  *)
(* Share verb, by which a holder of drive:admin has the host mint a        *)
(* capability for somebody else.  Owner grants and minted capabilities are *)
(* in circulation together; any of them may be presented, at any time.     *)
(*                                                                         *)
(* A path is a sequence of segments, as a request spells it: blanks at its *)
(* two ends belong to its first and last segment until norm_path trims     *)
(* them.  A path_prefix is a sequence of segments too, <<"ce-drive",       *)
(* drive>> and then the trimmed path.  A capability is                     *)
(* the leaf of its chain: its signature, audience, expiry, abilities and   *)
(* revocation are checked by ce_iam_core, which is external.  Chains have  *)
(* one link, as the grants of the owner and what Share returns have.       *)
(***************************************************************************)
EXTENDS Integers, FiniteSets, SequencesExt

CONSTANTS
  Holders, Drives, Names,
  Owner,      \* whoever numbers the grants of the host
  Up,         \* the segment ".."
  PaddedUp,   \* ".." with a blank before or after it, on the outside of the path
  Spelling,   \* pairs of names: the second begins with the letters of the first
  Paths,      \* paths that requests name
  OwnPaths,   \* paths that the owner grants
  Roles,      \* ability sets the owner grants
  Asked,      \* ability lists that Share is asked for
  Kinds,      \* verbs that requests use
  MaxClock, MaxGrants, MaxCaps, MaxRevoked   \* bounds for model checking only

Namespace == "ce-drive"

ReadKinds == {"Open", "Stat", "List", "Read", "Poll", "Watch", "Meta", "Backlinks", "Versions"}
WriteKinds == {"Write", "Mkdir", "Copy", "Move", "Delete", "SetProp", "Tag", "Link"}
Pathless == {"Open", "Poll", "Watch", "Backlinks"}
TwoPaths == {"Move", "Copy"}

Abilities == {"read", "write", "admin"}
Segments == Names \union {Up, PaddedUp}
PathSet == Seq(Segments)

ASSUME GrantsAssumption ==
  /\ Owner \notin Holders /\ Namespace \notin Segments
  /\ Up \notin Names /\ PaddedUp \notin Names /\ Up # PaddedUp
  /\ Paths \subseteq PathSet /\ OwnPaths \subseteq PathSet
  /\ Roles \subseteq SUBSET Abilities /\ Asked \subseteq SUBSET Abilities
  /\ Kinds \subseteq ReadKinds \union WriteKinds \union {"Share"}
  /\ MaxClock \in Nat \ {0}

VARIABLES
  clock,     \* the host's clock
  granted,   \* capabilities the owner issued
  shared,    \* capabilities minted by Share
  revoked    \* nonces revoked on the chain

vars == <<clock, granted, shared, revoked>>

CapPrefixes == Seq(Drives \union Segments \union {Namespace})
Nonces == [by : Holders \union {Owner}, of : CapPrefixes]

(* A capability; notAfter 0 is "never". *)
Caps == [aud : Holders, abilities : SUBSET Abilities, prefix : CapPrefixes,
         notAfter : 0..MaxClock, nonce : Nonces]

Ops ==
  {op \in [kind : Kinds, paths : SUBSET Paths] :
     \/ op.kind \in Pathless /\ op.paths = {}
     \/ op.kind \in TwoPaths /\ \E p, q \in Paths : op.paths = {p, q}
     \/ op.kind \notin Pathless \union TwoPaths /\ \E p \in Paths : op.paths = {p}}

Init ==
  /\ clock = 1
  /\ granted = {} /\ shared = {} /\ revoked = {}

-------------------------------------------------------------------------------
(* CapPrefixes and paths. *)

(* norm_path: what is trimmed at the ends of a path can leave "..". *)
Norm(p) ==
  [i \in DOMAIN p |-> IF i \in {1, Len(p)} /\ p[i] = PaddedUp THEN Up ELSE p[i]]

DrivePrefix(d, p) == <<Namespace, d>> \o Norm(p)

(* parse_drive_prefix: a prefix outside the namespace binds no drive. *)
Bound(prefix) == Len(prefix) >= 2 /\ prefix[1] = Namespace
DriveOf(prefix) == prefix[2]
ScopeOf(prefix) == Norm(SubSeq(prefix, 3, Len(prefix)))

(* no_dotdot, which is given the path before it is trimmed. *)
NoDotDot(p) == \A i \in DOMAIN p : p[i] # Up

(* Fault: starts_with(pfx) without the slash: "/docs" admits "/docs2". *)
WithinSpelling(scope, p) ==
  \/ scope = << >>
  \/ /\ Len(scope) <= Len(p)
     /\ \A i \in 1..Len(scope) - 1 : p[i] = scope[i]
     /\ \/ p[Len(scope)] = scope[Len(scope)]
        \/ <<scope[Len(scope)], p[Len(scope)]>> \in Spelling

(* enforce_prefix *)
Within(scope, p) ==
  \/ scope = << >>
  \/ p = scope
  \/ Len(scope) < Len(p) /\ SubSeq(p, 1, Len(scope)) = scope

-------------------------------------------------------------------------------
(* The gate. *)

RequiredAbility(kind) ==
  IF kind \in ReadKinds THEN "read" ELSE IF kind \in WriteKinds THEN "write" ELSE "admin"

Expired(c) == c.notAfter # 0 /\ clock > c.notAfter

(* ce_iam_core::authorize on a chain of one link, rooted at the host. *)
Verified(from, c, kind, rev) ==
  /\ c.aud = from
  /\ RequiredAbility(kind) \in c.abilities
  /\ ~Expired(c)
  /\ c.nonce \notin rev

(* authorize_req; rev is the revoked set as it was fetched. *)
Accepts(from, c, d, op, rev) ==
  /\ Verified(from, c, op.kind, rev)
  /\ Bound(c.prefix)
  /\ DriveOf(c.prefix) = d
  /\ \A p \in op.paths : NoDotDot(p)
  /\ \A p \in op.paths : Within(ScopeOf(c.prefix), Norm(p))

(* revoked_set: a fetch that fails gives the empty set. *)
Fetched == {revoked, {}}

(* dispatch: the revocations are fetched anew for each request. *)
Passes(from, c, d, op) == \E rev \in Fetched : Accepts(from, c, d, op, rev)

-------------------------------------------------------------------------------
(* Share. *)


NotAfter(asked, parent) ==
  IF asked = 0 THEN parent
  ELSE IF parent = 0 \/ asked < parent THEN asked ELSE parent

(* What is asked for and the caller has; read if nothing is asked for. *)
Requested(parent, asked) ==
  IF asked = {} THEN {"read"} ELSE asked \intersect parent.abilities

(* Fault: an empty list of abilities is signed too. *)
MintsAnything(parent, asked) == TRUE

Mints(parent, asked) == Requested(parent, asked) # {}

(* Fault: the new prefix is the bare path. *)
BarePrefix(d, p) == p

NewPrefix(d, p) == DrivePrefix(d, p)

Minted(from, parent, d, p, aud, asked, until) ==
  [aud |-> aud, abilities |-> Requested(parent, asked), prefix |-> NewPrefix(d, p),
   notAfter |-> NotAfter(until, parent.notAfter), nonce |-> [by |-> from, of |-> p]]

(* op_share, after the gate, which has checked the path already. *)
Share(from, parent, d, p, aud, asked, until) ==
  LET op == [kind |-> "Share", paths |-> {p}]
  IN  /\ parent \in granted \union shared
      /\ Passes(from, parent, d, op)
      /\ Mints(parent, asked)
      /\ shared' = shared \union {Minted(from, parent, d, p, aud, asked, until)}
      /\ UNCHANGED <<clock, granted, revoked>>

(* The owner grants on a drive and a path, or with a prefix that binds none. *)
Grant(aud, role, prefix, until) ==
  /\ Cardinality(granted) < MaxGrants
  /\ granted' = granted \union
       {[aud |-> aud, abilities |-> role, prefix |-> prefix, notAfter |-> until,
         nonce |-> [by |-> Owner, of |-> prefix]]}
  /\ UNCHANGED <<clock, shared, revoked>>

OwnerPrefixes == {DrivePrefix(d, p) : d \in Drives, p \in OwnPaths} \union {<< >>}

Revoke(c) ==
  /\ Cardinality(revoked) < MaxRevoked
  /\ c \in granted \union shared
  /\ revoked' = revoked \union {c.nonce}
  /\ UNCHANGED <<clock, granted, shared>>

ClockTick ==
  /\ clock < MaxClock
  /\ clock' = clock + 1
  /\ UNCHANGED <<granted, shared, revoked>>

(* A bound on the capabilities in circulation, for model checking only. *)
Room == Cardinality(granted) + Cardinality(shared) < MaxCaps

Next ==
  \/ Room /\ \E h, aud \in Holders, c \in granted \union shared, d \in Drives, p \in Paths,
                asked \in Asked, until \in 0..MaxClock : Share(h, c, d, p, aud, asked, until)
  \/ Room /\ \E h \in Holders, role \in Roles, prefix \in OwnerPrefixes, until \in 0..MaxClock :
                Grant(h, role, prefix, until)
  \/ \E c \in granted \union shared : Revoke(c)
  \/ ClockTick

Spec == Init /\ [][Next]_vars

-------------------------------------------------------------------------------
(* Types.  No capability is minted that lists no ability. *)
TypeOK ==
  /\ clock \in 1..MaxClock
  /\ granted \subseteq Caps
  /\ shared \subseteq {c \in Caps : c.abilities # {}}
  /\ revoked \subseteq Nonces

(* A holder of admin can read what it administers. *)
Rights(c) == c.abilities \union (IF "admin" \in c.abilities THEN {"read"} ELSE {})

Narrower(c, g) ==
  /\ Bound(g.prefix) /\ Bound(c.prefix)
  /\ DriveOf(c.prefix) = DriveOf(g.prefix)
  /\ IsPrefix(ScopeOf(g.prefix), ScopeOf(c.prefix))
  /\ c.abilities \subseteq Rights(g)
  /\ g.notAfter # 0 => c.notAfter # 0 /\ c.notAfter <= g.notAfter


(* The gate, Share and the clock together: a request the gate lets pass,    *)
(* even one that saw no revocations, is covered by one owner grant on that  *)
(* drive that has not expired and gives the ability the verb requires.  The *)
(* paths its handler works on, which are the trimmed ones, begin with the   *)
(* segments of that grant's subtree and have ".." at most as their first or *)
(* last segment: the guard sees a path before it is trimmed, so the trimmed *)
(* one is not free of ".." altogether, as the guard's comment has it.       *)
GateSound ==
  \A c \in granted \union shared, d \in Drives, op \in Ops :
    Passes(c.aud, c, d, op) =>
      \E g \in granted :
        /\ ~Expired(g)
        /\ Bound(g.prefix) /\ DriveOf(g.prefix) = d
        /\ RequiredAbility(op.kind) \in Rights(g)
        /\ \A p \in op.paths :
             /\ IsPrefix(ScopeOf(g.prefix), Norm(p))
             /\ \A i \in 2..Len(p) - 1 : Norm(p)[i] # Up

(* What Share hands out is good for something: its holder may use every     *)
(* verb it lists, on some drive and path, until it expires or is revoked.   *)
SharedUsable ==
  \A c \in shared, k \in Kinds :
    (c.nonce \notin revoked /\ ~Expired(c) /\ RequiredAbility(k) \in c.abilities) =>
      \E d \in Drives, op \in Ops : op.kind = k /\ Accepts(c.aud, c, d, op, revoked)
===============================================================================
