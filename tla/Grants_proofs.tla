----------------------------- MODULE Grants_proofs -----------------------------
(***************************************************************************)
(* The gate is sound for any holders, drives, paths and expiries, however  *)
(* often a capability is shared on: the invariant is SharesNarrow, which   *)
(* Share keeps because Narrower is transitive.                             *)
(***************************************************************************)
EXTENDS Grants, SequenceTheorems, TLAPS

USE DEF Namespace

CapSegments == Drives \union Segments \union {Namespace}

-------------------------------------------------------------------------------
(* A sequence over a set is one over a larger set. *)
LEMMA SeqGrows ==
  ASSUME NEW S, NEW T, S \subseteq T, NEW s \in Seq(S)
  PROVE  s \in Seq(T)
  OBVIOUS

(* What enforce_prefix lets pass is what lies below the scope. *)
LEMMA WithinIsPrefix ==
  ASSUME NEW S, NEW scope \in Seq(S), NEW p \in Seq(S)
  PROVE  Within(scope, p) <=> IsPrefix(scope, p)
<1>1. ASSUME scope = << >>
      PROVE  IsPrefix(scope, p)
  BY <1>1 DEF IsPrefix
<1>2. ASSUME p = scope
      PROVE  IsPrefix(scope, p)
  BY <1>2 DEF IsPrefix
<1>3. SubSeq(scope, 1, Len(scope)) = scope
  OBVIOUS
<1>4. ASSUME IsPrefix(scope, p), Len(scope) = Len(p)
      PROVE  p = scope
  BY <1>3, <1>4 DEF IsPrefix
<1> QED
  BY <1>1, <1>2, <1>3, <1>4 DEF Within, IsPrefix

(* Below a scope that is below a scope is below the latter. *)
LEMMA PrefixTransitive ==
  ASSUME NEW S, NEW r \in Seq(S), NEW s \in Seq(S), NEW t \in Seq(S),
         IsPrefix(r, s), IsPrefix(s, t)
  PROVE  IsPrefix(r, t)
<1>1. Len(r) <= Len(s) /\ Len(s) <= Len(t)
  BY DEF IsPrefix
<1>2. \A i \in 1..Len(r) : s[i] = r[i]
  <2> SUFFICES ASSUME NEW i \in 1..Len(r) PROVE s[i] = r[i]
    OBVIOUS
  <2>1. SubSeq(r, 1, Len(r))[i] = r[i] /\ SubSeq(s, 1, Len(r))[i] = s[i]
    BY <1>1
  <2> QED BY <2>1 DEF IsPrefix
<1>3. \A i \in 1..Len(s) : t[i] = s[i]
  <2> SUFFICES ASSUME NEW i \in 1..Len(s) PROVE t[i] = s[i]
    OBVIOUS
  <2>1. SubSeq(s, 1, Len(s))[i] = s[i] /\ SubSeq(t, 1, Len(s))[i] = t[i]
    BY <1>1
  <2> QED BY <2>1 DEF IsPrefix
<1>4. \A i \in 1..Len(r) : t[i] = r[i]
  BY <1>1, <1>2, <1>3
<1>5. SubSeq(r, 1, Len(r)) = SubSeq(t, 1, Len(r))
  BY <1>1, <1>4
<1> QED BY <1>1, <1>5 DEF IsPrefix

(* Trimming a path leaves a path, which trims to itself.  PaddedUp and Up   *)
(* differ: a segment that has been trimmed is not trimmed again.            *)
LEMMA NormType ==
  ASSUME NEW p \in Seq(CapSegments)
  PROVE  /\ Norm(p) \in Seq(CapSegments)
         /\ Len(Norm(p)) = Len(p)
         /\ Norm(Norm(p)) = Norm(p)
<1>1. Up \in CapSegments /\ Up # PaddedUp
  BY GrantsAssumption DEF CapSegments, Segments
<1>2. DOMAIN p = 1..Len(p) /\ Len(p) \in Nat /\ \A i \in 1..Len(p) : p[i] \in CapSegments
  OBVIOUS
<1>3. Norm(p) = [i \in 1..Len(p) |-> IF i \in {1, Len(p)} /\ p[i] = PaddedUp THEN Up ELSE p[i]]
  BY <1>2 DEF Norm
<1>4. Norm(p) \in [1..Len(p) -> CapSegments]
  BY <1>1, <1>2, <1>3
<1>5. Norm(p) \in Seq(CapSegments) /\ Len(Norm(p)) = Len(p)
  BY <1>2, <1>4
<1>6. \A i \in 1..Len(p) : i \in {1, Len(p)} => Norm(p)[i] # PaddedUp
  BY <1>1, <1>3
<1>7. Norm(Norm(p)) = [i \in 1..Len(p) |-> Norm(p)[i]]
  BY <1>4, <1>5, <1>6 DEF Norm
<1>8. QED
  BY <1>4, <1>5, <1>7

(* The round trip of drive_prefix and parse_drive_prefix. *)
LEMMA PrefixParses ==
  ASSUME NEW d \in Drives, NEW p \in PathSet
  PROVE  /\ DrivePrefix(d, p) \in CapPrefixes
         /\ Bound(DrivePrefix(d, p))
         /\ DriveOf(DrivePrefix(d, p)) = d
         /\ ScopeOf(DrivePrefix(d, p)) = Norm(p)
<1> DEFINE n == Norm(p)
           q == <<Namespace, d>> \o n
<1>1. p \in Seq(CapSegments)
  BY SeqGrows, Segments \subseteq CapSegments DEF PathSet, CapSegments
<1>2. n \in Seq(CapSegments) /\ Norm(n) = n
  BY <1>1, NormType
<1> HIDE DEF n
<1>3. <<Namespace, d>> \in Seq(CapSegments)
  BY DEF CapSegments
<1>4. q \in Seq(CapSegments) /\ Len(q) = Len(n) + 2 /\ q[1] = Namespace /\ q[2] = d
  BY <1>2, <1>3
<1>5. \A i \in 1..Len(n) : q[i + 2] = n[i]
  BY <1>2, <1>3
<1>6. SubSeq(q, 3, Len(q)) = n
  BY <1>2, <1>4, <1>5
<1>7. DrivePrefix(d, p) = q
  BY DEF DrivePrefix, n
<1> HIDE DEF q
<1>8. ScopeOf(q) = n
  BY <1>2, <1>6 DEF ScopeOf
<1>9. q \in CapPrefixes /\ Bound(q) /\ DriveOf(q) = d
  BY <1>2, <1>4 DEF CapPrefixes, CapSegments, Bound, DriveOf
<1> QED
  BY <1>7, <1>8, <1>9 DEF n

(* The subtree of any prefix is a sequence of segments. *)
LEMMA ScopeType ==
  ASSUME NEW c \in Caps, Bound(c.prefix)
  PROVE  ScopeOf(c.prefix) \in Seq(CapSegments)
<1>1. SubSeq(c.prefix, 3, Len(c.prefix)) \in Seq(CapSegments)
  BY DEF Caps, CapPrefixes, CapSegments, Bound
<1> QED
  BY <1>1, NormType DEF ScopeOf

(* Requests name paths of the set Paths. *)
LEMMA OpPaths ==
  ASSUME NEW op \in Ops, NEW p \in op.paths
  PROVE  p \in Paths /\ p \in Seq(CapSegments) /\ Norm(p) \in Seq(CapSegments)
<1>1. p \in Paths
  BY DEF Ops
<1>2. p \in Seq(Segments)
  BY <1>1, GrantsAssumption DEF PathSet
<1>3. p \in Seq(CapSegments)
  BY <1>2, SeqGrows, Segments \subseteq CapSegments DEF CapSegments
<1> QED
  BY <1>1, <1>3, NormType

-------------------------------------------------------------------------------
(* The type invariant: what the host mints is a capability with at least    *)
(* one ability, whatever it was asked for.                                  *)
THEOREM TypeCorrect == Spec => []TypeOK
<1>1. Init => TypeOK
  BY GrantsAssumption DEF Init, TypeOK
<1>2. TypeOK /\ [Next]_vars => TypeOK'
  <2> SUFFICES ASSUME TypeOK, [Next]_vars PROVE TypeOK'
    OBVIOUS
  <2>1. ASSUME NEW from \in Holders, NEW aud \in Holders, NEW c \in granted \union shared,
               NEW d \in Drives, NEW p \in Paths, NEW asked \in Asked, NEW until \in 0..MaxClock,
               Share(from, c, d, p, aud, asked, until)
        PROVE  TypeOK'
    <3> DEFINE m == Minted(from, c, d, p, aud, asked, until)
    <3>1. c \in Caps /\ asked \subseteq Abilities
      BY GrantsAssumption DEF TypeOK
    <3>2. p \in PathSet /\ p \in CapPrefixes
      <4>1. p \in Seq(Segments)
        BY GrantsAssumption DEF PathSet
      <4> QED BY <4>1, SeqGrows, Segments \subseteq CapSegments
              DEF PathSet, CapPrefixes, CapSegments
    <3>3. Requested(c, asked) \subseteq Abilities /\ Requested(c, asked) # {}
      BY <2>1, <3>1 DEF Share, Mints, Requested, Abilities, Caps
    <3>4. NotAfter(until, c.notAfter) \in 0..MaxClock
      BY <3>1 DEF NotAfter, Caps
    <3>5. NewPrefix(d, p) \in CapPrefixes
      BY <3>2, PrefixParses DEF NewPrefix
    <3>6. [by |-> from, of |-> p] \in Nonces
      BY <3>2 DEF Nonces
    <3>7. m \in Caps /\ m.abilities # {}
      BY <3>3, <3>4, <3>5, <3>6 DEF Minted, Caps
    <3> QED BY <2>1, <3>7 DEF Share, TypeOK
  <2>2. ASSUME NEW h \in Holders, NEW role \in Roles, NEW prefix \in OwnerPrefixes,
               NEW until \in 0..MaxClock, Grant(h, role, prefix, until)
        PROVE  TypeOK'
    <3>1. prefix \in CapPrefixes
      <4>1. \A q \in OwnPaths : q \in PathSet
        BY GrantsAssumption
      <4>2. << >> \in CapPrefixes
        BY DEF CapPrefixes
      <4> QED BY <4>1, <4>2, PrefixParses DEF OwnerPrefixes
    <3>2. role \subseteq Abilities
      BY GrantsAssumption
    <3>3. [by |-> Owner, of |-> prefix] \in Nonces
      BY <3>1 DEF Nonces
    <3> QED BY <2>2, <3>1, <3>2, <3>3 DEF Grant, TypeOK, Caps
  <2>3. ASSUME NEW c \in granted \union shared, Revoke(c)
        PROVE  TypeOK'
    BY <2>3 DEF Revoke, TypeOK, Caps
  <2>4. CASE ClockTick
    BY <2>4, GrantsAssumption DEF ClockTick, TypeOK
  <2>5. CASE UNCHANGED vars
    BY <2>5 DEF vars, TypeOK
  <2> QED BY <2>1, <2>2, <2>3, <2>4, <2>5 DEF Next
<1> QED BY <1>1, <1>2, PTL DEF Spec

-------------------------------------------------------------------------------
(* Attenuation composes. *)
LEMMA NarrowerTransitive ==
  ASSUME NEW b \in Caps, NEW c \in Caps, NEW g \in Caps, Narrower(b, c), Narrower(c, g)
  PROVE  Narrower(b, g)
<1>1. IsPrefix(ScopeOf(g.prefix), ScopeOf(b.prefix))
  BY ScopeType, PrefixTransitive DEF Narrower
<1>2. b.abilities \subseteq Rights(g)
  BY DEF Narrower, Rights
<1>3. g.notAfter # 0 => b.notAfter # 0 /\ b.notAfter <= g.notAfter
  BY DEF Narrower, Caps
<1> QED BY <1>1, <1>2, <1>3 DEF Narrower

(* What Share mints is narrower than the capability it was shown. *)
LEMMA MintedNarrower ==
  ASSUME TypeOK, NEW from \in Holders, NEW aud \in Holders, NEW c \in granted \union shared,
         NEW d \in Drives, NEW p \in Paths, NEW asked \in Asked, NEW until \in 0..MaxClock,
         Share(from, c, d, p, aud, asked, until)
  PROVE  Narrower(Minted(from, c, d, p, aud, asked, until), c)
<1> DEFINE m == Minted(from, c, d, p, aud, asked, until)
<1>1. c \in Caps
  BY DEF TypeOK
<1>2. p \in PathSet /\ Norm(p) \in Seq(CapSegments)
  BY GrantsAssumption, SeqGrows, Segments \subseteq CapSegments, NormType
  DEF PathSet, CapSegments
<1>3. /\ "admin" \in c.abilities
      /\ Bound(c.prefix) /\ DriveOf(c.prefix) = d
      /\ Within(ScopeOf(c.prefix), Norm(p))
  BY DEF Share, Passes, Accepts, Verified, RequiredAbility, ReadKinds, WriteKinds
<1>4. Bound(m.prefix) /\ DriveOf(m.prefix) = d /\ ScopeOf(m.prefix) = Norm(p)
  BY <1>2, PrefixParses DEF Minted, NewPrefix
<1>5. IsPrefix(ScopeOf(c.prefix), ScopeOf(m.prefix))
  BY <1>1, <1>2, <1>3, <1>4, ScopeType, WithinIsPrefix
<1>6. m.abilities \subseteq Rights(c)
  BY <1>3 DEF Minted, Requested, Rights
<1>7. c.notAfter # 0 => m.notAfter # 0 /\ m.notAfter <= c.notAfter
  BY <1>1 DEF Minted, NotAfter, Caps
<1> QED BY <1>3, <1>4, <1>5, <1>6, <1>7 DEF Narrower

(* A bound capability is narrower than itself. *)
LEMMA NarrowerReflexive ==
  ASSUME NEW c \in Caps, Bound(c.prefix)
  PROVE  Narrower(c, c)
<1>1. IsPrefix(ScopeOf(c.prefix), ScopeOf(c.prefix))
  BY ScopeType DEF IsPrefix
<1> QED BY <1>1 DEF Narrower, Rights, Caps

(* Sharing attenuates, through any number of hands: whatever Share has      *)
(* minted lies within one grant of the owner, in its drive, its subtree,    *)
(* its abilities and its expiry.                                            *)
SharesNarrow == \A c \in shared : \E g \in granted : Narrower(c, g)

(* Whatever Share mints, through any number of hands, lies within a grant  *)
(* of the owner.                                                            *)
THEOREM SharesStayNarrow == Spec => []SharesNarrow
<1>1. Init => SharesNarrow
  BY DEF Init, SharesNarrow
<1>2. TypeOK /\ TypeOK' /\ SharesNarrow /\ [Next]_vars => SharesNarrow'
  <2> SUFFICES ASSUME TypeOK, TypeOK', SharesNarrow, [Next]_vars PROVE SharesNarrow'
    OBVIOUS
  <2>1. ASSUME NEW from \in Holders, NEW aud \in Holders, NEW c \in granted \union shared,
               NEW d \in Drives, NEW p \in Paths, NEW asked \in Asked, NEW until \in 0..MaxClock,
               Share(from, c, d, p, aud, asked, until)
        PROVE  SharesNarrow'
    <3> DEFINE m == Minted(from, c, d, p, aud, asked, until)
    <3>1. Narrower(m, c)
      BY <2>1, MintedNarrower
    <3>2. m \in Caps /\ c \in Caps /\ \A g \in granted : g \in Caps
      BY <2>1 DEF Share, TypeOK
    <3>3. PICK g \in granted : Narrower(m, g)
      <4>1. CASE c \in granted
        BY <3>1, <4>1
      <4>2. CASE c \in shared
        <5>1. PICK g \in granted : Narrower(c, g)
          BY <4>2 DEF SharesNarrow
        <5> QED BY <3>1, <3>2, <5>1, NarrowerTransitive
      <4> QED BY <4>1, <4>2
    <3>4. shared' = shared \union {m} /\ granted' = granted
      BY <2>1 DEF Share
    <3> HIDE DEF m
    <3> QED BY <3>3, <3>4 DEF SharesNarrow
  <2>2. CASE \/ \E h \in Holders, role \in Roles, prefix \in OwnerPrefixes, until \in 0..MaxClock :
                  Grant(h, role, prefix, until)
             \/ \E c \in granted \union shared : Revoke(c)
             \/ ClockTick
             \/ UNCHANGED vars
    <3>1. shared' = shared /\ granted \subseteq granted'
      BY <2>2 DEF Grant, Revoke, ClockTick, vars
    <3> QED BY <3>1 DEF SharesNarrow
  <2> QED BY <2>1, <2>2 DEF Next
<1> QED BY <1>1, <1>2, TypeCorrect, PTL DEF Spec

(* Every request that passes the gate is covered by a grant of the owner    *)
(* that is still valid: its trimmed paths begin with the segments of that   *)
(* grant's subtree, and have ".." at most at their ends.                    *)
THEOREM GateIsSound == Spec => []GateSound
<1>1. TypeOK /\ SharesNarrow => GateSound
  <2> SUFFICES ASSUME TypeOK, SharesNarrow,
                      NEW c \in granted \union shared, NEW d \in Drives, NEW op \in Ops,
                      NEW rev \in Fetched, Accepts(c.aud, c, d, op, rev)
               PROVE  \E g \in granted :
                        /\ ~Expired(g)
                        /\ Bound(g.prefix) /\ DriveOf(g.prefix) = d
                        /\ RequiredAbility(op.kind) \in Rights(g)
                        /\ \A p \in op.paths :
                             /\ IsPrefix(ScopeOf(g.prefix), Norm(p))
                             /\ \A i \in 2..Len(p) - 1 : Norm(p)[i] # Up
    BY DEF GateSound, Passes
  <2>1. c \in Caps /\ Bound(c.prefix) /\ DriveOf(c.prefix) = d
    BY DEF TypeOK, Accepts
  <2>2. PICK g \in granted : Narrower(c, g)
    <3>1. CASE c \in granted
      BY <2>1, <3>1, NarrowerReflexive
    <3>2. CASE c \in shared
      BY <3>2 DEF SharesNarrow
    <3> QED BY <3>1, <3>2
  <2>3. g \in Caps
    BY DEF TypeOK
  <2>4. ~Expired(g)
    BY <2>1, <2>2, <2>3 DEF Accepts, Verified, Expired, Narrower, TypeOK, Caps
  <2>5. RequiredAbility(op.kind) \in Rights(g)
    BY <2>2 DEF Accepts, Verified, Narrower
  <2>6. ASSUME NEW p \in op.paths
        PROVE  /\ IsPrefix(ScopeOf(g.prefix), Norm(p))
               /\ \A i \in 2..Len(p) - 1 : Norm(p)[i] # Up
    <3>1. NoDotDot(p) /\ Within(ScopeOf(c.prefix), Norm(p))
      BY DEF Accepts
    <3>2. p \in Seq(CapSegments) /\ Norm(p) \in Seq(CapSegments)
      BY OpPaths
    <3>3. /\ ScopeOf(c.prefix) \in Seq(CapSegments) /\ ScopeOf(g.prefix) \in Seq(CapSegments)
          /\ IsPrefix(ScopeOf(g.prefix), ScopeOf(c.prefix))
      BY <2>1, <2>2, <2>3, ScopeType DEF Narrower
    <3>4. IsPrefix(ScopeOf(c.prefix), Norm(p))
      BY <3>1, <3>2, <3>3, WithinIsPrefix
    <3>5. IsPrefix(ScopeOf(g.prefix), Norm(p))
      BY <3>2, <3>3, <3>4, PrefixTransitive
    <3>6. ASSUME NEW i \in 2..Len(p) - 1
          PROVE  Norm(p)[i] # Up
      <4>1. i \in DOMAIN p /\ i \notin {1, Len(p)}
        BY <3>2
      <4>2. Norm(p)[i] = p[i]
        BY <4>1 DEF Norm
      <4> QED BY <3>1, <4>1, <4>2 DEF NoDotDot
    <3> QED BY <3>5, <3>6
  <2>7. Bound(g.prefix) /\ DriveOf(g.prefix) = d
    BY <2>1, <2>2 DEF Narrower
  <2> QED BY <2>4, <2>5, <2>6, <2>7
<1> QED BY <1>1, TypeCorrect, SharesStayNarrow, PTL

-------------------------------------------------------------------------------
(* A minted capability names a path, on a drive, that the gate has seen.    *)
SharedScoped ==
  \A c \in shared : \E d \in Drives, p \in Paths :
    NoDotDot(p) /\ c.prefix = DrivePrefix(d, p)

LEMMA ScopedStep ==
  ASSUME SharedScoped, [Next]_vars
  PROVE  SharedScoped'
<1>1. ASSUME NEW from \in Holders, NEW aud \in Holders, NEW c \in granted \union shared,
             NEW d \in Drives, NEW p \in Paths, NEW asked \in Asked, NEW until \in 0..MaxClock,
             Share(from, c, d, p, aud, asked, until)
      PROVE  SharedScoped'
  <2> DEFINE m == Minted(from, c, d, p, aud, asked, until)
  <2>1. NoDotDot(p)
    BY <1>1 DEF Share, Passes, Accepts
  <2>2. m.prefix = DrivePrefix(d, p)
    BY DEF Minted, NewPrefix
  <2>3. shared' = shared \union {m}
    BY <1>1 DEF Share
  <2> HIDE DEF m
  <2> QED BY <2>1, <2>2, <2>3 DEF SharedScoped
<1>2. CASE \/ \E h \in Holders, role \in Roles, prefix \in OwnerPrefixes, until \in 0..MaxClock :
                Grant(h, role, prefix, until)
           \/ \E c \in granted \union shared : Revoke(c)
           \/ ClockTick
           \/ UNCHANGED vars
  <2>1. shared' = shared
    BY <1>2 DEF Grant, Revoke, ClockTick, vars
  <2> QED BY <2>1 DEF SharedScoped
<1> QED BY <1>1, <1>2 DEF Next

(* Every verb can be asked for on every path, or on none if it names none.  *)
LEMMA OpAbout ==
  ASSUME NEW k \in Kinds, NEW p \in Paths
  PROVE  \E ps \in {{}, {p}} : [kind |-> k, paths |-> ps] \in Ops
<1>1. k \in Pathless => [kind |-> k, paths |-> {}] \in Ops
  BY DEF Ops
<1>2. k \in TwoPaths => [kind |-> k, paths |-> {p}] \in Ops
  <2>1. {p} = {p, p}
    OBVIOUS
  <2> QED BY <2>1 DEF Ops
<1>3. k \notin Pathless \union TwoPaths => [kind |-> k, paths |-> {p}] \in Ops
  BY DEF Ops
<1> QED BY <1>1, <1>2, <1>3

(* Whoever is given a capability by Share can use each verb it lists on the *)
(* very path it was minted for.                                             *)
THEOREM SharesAreUsable == Spec => []SharedUsable
<1>1. Init => SharedScoped
  BY DEF Init, SharedScoped
<1>2. SharedScoped => SharedUsable
  <2> SUFFICES ASSUME SharedScoped, NEW c \in shared, NEW k \in Kinds,
                      c.nonce \notin revoked, ~Expired(c), RequiredAbility(k) \in c.abilities
               PROVE  \E d \in Drives, op \in Ops :
                        op.kind = k /\ Accepts(c.aud, c, d, op, revoked)
    BY DEF SharedUsable
  <2>1. PICK d \in Drives, p \in Paths : NoDotDot(p) /\ c.prefix = DrivePrefix(d, p)
    BY DEF SharedScoped
  <2>2. Bound(c.prefix) /\ DriveOf(c.prefix) = d /\ ScopeOf(c.prefix) = Norm(p)
    BY <2>1, PrefixParses, GrantsAssumption
  <2>3. PICK ps \in {{}, {p}} : [kind |-> k, paths |-> ps] \in Ops
    BY OpAbout
  <2>4. \A q \in ps : NoDotDot(q) /\ Within(ScopeOf(c.prefix), Norm(q))
    BY <2>1, <2>2 DEF Within
  <2>5. Accepts(c.aud, c, d, [kind |-> k, paths |-> ps], revoked)
    BY <2>2, <2>4 DEF Accepts, Verified
  <2> QED BY <2>3, <2>5
<1> QED BY <1>1, <1>2, ScopedStep, PTL DEF Spec
===============================================================================
