------------------------ MODULE ClientViewInvariant ------------------------
(***************************************************************************)
(* The inductive invariant of ClientViewSync, what a step may change       *)
(* without disturbing it, and the steps that write no version of the CVR   *)
(* except the first: the clients', the mutations', and those that fail.    *)
(*                                                                         *)
(* Every version of the CVR that was ever written is kept in cvrs, and the *)
(* invariant is about them: a version holds the rows that its queries      *)
(* select at its version of the replica (Recording), each changed last in  *)
(* the version of its patch.  The row records in the database are those of *)
(* one of the versions, and if it is not the latest then one syncer has    *)
(* what is missing (Stored).  A syncer whose cvr is the latest one has the *)
(* row records of that version, pipelines that show the same rows, and an  *)
(* update in progress that leads from it to the next (Current); one whose  *)
(* CVR is old may have anything, since its flush or its catchup finds out. *)
(* A client has the rows of the version of its cookie (Seeing), so a poke  *)
(* from that version on brings it to the next.                             *)
(*                                                                         *)
(* The parts are operators of the components of the state, so that a lemma *)
(* can be cited for a component that a step has changed.                   *)
(***************************************************************************)
EXTENDS ClientViewSync, WellFoundedInduction, TLAPS

-----------------------------------------------------------------------------
(* Versions are ordered. *)

Version == Nat \X Nat
Cookie == {NoVersion} \cup Version

LEMMA VersionParts ==
    ASSUME NEW v \in Cookie
    PROVE  v = <<v[1], v[2]>> /\ v[1] \in Int /\ v[2] \in Nat /\ v[1] >= -1
BY DEF Cookie, Version, NoVersion

LEMMA VersionOrder ==
    ASSUME NEW a \in Cookie, NEW b \in Cookie, NEW c \in Cookie
    PROVE  /\ ~Less(a, a) /\ AtMost(a, a)
           /\ Less(a, b) /\ Less(b, c) => Less(a, c)
           /\ AtMost(a, b) /\ AtMost(b, c) => AtMost(a, c)
           /\ AtMost(a, b) /\ Less(b, c) => Less(a, c)
           /\ Less(a, b) /\ AtMost(b, c) => Less(a, c)
           /\ Less(a, b) => AtMost(a, b) /\ ~AtMost(b, a) /\ a # b
           /\ ~Less(a, b) => AtMost(b, a)
           /\ AtMost(a, b) => a = b \/ Less(a, b)
           /\ AtMost(a, b) => ~Less(b, a)
           /\ ~AtMost(a, b) => Less(b, a)
<1>1. /\ a = <<a[1], a[2]>> /\ a[1] \in Int /\ a[2] \in Nat
      /\ b = <<b[1], b[2]>> /\ b[1] \in Int /\ b[2] \in Nat
      /\ c = <<c[1], c[2]>> /\ c[1] \in Int /\ c[2] \in Nat
  BY VersionParts
<1>2. /\ a = b <=> a[1] = b[1] /\ a[2] = b[2]
      /\ b = c <=> b[1] = c[1] /\ b[2] = c[2]
      /\ a = c <=> a[1] = c[1] /\ a[2] = c[2]
  BY <1>1
<1> QED
  BY <1>1, <1>2 DEF Less, AtMost

LEMMA NoVersionFirst ==
    ASSUME NEW v \in Version
    PROVE  Less(NoVersion, v) /\ v # NoVersion /\ v \in Cookie /\ AtMost(EmptyVersion, v)
<1>1. v = <<v[1], v[2]>> /\ v[1] \in Nat /\ v[2] \in Nat
  BY DEF Version
<1> QED
  BY <1>1 DEF Cookie, Version, NoVersion, Less, AtMost, EmptyVersion

LEMMA VersionNext ==
    ASSUME NEW v \in Version
    PROVE  /\ OneAfter(v) \in Version /\ Less(v, OneAfter(v)) /\ OneAfter(v)[1] = v[1]
           /\ \A n \in Nat : n > v[1] =>
                 <<n, 0>> \in Version /\ Less(v, <<n, 0>>) /\ <<n, 0>>[1] = n
<1>1. v = <<v[1], v[2]>> /\ v[1] \in Nat /\ v[2] \in Nat
  BY DEF Version
<1> QED
  BY <1>1 DEF OneAfter, Less, Version

\* A set of versions has a least one.
LEMMA LeastVersion ==
    ASSUME NEW S \in SUBSET Cookie, S # {}
    PROVE  \E v \in S : \A w \in S : AtMost(v, w)
<1> DEFINE R == {p \in Nat \X Nat : p[1] < p[2]}
           Up(v) == <<v[1] + 1, v[2]>>
           T == {Up(v) : v \in S}
<1>1. IsWellFoundedOn(R, Nat)
  BY NatLessThanWellFounded DEF OpToRel
<1>2. \A v \in S : Up(v) \in Nat \X Nat
  BY VersionParts
<1>3. T \subseteq Nat \X Nat /\ T # {}
  BY <1>2
<1>4. \E x \in T : \A y \in T : <<y, x>> \notin LexPairOrdering(R, R, Nat, Nat)
  <2> HIDE DEF R, T
  <2>1. IsWellFoundedOn(LexPairOrdering(R, R, Nat, Nat), Nat \X Nat)
    BY <1>1, WFLexPairOrdering
  <2>2. PICK L : L = LexPairOrdering(R, R, Nat, Nat)
    OBVIOUS
  <2>3. PICK N : N = Nat \X Nat
    OBVIOUS
  <2>4. \E x \in T : \A y \in T : ~(<<y, x>> \in L)
    BY <1>3, <2>1, <2>2, <2>3, WFMin
  <2> QED
    BY <2>2, <2>4
<1>5. PICK v \in S : \A w \in S : <<Up(w), Up(v)>> \notin LexPairOrdering(R, R, Nat, Nat)
  BY <1>4
<1>6. ASSUME NEW w \in S
      PROVE  AtMost(v, w)
  <2>1. /\ v = <<v[1], v[2]>> /\ v[1] \in Int /\ v[2] \in Nat /\ v[1] >= -1
        /\ w = <<w[1], w[2]>> /\ w[1] \in Int /\ w[2] \in Nat /\ w[1] >= -1
    BY VersionParts
  <2>2. ~(w[1] + 1 < v[1] + 1) /\ ~(w[1] + 1 = v[1] + 1 /\ w[2] < v[2])
    BY <1>2, <1>5, <2>1 DEF LexPairOrdering
  <2> QED
    BY <2>1, <2>2 DEF AtMost, Less
<1> QED
  BY <1>6


-----------------------------------------------------------------------------
(* Row records. *)

Rec == [refs : [Queries -> Nat], at : 0..MaxVersion, patch : Version]

\* The rows of these queries, at a version of the replica.
Exact(rows, got, n, lg) ==
    \A r \in Rows :
        /\ \A q \in Queries :
              rows[r].refs[q] = IF q \in got /\ r \in Selects[q] /\ n > 0 /\ lg[n][r] # 0
                                THEN 1 ELSE 0
        /\ IF Referenced(rows[r]) THEN rows[r].at = lg[n][r] ELSE rows[r] = Absent

LEMMA OverFacts ==
    ASSUME NEW f, NEW g, NEW h, h = f ++ g
    PROVE  /\ DOMAIN h = DOMAIN f \cup DOMAIN g
           /\ \A x \in DOMAIN f : h[x] = f[x]
           /\ \A x \in DOMAIN g \ DOMAIN f : h[x] = g[x]
BY DEF ++

LEMMA AbsentFacts ==
    /\ ~Referenced(Absent) /\ Absent \in Rec
    /\ \A q \in Queries : Absent.refs[q] = 0
<1>1. MaxVersion \in Nat
  BY ViewSyncAssumption
<1>2. \A q \in Queries : NoRefs[q] = 0
  BY DEF NoRefs
<1>3. NoRefs \in [Queries -> Nat]
  BY DEF NoRefs
<1>4. EmptyVersion \in Version
  BY DEF EmptyVersion, Version
<1> QED
  BY <1>1, <1>2, <1>3, <1>4 DEF Absent, Rec, Referenced

LEMMA CachedFacts ==
    ASSUME NEW rows, NEW r \in Rows
    PROVE  /\ Cached(rows)[r] = IF Referenced(rows[r]) THEN rows[r] ELSE Absent
           /\ Referenced(Cached(rows)[r]) <=> Referenced(rows[r])
           /\ View(Cached(rows))[r] = View(rows)[r]
           /\ View(rows)[r] = IF Referenced(rows[r]) THEN rows[r].at ELSE 0
<1>1. Cached(rows)[r] = IF Referenced(rows[r]) THEN rows[r] ELSE Absent
  BY DEF Cached
<1>2. Referenced(Cached(rows)[r]) <=> Referenced(rows[r])
  BY <1>1, AbsentFacts
<1>3. /\ View(rows)[r] = IF Referenced(rows[r]) THEN rows[r].at ELSE 0
      /\ View(Cached(rows))[r]
            = IF Referenced(Cached(rows)[r]) THEN Cached(rows)[r].at ELSE 0
  BY DEF View
<1> QED
  BY <1>1, <1>2, <1>3

\* What a record says follows from the queries and the replica.
LEMMA Counted ==
    ASSUME NEW rows, NEW got \in SUBSET Queries, NEW n, NEW lg, Exact(rows, got, n, lg),
           NEW r \in Rows
    PROVE  /\ Referenced(rows[r]) <=> n > 0 /\ lg[n][r] # 0 /\ \E q \in got : r \in Selects[q]
           /\ Referenced(rows[r]) => rows[r].at = lg[n][r] /\ lg[n][r] # 0
           /\ ~Referenced(rows[r]) => rows[r] = Absent
<1>1. \A q \in Queries :
         rows[r].refs[q] = IF q \in got /\ r \in Selects[q] /\ n > 0 /\ lg[n][r] # 0
                           THEN 1 ELSE 0
  BY DEF Exact
<1>2. IF Referenced(rows[r]) THEN rows[r].at = lg[n][r] ELSE rows[r] = Absent
  BY DEF Exact
<1>3. Referenced(rows[r]) <=> n > 0 /\ lg[n][r] # 0 /\ \E q \in got : r \in Selects[q]
  BY <1>1 DEF Referenced
<1> QED
  BY <1>2, <1>3

LEMMA UpdatedFacts ==
    ASSUME NEW old, NEW refs \in [Queries -> Int], NEW version \in Nat, NEW to, NEW u,
           u = Updated(old, refs, version, to)
    PROVE  /\ Referenced(u) <=> \E q \in Queries : refs[q] > 0
           /\ Referenced(u) => /\ u = [refs |-> refs, at |-> u.at, patch |-> u.patch]
                               /\ version # 0 => u.at = version
                               /\ version = 0 => u.at = old.at
                               /\ Referenced(old) /\ old.at = version => u.patch = old.patch
                               /\ ~(Referenced(old) /\ old.at = version) => u.patch = to
           /\ ~Referenced(u) => u = [refs |-> NoRefs, at |-> old.at, patch |-> to]
<1>1. CASE \A q \in Queries : refs[q] <= 0
  <2>1. u = [refs |-> NoRefs, at |-> old.at, patch |-> to]
    BY <1>1 DEF Updated
  <2>2. ~Referenced(u)
    BY <2>1 DEF Referenced, NoRefs
  <2>3. ~ \E q \in Queries : refs[q] > 0
    BY <1>1
  <2> QED
    BY <2>1, <2>2, <2>3
<1>2. CASE ~ \A q \in Queries : refs[q] <= 0
  <2>1. u = [refs |-> refs, at |-> IF version = 0 THEN old.at ELSE version,
             patch |-> IF Referenced(old) /\ old.at = version THEN old.patch ELSE to]
    BY <1>2 DEF Updated
  <2>2. \E q \in Queries : refs[q] > 0
    BY <1>2
  <2>3. Referenced(u)
    BY <2>1, <2>2 DEF Referenced
  <2> QED
    BY <2>1, <2>2, <2>3
<1> QED
  BY <1>1, <1>2

LEMMA ChangesFacts ==
    ASSUME NEW old, DOMAIN old = Rows, \A r \in Rows : Referenced(old[r]) \/ old[r] = Absent,
           NEW new, DOMAIN new \subseteq Rows, NEW rows, rows = Changes(old, new)
    PROVE  /\ \A r \in DOMAIN rows : /\ r \in DOMAIN new /\ rows[r] = new[r] /\ r \in Rows
                                     /\ Referenced(old[r]) \/ Referenced(new[r])
           /\ \A r \in DOMAIN new \ DOMAIN rows :
                 new[r] = old[r] \/ (~Referenced(old[r]) /\ ~Referenced(new[r]))
           /\ \A r \in DOMAIN new : Cached(rows ++ old)[r] = IF Referenced(new[r]) THEN new[r] ELSE Absent
           /\ \A r \in Rows \ DOMAIN new : Cached(rows ++ old)[r] = old[r]
<1>1. /\ \A r \in DOMAIN rows : /\ r \in DOMAIN new /\ rows[r] = new[r] /\ r \in Rows
                                /\ Referenced(old[r]) \/ Referenced(new[r])
      /\ \A r \in DOMAIN new \ DOMAIN rows :
            new[r] = old[r] \/ (~Referenced(old[r]) /\ ~Referenced(new[r]))
  BY DEF Changes
<1>0. PICK all : all = rows ++ old
  OBVIOUS
<1>2. /\ \A r \in DOMAIN rows : all[r] = rows[r]
      /\ \A r \in Rows \ DOMAIN rows : all[r] = old[r]
  <2>1. /\ \A x \in DOMAIN rows : all[x] = rows[x]
        /\ \A x \in DOMAIN old \ DOMAIN rows : all[x] = old[x]
    BY <1>0 DEF ++
  <2> QED
    BY <2>1
<1>3. \A r \in Rows : Cached(all)[r] = IF Referenced(all[r]) THEN all[r] ELSE Absent
  BY CachedFacts
<1>4. \A r \in DOMAIN new : Cached(all)[r] = IF Referenced(new[r]) THEN new[r] ELSE Absent
  BY <1>1, <1>2, <1>3
<1>5. \A r \in Rows \ DOMAIN new : Cached(all)[r] = old[r]
  BY <1>1, <1>2, <1>3
<1> QED
  BY <1>0, <1>1, <1>4, <1>5


\* What an operation sends takes a client from one version to the next.
Shown(patches, to, old, new) ==
    /\ \A r \in DOMAIN patches : patches[r].row = View(new)[r]
    /\ \A r \in Rows : View(old)[r] # View(new)[r] => r \in DOMAIN patches /\ patches[r].to = to

\* It also has the patches of the rows of queries it hydrates.
Hydrated(patches, adds, rows) ==
    \A r \in Rows : \A q \in adds : rows[r].refs[q] # 0 =>
        r \in DOMAIN patches /\ patches[r].to = rows[r].patch

\* A record that is written has a new patch if its row has changed, and keeps it
\* if not.
Recorded(rows, to, old, new) ==
    \A r \in DOMAIN rows :
        /\ r \in Rows
        /\ rows[r] \in Rec
        /\ \/ rows[r].patch = to /\ View(old)[r] # View(new)[r]
           \/ /\ Referenced(old[r]) /\ rows[r].patch = old[r].patch
              /\ View(old)[r] = View(new)[r]

\* The new records of the rows an update touches, when it is about these queries
\* at this version of the replica.
Renewed(new, old, received, got, n, lg, to) ==
    /\ DOMAIN new \subseteq Rows
    /\ \A r \in DOMAIN new :
          /\ new[r] \in Rec
          /\ \A q \in Queries :
                new[r].refs[q] = IF q \in got /\ r \in Selects[q] /\ lg[n][r] # 0 THEN 1 ELSE 0
          /\ ~Referenced(new[r]) => new[r].patch = to
          /\ Referenced(new[r]) =>
                /\ new[r].at = lg[n][r]
                /\ Referenced(old[r]) /\ old[r].at = lg[n][r] => new[r].patch = old[r].patch
                /\ ~(Referenced(old[r]) /\ old[r].at = lg[n][r]) =>
                      new[r].patch = to /\ received[r] # 0
                /\ received[r] # 0 => received[r] = lg[n][r]
    /\ \A r \in Rows \ DOMAIN new :
          /\ \A q \in Queries :
                old[r].refs[q] = IF q \in got /\ r \in Selects[q] /\ lg[n][r] # 0 THEN 1 ELSE 0
          /\ Referenced(old[r]) => old[r].at = lg[n][r]

LEMMA PatchesFacts ==
    ASSUME NEW old, NEW new, NEW received, NEW to, NEW patches,
           patches = Patches(old, new, received, to)
    PROVE  \A r : r \in DOMAIN patches <=>
              /\ r \in DOMAIN new
              /\ \/ Referenced(old[r]) /\ ~Referenced(new[r])
                 \/ Referenced(new[r]) /\ received[r] # 0
BY DEF Patches

LEMMA PatchesValues ==
    ASSUME NEW old, NEW new, NEW received, NEW to, NEW patches,
           patches = Patches(old, new, received, to), NEW r \in DOMAIN new
    PROVE  /\ Referenced(old[r]) /\ ~Referenced(new[r]) => patches[r] = [row |-> 0, to |-> to]
           /\ Referenced(new[r]) /\ received[r] # 0 =>
                 patches[r] = [row |-> received[r], to |-> new[r].patch]
BY DEF Patches

\* All that goes into an update and comes out of it.
Renewing(lg, n, m, got, was, old, new, received, to, rows, all, patches) ==
    /\ n \in Nat \ {0} /\ lg[n] \in [Rows -> Nat]
    /\ got \in SUBSET Queries /\ was \in SUBSET Queries
    /\ old \in [Rows -> Rec] /\ Exact(old, was, m, lg)
    /\ Renewed(new, old, received, got, n, lg, to)
    /\ rows = Changes(old, new)
    /\ all = Cached(rows ++ old)
    /\ patches = Patches(old, new, received, to)

\* An update leaves the rows of its queries, and what is written and sent tells
\* which of them have changed.
LEMMA Renewal ==
    ASSUME NEW lg, NEW n, NEW m, NEW got, NEW was, NEW old, NEW new, NEW received, NEW to,
           NEW rows, NEW all, NEW patches,
           Renewing(lg, n, m, got, was, old, new, received, to, rows, all, patches)
    PROVE  /\ Exact(all, got, n, lg)
           /\ Shown(patches, to, old, all)
           /\ Recorded(rows, to, old, all)
           /\ DOMAIN rows = {} => all = old
           /\ DOMAIN patches \subseteq Rows
           /\ \A r \in DOMAIN patches : patches[r].to = to \/ patches[r].to = all[r].patch
           /\ \A r \in DOMAIN new : Referenced(new[r]) /\ received[r] # 0 =>
                 r \in DOMAIN patches /\ patches[r].to = all[r].patch
<1>0. /\ n \in Nat \ {0} /\ lg[n] \in [Rows -> Nat]
      /\ got \in SUBSET Queries /\ was \in SUBSET Queries
      /\ old \in [Rows -> Rec] /\ Exact(old, was, m, lg)
      /\ Renewed(new, old, received, got, n, lg, to)
      /\ rows = Changes(old, new)
      /\ all = Cached(rows ++ old)
      /\ patches = Patches(old, new, received, to)
  BY DEF Renewing
<1> USE <1>0
<1>1. \A r \in Rows : Referenced(old[r]) \/ old[r] = Absent
  BY DEF Exact
<1>2. /\ \A r \in DOMAIN rows : /\ r \in DOMAIN new /\ rows[r] = new[r] /\ r \in Rows
                                /\ Referenced(old[r]) \/ Referenced(new[r])
      /\ \A r \in DOMAIN new \ DOMAIN rows :
            new[r] = old[r] \/ (~Referenced(old[r]) /\ ~Referenced(new[r]))
      /\ \A r \in DOMAIN new : all[r] = IF Referenced(new[r]) THEN new[r] ELSE Absent
      /\ \A r \in Rows \ DOMAIN new : all[r] = old[r]
  <2>1. DOMAIN new \subseteq Rows
    BY DEF Renewed
  <2> QED
    BY <1>1, <2>1, ChangesFacts
<1>3. /\ DOMAIN new \subseteq Rows
      /\ \A r \in DOMAIN new :
            /\ new[r] \in Rec
            /\ \A q \in Queries :
                  new[r].refs[q] = IF q \in got /\ r \in Selects[q] /\ lg[n][r] # 0 THEN 1 ELSE 0
            /\ ~Referenced(new[r]) => new[r].patch = to
            /\ Referenced(new[r]) =>
                  /\ new[r].at = lg[n][r]
                  /\ Referenced(old[r]) /\ old[r].at = lg[n][r] => new[r].patch = old[r].patch
                  /\ ~(Referenced(old[r]) /\ old[r].at = lg[n][r]) =>
                        new[r].patch = to /\ received[r] # 0
                  /\ received[r] # 0 => received[r] = lg[n][r]
      /\ \A r \in Rows \ DOMAIN new :
            /\ \A q \in Queries :
                  old[r].refs[q] = IF q \in got /\ r \in Selects[q] /\ lg[n][r] # 0 THEN 1 ELSE 0
            /\ Referenced(old[r]) => old[r].at = lg[n][r]
  BY DEF Renewed
<1>4. \A r \in Rows : /\ Referenced(old[r]) => old[r].at # 0
                      /\ View(old)[r] = IF Referenced(old[r]) THEN old[r].at ELSE 0
                      /\ View(all)[r] = IF Referenced(all[r]) THEN all[r].at ELSE 0
  <2> TAKE r \in Rows
  <2>0. /\ Referenced(old[r]) <=> m > 0 /\ lg[m][r] # 0 /\ \E q \in was : r \in Selects[q]
        /\ Referenced(old[r]) => old[r].at = lg[m][r] /\ lg[m][r] # 0
        /\ ~Referenced(old[r]) => old[r] = Absent
    BY Counted
  <2>1. Referenced(old[r]) => old[r].at = lg[m][r] /\ lg[m][r] # 0
    BY <2>0
  <2>2. /\ View(old)[r] = IF Referenced(old[r]) THEN old[r].at ELSE 0
        /\ View(all)[r] = IF Referenced(all[r]) THEN all[r].at ELSE 0
    BY CachedFacts
  <2> QED
    BY <2>1, <2>2
<1>5. \A r \in DOMAIN new : (Referenced(new[r]) <=> Referenced(all[r]))
                           /\ (Referenced(new[r]) => all[r] = new[r] /\ new[r].at # 0)
  <2> TAKE r \in DOMAIN new
  <2>1. Referenced(new[r]) => lg[n][r] # 0
    BY <1>3 DEF Referenced
  <2> QED
    BY <1>2, <1>3, <2>1, AbsentFacts
<1>6. Exact(all, got, n, lg)
  <2> SUFFICES ASSUME NEW r \in Rows
               PROVE  /\ \A q \in Queries :
                            all[r].refs[q] = IF q \in got /\ r \in Selects[q] /\ n > 0 /\ lg[n][r] # 0
                                             THEN 1 ELSE 0
                      /\ IF Referenced(all[r]) THEN all[r].at = lg[n][r] ELSE all[r] = Absent
    BY DEF Exact
  <2>1. CASE r \in DOMAIN new /\ Referenced(new[r])
    BY <1>3, <1>5, <2>1
  <2>2. CASE r \in DOMAIN new /\ ~Referenced(new[r])
    <3>1. all[r] = Absent /\ ~Referenced(all[r])
      BY <1>2, <2>2, AbsentFacts
    <3>2. \A q \in Queries : new[r].refs[q] = 0
      BY <1>3, <2>2 DEF Referenced
    <3> QED
      BY <1>3, <2>2, <3>1, <3>2, AbsentFacts
  <2>3. CASE r \notin DOMAIN new
    <3>1. all[r] = old[r]
      BY <1>2, <2>3
    <3> QED
      BY <1>1, <1>3, <2>3, <3>1
  <2> QED
    BY <2>1, <2>2, <2>3
<1>7. \A r : r \in DOMAIN patches <=>
              /\ r \in DOMAIN new
              /\ \/ Referenced(old[r]) /\ ~Referenced(new[r])
                 \/ Referenced(new[r]) /\ received[r] # 0
  BY PatchesFacts
<1>8. \A r \in DOMAIN new :
         /\ Referenced(old[r]) /\ ~Referenced(new[r]) => patches[r] = [row |-> 0, to |-> to]
         /\ Referenced(new[r]) /\ received[r] # 0 =>
               patches[r] = [row |-> received[r], to |-> new[r].patch]
  BY PatchesValues
<1>9. Shown(patches, to, old, all)
  <2>1. ASSUME NEW r \in DOMAIN patches
        PROVE  patches[r].row = View(all)[r]
    <3>1. r \in DOMAIN new /\ r \in Rows
      BY <1>3, <1>7
    <3>2. /\ (Referenced(old[r]) /\ ~Referenced(new[r])) \/ (Referenced(new[r]) /\ received[r] # 0)
          /\ Referenced(new[r]) <=> Referenced(all[r])
          /\ Referenced(new[r]) => all[r] = new[r]
          /\ View(all)[r] = IF Referenced(all[r]) THEN all[r].at ELSE 0
      BY <1>4, <1>5, <1>7, <3>1
    <3>3. CASE Referenced(new[r])
      <4>1. received[r] # 0 /\ View(all)[r] = new[r].at
        BY <3>2, <3>3
      <4>2. new[r].at = lg[n][r] /\ received[r] = lg[n][r]
        BY <1>3, <3>1, <3>3, <4>1
      <4>3. patches[r] = [row |-> received[r], to |-> new[r].patch]
        BY <1>8, <3>1, <3>3, <4>1
      <4> QED
        BY <4>1, <4>2, <4>3
    <3>4. CASE ~Referenced(new[r])
      <4>1. patches[r] = [row |-> 0, to |-> to]
        BY <1>8, <3>1, <3>2, <3>4
      <4> QED
        BY <3>2, <3>4, <4>1
    <3> QED
      BY <3>3, <3>4
  <2>2. ASSUME NEW r \in Rows, View(old)[r] # View(all)[r]
        PROVE  r \in DOMAIN patches /\ patches[r].to = to
    <3>1. r \in DOMAIN new
      BY <1>2, <1>4, <2>2
    <3>2. /\ Referenced(new[r]) <=> Referenced(all[r])
          /\ Referenced(new[r]) => all[r] = new[r]
          /\ View(old)[r] = IF Referenced(old[r]) THEN old[r].at ELSE 0
          /\ View(all)[r] = IF Referenced(all[r]) THEN all[r].at ELSE 0
      BY <1>4, <1>5, <3>1
    <3>3. CASE Referenced(new[r])
      <4>1. new[r].at = lg[n][r] /\ ~(Referenced(old[r]) /\ old[r].at = lg[n][r])
        <5>1. new[r].at = lg[n][r]
          BY <1>3, <3>1, <3>3
        <5> QED
          BY <2>2, <3>2, <3>3, <5>1
      <4>2. new[r].patch = to /\ received[r] # 0
        BY <1>3, <3>1, <3>3, <4>1
      <4>3. r \in DOMAIN patches
        BY <1>7, <3>1, <3>3, <4>2
      <4>4. patches[r] = [row |-> received[r], to |-> new[r].patch]
        BY <1>8, <3>1, <3>3, <4>2
      <4> QED
        BY <4>2, <4>3, <4>4
    <3>4. CASE ~Referenced(new[r])
      <4>1. Referenced(old[r])
        BY <2>2, <3>2, <3>4
      <4>2. r \in DOMAIN patches
        BY <1>7, <3>1, <3>4, <4>1
      <4>3. patches[r] = [row |-> 0, to |-> to]
        BY <1>8, <3>1, <3>4, <4>1
      <4> QED
        BY <4>2, <4>3
    <3> QED
      BY <3>3, <3>4
  <2> QED
    BY <2>1, <2>2 DEF Shown
<1>10. Recorded(rows, to, old, all)
  <2> SUFFICES ASSUME NEW r \in DOMAIN rows
               PROVE  /\ r \in Rows
                      /\ rows[r] \in Rec
                      /\ \/ rows[r].patch = to /\ View(old)[r] # View(all)[r]
                         \/ /\ Referenced(old[r]) /\ rows[r].patch = old[r].patch
                            /\ View(old)[r] = View(all)[r]
    BY DEF Recorded
  <2>1. /\ r \in DOMAIN new /\ rows[r] = new[r] /\ r \in Rows
        /\ Referenced(old[r]) \/ Referenced(new[r])
    BY <1>2
  <2>2. CASE Referenced(new[r])
    BY <1>3, <1>4, <1>5, <2>1, <2>2
  <2>3. CASE ~Referenced(new[r])
    BY <1>3, <1>4, <1>5, <2>1, <2>3
  <2> QED
    BY <2>1, <2>2, <2>3
<1>11. ASSUME DOMAIN rows = {}
       PROVE  all = old
  <2>1. \A r \in Rows : all[r] = old[r]
    <3> TAKE r \in Rows
    <3>1. CASE r \in DOMAIN new
      BY <1>1, <1>2, <1>11, <3>1
    <3>2. CASE r \notin DOMAIN new
      BY <1>2, <3>2
    <3> QED
      BY <3>1, <3>2
  <2> QED
    BY <2>1 DEF Cached
<1>12. \A r \in DOMAIN patches : r \in Rows /\ (patches[r].to = to \/ patches[r].to = all[r].patch)
  <2> TAKE r \in DOMAIN patches
  <2>1. /\ r \in DOMAIN new /\ r \in Rows
        /\ (Referenced(old[r]) /\ ~Referenced(new[r])) \/ (Referenced(new[r]) /\ received[r] # 0)
    BY <1>3, <1>7
  <2>2. CASE Referenced(new[r])
    <3>1. patches[r] = [row |-> received[r], to |-> new[r].patch] /\ all[r] = new[r]
      BY <1>5, <1>8, <2>1, <2>2
    <3> QED
      BY <2>1, <3>1
  <2>3. CASE ~Referenced(new[r])
    <3>1. patches[r] = [row |-> 0, to |-> to]
      BY <1>8, <2>1, <2>3
    <3> QED
      BY <2>1, <3>1
  <2> QED
    BY <2>2, <2>3
<1>13. \A r \in DOMAIN new : Referenced(new[r]) /\ received[r] # 0 =>
          r \in DOMAIN patches /\ patches[r].to = all[r].patch
  <2> TAKE r \in DOMAIN new
  <2> HAVE Referenced(new[r]) /\ received[r] # 0
  <2>1. r \in DOMAIN patches /\ all[r] = new[r]
    BY <1>5, <1>7
  <2>2. patches[r] = [row |-> received[r], to |-> new[r].patch]
    BY <1>8
  <2> QED
    BY <2>1, <2>2
<1> QED
  BY <1>6, <1>9, <1>10, <1>11, <1>12, <1>13


-----------------------------------------------------------------------------
(* What the queries select at two versions of the replica. *)

\* The same content for these queries.
Same(lg, m, n, queries) == \A q \in queries : \A r \in Selects[q] : lg[n][r] = lg[m][r]

Counts(rec, r, got, lg, n) ==
    \A q \in Queries :
        rec.refs[q] = IF q \in got /\ r \in Selects[q] /\ lg[n][r] # 0 THEN 1 ELSE 0

LEMMA SelectsFacts == \A q \in Queries : Selects[q] \subseteq Rows
BY ViewSyncAssumption

LEMMA Carried ==
    ASSUME NEW lg, NEW m \in Nat, NEW n \in Nat \ {0}, NEW got \in SUBSET Queries,
           m = 0 => got = {}, Same(lg, m, n, got), NEW rows, Exact(rows, got, m, lg)
    PROVE  Exact(rows, got, n, lg)
<1>1. \A q \in Queries, r \in Rows :
         q \in got /\ r \in Selects[q] => m > 0 /\ n > 0 /\ lg[n][r] = lg[m][r]
  BY DEF Same
<1>2. ASSUME NEW r \in Rows
      PROVE  /\ \A q \in Queries :
                   rows[r].refs[q] = IF q \in got /\ r \in Selects[q] /\ n > 0 /\ lg[n][r] # 0
                                     THEN 1 ELSE 0
             /\ IF Referenced(rows[r]) THEN rows[r].at = lg[n][r] ELSE rows[r] = Absent
  <2>1. /\ \A q \in Queries :
              rows[r].refs[q] = IF q \in got /\ r \in Selects[q] /\ m > 0 /\ lg[m][r] # 0
                                THEN 1 ELSE 0
        /\ IF Referenced(rows[r]) THEN rows[r].at = lg[m][r] ELSE rows[r] = Absent
    BY DEF Exact
  <2>2. \A q \in Queries :
           (q \in got /\ r \in Selects[q] /\ m > 0 /\ lg[m][r] # 0)
           <=> (q \in got /\ r \in Selects[q] /\ n > 0 /\ lg[n][r] # 0)
    BY <1>1
  <2>3. Referenced(rows[r]) => lg[n][r] = lg[m][r]
    <3> HAVE Referenced(rows[r])
    <3>1. PICK q \in Queries : rows[r].refs[q] > 0
      BY DEF Referenced
    <3> QED
      BY <1>1, <2>1, <3>1
  <2>4. \A q \in Queries :
           rows[r].refs[q] = IF q \in got /\ r \in Selects[q] /\ n > 0 /\ lg[n][r] # 0
                             THEN 1 ELSE 0
    BY <2>1, <2>2
  <2> QED
    BY <2>1, <2>3, <2>4
<1> QED
  BY <1>2 DEF Exact

LEMMA Unchanged ==
    ASSUME NEW lg, NEW m \in Nat, NEW n \in Nat, NEW got \in SUBSET Queries,
           m = 0 => got = {}, n > 0, lg[m] \in [Rows -> Nat], lg[n] \in [Rows -> Nat],
           NEW rows, Exact(rows, got, m, lg), Exact(rows, got, n, lg)
    PROVE  Same(lg, m, n, got)
<1> SUFFICES ASSUME NEW q \in got, NEW r \in Selects[q]
             PROVE  lg[n][r] = lg[m][r]
  BY DEF Same
<1>1. r \in Rows /\ m > 0
  BY SelectsFacts
<1>2. /\ Referenced(rows[r]) <=> m > 0 /\ lg[m][r] # 0 /\ \E p \in got : r \in Selects[p]
      /\ Referenced(rows[r]) => rows[r].at = lg[m][r] /\ lg[m][r] # 0
      /\ ~Referenced(rows[r]) => rows[r] = Absent
  BY <1>1, Counted
<1>3. /\ Referenced(rows[r]) <=> n > 0 /\ lg[n][r] # 0 /\ \E p \in got : r \in Selects[p]
      /\ Referenced(rows[r]) => rows[r].at = lg[n][r] /\ lg[n][r] # 0
      /\ ~Referenced(rows[r]) => rows[r] = Absent
  BY <1>1, Counted
<1> QED
  BY <1>1, <1>2, <1>3

\* All that goes into syncing queries.
Resyncing(lg, n, m, was, adds, expired, old, to, got, received, new) ==
    /\ n \in Nat \ {0} /\ lg[n] \in [Rows -> 0..MaxVersion] /\ m \in Nat
    /\ was \in SUBSET Queries /\ adds \in SUBSET Queries /\ expired \in SUBSET Queries
    /\ adds \cap expired = {}
    /\ m = 0 => was = {}
    /\ Same(lg, m, n, was \ (adds \cup expired))
    /\ old \in [Rows -> Rec] /\ Exact(old, was, m, lg)
    /\ to \in Version /\ got = (was \ expired) \cup adds
    /\ received = [r \in Rows |-> IF r \in Hits(adds, lg[n]) THEN lg[n][r] ELSE 0]
    /\ new = Resynced(old, adds, expired, lg[n], to)

\* Rows of queries that are removed or hydrated.
LEMMA ResyncedRenewed ==
    ASSUME NEW lg, NEW n, NEW m, NEW was, NEW adds, NEW expired, NEW old, NEW to, NEW got,
           NEW received, NEW new,
           Resyncing(lg, n, m, was, adds, expired, old, to, got, received, new)
    PROVE  /\ Renewed(new, old, received, got, n, lg, to)
           /\ \A q \in adds : \A r \in Selects[q] :
                 lg[n][r] # 0 => r \in DOMAIN new /\ received[r] # 0
<1>0. /\ n \in Nat \ {0} /\ lg[n] \in [Rows -> 0..MaxVersion] /\ m \in Nat
      /\ was \in SUBSET Queries /\ adds \in SUBSET Queries /\ expired \in SUBSET Queries
      /\ adds \cap expired = {}
      /\ m = 0 => was = {}
      /\ Same(lg, m, n, was \ (adds \cup expired))
      /\ old \in [Rows -> Rec] /\ Exact(old, was, m, lg)
      /\ to \in Version /\ got = (was \ expired) \cup adds
      /\ received = [r \in Rows |-> IF r \in Hits(adds, lg[n]) THEN lg[n][r] ELSE 0]
      /\ new = Resynced(old, adds, expired, lg[n], to)
  BY DEF Resyncing
<1> USE <1>0
<1> DEFINE touched == Hits(adds, lg[n]) \cup
                        {r \in Rows : \E q \in adds \cup expired : old[r].refs[q] # 0}
           refs(r) == [q \in Queries |->
                         IF q \in adds /\ r \in Selects[q] /\ lg[n][r] # 0 THEN 1
                         ELSE IF q \in adds \cup expired THEN 0 ELSE old[r].refs[q]]
           version(r) == IF r \in Hits(adds, lg[n]) THEN lg[n][r] ELSE old[r].at
<1>1. new = [r \in touched |-> Updated(old[r], refs(r), version(r), to)]
  <2>1. new = [r \in touched |-> Updated(old[r], refs(r),
                  IF r \in {x \in Rows : lg[n][x] # 0 /\ \E q \in adds : x \in Selects[q]}
                  THEN lg[n][r] ELSE old[r].at, to)]
    BY DEF Resynced, Hits
  <2> QED
    BY <2>1 DEF Hits
<1>2. MaxVersion \in Nat
  BY ViewSyncAssumption
<1>3. \A r : r \in Hits(adds, lg[n]) <=> r \in Rows /\ lg[n][r] # 0 /\ \E q \in adds : r \in Selects[q]
  BY DEF Hits
<1>4. \A r \in Rows : received[r] = IF r \in Hits(adds, lg[n]) THEN lg[n][r] ELSE 0
  OBVIOUS
<1>5. ASSUME NEW r \in Rows, NEW q \in Queries
      PROVE  refs(r)[q] = IF q \in got /\ r \in Selects[q] /\ lg[n][r] # 0 THEN 1 ELSE 0
  <2>1. old[r].refs[q] = IF q \in was /\ r \in Selects[q] /\ m > 0 /\ lg[m][r] # 0
                         THEN 1 ELSE 0
    BY DEF Exact
  <2>2. q \in was /\ q \notin adds \cup expired /\ r \in Selects[q] => m > 0 /\ lg[n][r] = lg[m][r]
    BY DEF Same
  <2> QED
    BY <2>1, <2>2
<1>6. ASSUME NEW r \in Rows, Referenced(old[r]),
             r \notin touched \/ (r \notin Hits(adds, lg[n]) /\ \E q \in Queries : refs(r)[q] > 0)
      PROVE  old[r].at = lg[n][r] /\ old[r].at # 0
  <2>1. \A q \in Queries :
           old[r].refs[q] = IF q \in was /\ r \in Selects[q] /\ m > 0 /\ lg[m][r] # 0
                            THEN 1 ELSE 0
    BY DEF Exact
  <2>2. old[r].at = lg[m][r]
    BY <1>6 DEF Exact
  <2>3. PICK q \in Queries : old[r].refs[q] # 0 /\ q \notin adds \cup expired
    <3>1. CASE r \notin touched
      <4>1. PICK q \in Queries : old[r].refs[q] > 0
        BY <1>6 DEF Referenced
      <4> QED
        BY <2>1, <3>1, <4>1
    <3>2. CASE r \notin Hits(adds, lg[n]) /\ \E q \in Queries : refs(r)[q] > 0
      <4>1. PICK q \in Queries : refs(r)[q] > 0
        BY <3>2
      <4>2. q \notin adds \cup expired
        BY <1>3, <3>2, <4>1
      <4> QED
        BY <4>1, <4>2
    <3> QED
      BY <1>6, <3>1, <3>2
  <2>4. q \in was /\ r \in Selects[q] /\ m > 0 /\ lg[m][r] # 0
    BY <2>1, <2>3
  <2> QED
    BY <2>2, <2>3, <2>4 DEF Same
<1>7. ASSUME NEW r \in touched
      PROVE  /\ new[r] \in Rec /\ r \in Rows
             /\ Counts(new[r], r, got, lg, n)
             /\ ~Referenced(new[r]) => new[r].patch = to
             /\ Referenced(new[r]) =>
                   /\ new[r].at = lg[n][r]
                   /\ Referenced(old[r]) /\ old[r].at = lg[n][r] => new[r].patch = old[r].patch
                   /\ ~(Referenced(old[r]) /\ old[r].at = lg[n][r]) =>
                         new[r].patch = to /\ received[r] # 0
                   /\ received[r] # 0 => received[r] = lg[n][r]
  <2>1. r \in Rows /\ new[r] = Updated(old[r], refs(r), version(r), to)
    BY <1>1, <1>3
  <2>2. /\ old[r] \in Rec /\ old[r].refs \in [Queries -> Nat] /\ old[r].at \in 0..MaxVersion
        /\ old[r].patch \in Version /\ lg[n][r] \in 0..MaxVersion
    BY <2>1 DEF Rec
  <2>3. refs(r) \in [Queries -> Nat] /\ refs(r) \in [Queries -> Int]
    BY <2>2
  <2>4. version(r) \in Nat /\ version(r) \in 0..MaxVersion
    BY <1>2, <2>2
  <2>5. \A q \in Queries : refs(r)[q] = IF q \in got /\ r \in Selects[q] /\ lg[n][r] # 0 THEN 1 ELSE 0
    BY <1>5, <2>1
  <2>6. /\ Referenced(old[r]) /\ r \notin Hits(adds, lg[n]) /\ (\E q \in Queries : refs(r)[q] > 0)
              => old[r].at = lg[n][r] /\ old[r].at # 0
        /\ r \notin Hits(adds, lg[n]) /\ (\E q \in Queries : refs(r)[q] > 0) => Referenced(old[r])
    <3>1. r \notin Hits(adds, lg[n]) /\ (\E q \in Queries : refs(r)[q] > 0) => Referenced(old[r])
      BY <1>3, <2>1 DEF Referenced
    <3> QED
      BY <1>6, <2>1, <3>1
  <2>7. r \in Hits(adds, lg[n]) => lg[n][r] # 0
    BY <1>3
  <2> HIDE DEF refs, version
  <2>8. PICK f : f = refs(r)
    OBVIOUS
  <2>9. PICK k : k = version(r)
    OBVIOUS
  <2>10. PICK u : u = new[r]
    OBVIOUS
  <2>11. /\ Referenced(u) <=> \E q \in Queries : f[q] > 0
         /\ Referenced(u) => /\ u = [refs |-> f, at |-> u.at, patch |-> u.patch]
                             /\ k # 0 => u.at = k
                             /\ k = 0 => u.at = old[r].at
                             /\ Referenced(old[r]) /\ old[r].at = k => u.patch = old[r].patch
                             /\ ~(Referenced(old[r]) /\ old[r].at = k) => u.patch = to
         /\ ~Referenced(u) => u = [refs |-> NoRefs, at |-> old[r].at, patch |-> to]
    <3>1. f \in [Queries -> Int] /\ k \in Nat /\ u = Updated(old[r], f, k, to)
      BY <2>1, <2>3, <2>4, <2>8, <2>9, <2>10
    <3> QED
      BY <3>1, UpdatedFacts
  <2>12. CASE Referenced(u)
    <3>1. k = lg[n][r] /\ k # 0 /\ received[r] = (IF r \in Hits(adds, lg[n]) THEN lg[n][r] ELSE 0)
      <4>1. \E q \in Queries : refs(r)[q] > 0
        BY <2>8, <2>11, <2>12
      <4> QED
        BY <1>4, <2>1, <2>6, <2>7, <2>9, <4>1 DEF version
    <3>2. u.at = k /\ u.refs = f
      BY <2>11, <2>12, <3>1
    <3>3. u.patch \in Version /\ u = [refs |-> f, at |-> u.at, patch |-> u.patch]
      BY <2>2, <2>11, <2>12
    <3>4. u \in Rec
      BY <2>3, <2>4, <2>8, <2>9, <3>2, <3>3 DEF Rec
    <3>5. ~(Referenced(old[r]) /\ old[r].at = lg[n][r]) => r \in Hits(adds, lg[n])
      <4>1. \E q \in Queries : refs(r)[q] > 0
        BY <2>8, <2>11, <2>12
      <4> QED
        BY <2>6, <4>1
    <3>6. Counts(u, r, got, lg, n)
      BY <2>5, <2>8, <3>2 DEF Counts
    <3> QED
      BY <2>1, <2>10, <2>11, <2>12, <3>1, <3>2, <3>4, <3>5, <3>6
  <2>13. CASE ~Referenced(u)
    <3>1. u = [refs |-> NoRefs, at |-> old[r].at, patch |-> to]
      BY <2>11, <2>13
    <3>2. NoRefs \in [Queries -> Nat] /\ \A q \in Queries : NoRefs[q] = 0
      BY DEF NoRefs
    <3>3. u \in Rec
      BY <2>2, <3>1, <3>2 DEF Rec
    <3>4. \A q \in Queries : f[q] = 0
      <4>1. \A q \in Queries : ~(f[q] > 0)
        BY <2>11, <2>13
      <4>2. f \in [Queries -> Nat]
        BY <2>3, <2>8
      <4> QED
        BY <4>1, <4>2
    <3>5. Counts(u, r, got, lg, n)
      BY <2>5, <2>8, <3>1, <3>2, <3>4 DEF Counts
    <3> QED
      BY <2>1, <2>10, <2>13, <3>1, <3>3, <3>5
  <2> QED
    BY <2>12, <2>13
<1>8. ASSUME NEW r \in Rows, r \notin touched
      PROVE  /\ Counts(old[r], r, got, lg, n)
             /\ Referenced(old[r]) => old[r].at = lg[n][r]
  <2>1. \A q \in adds \cup expired : old[r].refs[q] = 0
    BY <1>8
  <2>2. \A q \in adds : ~(r \in Selects[q] /\ lg[n][r] # 0)
    BY <1>3, <1>8
  <2>3. \A q \in Queries : old[r].refs[q] = refs(r)[q]
    BY <2>1, <2>2
  <2>4. Counts(old[r], r, got, lg, n)
    BY <1>5, <2>3 DEF Counts
  <2>5. Referenced(old[r]) => old[r].at = lg[n][r]
    <3> HAVE Referenced(old[r])
    <3> QED
      BY <1>6, <1>8
  <2> QED
    BY <2>4, <2>5
<1>9. DOMAIN new = touched /\ touched \subseteq Rows
  BY <1>1, <1>3
<1>10. Renewed(new, old, received, got, n, lg, to)
  <2> HIDE DEF refs, version, touched
  <2> QED
    BY <1>7, <1>8, <1>9 DEF Renewed, Counts
<1>11. ASSUME NEW q \in adds, NEW r \in Selects[q], lg[n][r] # 0
       PROVE  r \in DOMAIN new /\ received[r] # 0
  <2>1. r \in Rows
    BY SelectsFacts
  <2>2. r \in Hits(adds, lg[n])
    BY <1>3, <1>11, <2>1
  <2> QED
    BY <1>4, <1>9, <1>11, <2>1, <2>2
<1> QED
  BY <1>10, <1>11


\* Rows that change in the pipelines.
LEMMA AdvancedRenewed ==
    ASSUME NEW lg, NEW m \in Nat \ {0}, NEW n \in Nat \ {0},
           lg[m] \in [Rows -> 0..MaxVersion], lg[n] \in [Rows -> 0..MaxVersion],
           NEW got \in SUBSET Queries,
           NEW old \in [Rows -> Rec], Exact(old, got, m, lg), NEW to \in Version,
           NEW new, new = Advanced(old, got, lg[m], lg[n], to)
    PROVE  Renewed(new, old, lg[n], got, n, lg, to)
<1> DEFINE changed == {r \in Rows : lg[m][r] # lg[n][r] /\ \E q \in got : r \in Selects[q]}
           delta(r) == IF lg[m][r] = 0 THEN 1 ELSE IF lg[n][r] = 0 THEN -1 ELSE 0
           refs(r) == [q \in Queries |-> old[r].refs[q]
                         + IF q \in got /\ r \in Selects[q] THEN delta(r) ELSE 0]
<1>1. new = [r \in changed |-> Updated(old[r], refs(r), lg[n][r], to)]
  BY DEF Advanced
<1>2. MaxVersion \in Nat
  BY ViewSyncAssumption
<1>3. ASSUME NEW r \in Rows
      PROVE  /\ \A q \in Queries :
                   old[r].refs[q] = IF q \in got /\ r \in Selects[q] /\ lg[m][r] # 0 THEN 1 ELSE 0
             /\ Referenced(old[r]) => old[r].at = lg[m][r] /\ \E q \in got : r \in Selects[q]
  <2>1. /\ \A q \in Queries :
              old[r].refs[q] = IF q \in got /\ r \in Selects[q] /\ m > 0 /\ lg[m][r] # 0
                               THEN 1 ELSE 0
        /\ Referenced(old[r]) => old[r].at = lg[m][r]
    BY DEF Exact
  <2>2. Referenced(old[r]) => \E q \in got : r \in Selects[q]
    <3> HAVE Referenced(old[r])
    <3>1. PICK q \in Queries : old[r].refs[q] > 0
      BY DEF Referenced
    <3> QED
      BY <2>1, <3>1
  <2> QED
    BY <2>1, <2>2
<1>4. ASSUME NEW r \in changed
      PROVE  /\ new[r] \in Rec /\ r \in Rows
             /\ Counts(new[r], r, got, lg, n)
             /\ ~Referenced(new[r]) => new[r].patch = to
             /\ Referenced(new[r]) =>
                   /\ new[r].at = lg[n][r]
                   /\ Referenced(old[r]) /\ old[r].at = lg[n][r] => new[r].patch = old[r].patch
                   /\ ~(Referenced(old[r]) /\ old[r].at = lg[n][r]) =>
                         new[r].patch = to /\ lg[n][r] # 0
  <2>1. r \in Rows /\ new[r] = Updated(old[r], refs(r), lg[n][r], to)
    BY <1>1
  <2>2. /\ old[r] \in Rec /\ old[r].refs \in [Queries -> Nat] /\ old[r].at \in 0..MaxVersion
        /\ old[r].patch \in Version /\ lg[n][r] \in 0..MaxVersion /\ lg[m][r] \in 0..MaxVersion
    BY <2>1 DEF Rec
  <2>3. lg[m][r] # lg[n][r] /\ delta(r) \in Int
    BY <2>1
  <2>4. \A q \in Queries : refs(r)[q] = IF q \in got /\ r \in Selects[q] /\ lg[n][r] # 0 THEN 1 ELSE 0
    <3> TAKE q \in Queries
    <3>1. old[r].refs[q] = IF q \in got /\ r \in Selects[q] /\ lg[m][r] # 0 THEN 1 ELSE 0
      BY <1>3, <2>1
    <3>2. refs(r)[q] = old[r].refs[q] + (IF q \in got /\ r \in Selects[q] THEN delta(r) ELSE 0)
      OBVIOUS
    <3>3. CASE q \in got /\ r \in Selects[q]
      BY <2>2, <2>3, <3>1, <3>2, <3>3
    <3>4. CASE ~(q \in got /\ r \in Selects[q])
      BY <3>1, <3>2, <3>4
    <3> QED
      BY <3>3, <3>4
  <2>5. refs(r) \in [Queries -> Nat] /\ refs(r) \in [Queries -> Int]
    <3> HIDE DEF delta
    <3>1. DOMAIN refs(r) = Queries /\ refs(r) = [q \in Queries |-> refs(r)[q]]
      OBVIOUS
    <3> HIDE DEF refs
    <3>2. \A q \in Queries : refs(r)[q] \in Nat
      BY <2>4
    <3> QED
      BY <3>1, <3>2
  <2> HIDE DEF refs, delta, changed
  <2>6. PICK f : f = refs(r)
    OBVIOUS
  <2>7. PICK k : k = lg[n][r]
    OBVIOUS
  <2>8. PICK u : u = new[r]
    OBVIOUS
  <2>9. /\ Referenced(u) <=> \E q \in Queries : f[q] > 0
        /\ Referenced(u) => /\ u = [refs |-> f, at |-> u.at, patch |-> u.patch]
                            /\ k # 0 => u.at = k
                            /\ k = 0 => u.at = old[r].at
                            /\ Referenced(old[r]) /\ old[r].at = k => u.patch = old[r].patch
                            /\ ~(Referenced(old[r]) /\ old[r].at = k) => u.patch = to
        /\ ~Referenced(u) => u = [refs |-> NoRefs, at |-> old[r].at, patch |-> to]
    <3>1. f \in [Queries -> Int] /\ k \in Nat /\ u = Updated(old[r], f, k, to)
      BY <1>2, <2>1, <2>2, <2>5, <2>6, <2>7, <2>8
    <3>2. PICK o : o = old[r]
      OBVIOUS
    <3>3. u = Updated(o, f, k, to)
      BY <3>1, <3>2
    <3>4. /\ Referenced(u) <=> \E q \in Queries : f[q] > 0
          /\ Referenced(u) => /\ u = [refs |-> f, at |-> u.at, patch |-> u.patch]
                              /\ k # 0 => u.at = k
                              /\ k = 0 => u.at = o.at
                              /\ Referenced(o) /\ o.at = k => u.patch = o.patch
                              /\ ~(Referenced(o) /\ o.at = k) => u.patch = to
          /\ ~Referenced(u) => u = [refs |-> NoRefs, at |-> o.at, patch |-> to]
      BY <3>1, <3>3, UpdatedFacts
    <3> QED
      BY <3>2, <3>4
  <2>10. CASE Referenced(u)
    <3>1. k # 0
      BY <2>4, <2>6, <2>7, <2>9, <2>10
    <3>2. u.at = k /\ u.refs = f
      BY <2>9, <2>10, <3>1
    <3>3. u.patch \in Version /\ u = [refs |-> f, at |-> u.at, patch |-> u.patch]
      BY <2>2, <2>9, <2>10
    <3>4. u \in Rec
      BY <2>2, <2>5, <2>6, <2>7, <3>2, <3>3 DEF Rec
    <3>5. Counts(u, r, got, lg, n)
      BY <2>4, <2>6, <3>2 DEF Counts
    <3> QED
      BY <2>1, <2>7, <2>8, <2>9, <2>10, <3>1, <3>2, <3>4, <3>5
  <2>11. CASE ~Referenced(u)
    <3>1. u = [refs |-> NoRefs, at |-> old[r].at, patch |-> to]
      BY <2>9, <2>11
    <3>2. NoRefs \in [Queries -> Nat] /\ \A q \in Queries : NoRefs[q] = 0
      BY DEF NoRefs
    <3>3. u \in Rec
      BY <2>2, <3>1, <3>2 DEF Rec
    <3>4. \A q \in Queries : f[q] = 0
      BY <2>4, <2>6, <2>9, <2>11
    <3>5. Counts(u, r, got, lg, n)
      BY <2>4, <2>6, <3>1, <3>2, <3>4 DEF Counts
    <3> QED
      BY <2>1, <2>8, <2>11, <3>1, <3>3, <3>5
  <2> QED
    BY <2>10, <2>11
<1>5. ASSUME NEW r \in Rows, r \notin changed
      PROVE  /\ Counts(old[r], r, got, lg, n)
             /\ Referenced(old[r]) => old[r].at = lg[n][r]
  <2>1. \A q \in got : r \in Selects[q] => lg[m][r] = lg[n][r]
    BY <1>5
  <2>2. /\ \A q \in Queries :
              old[r].refs[q] = IF q \in got /\ r \in Selects[q] /\ lg[m][r] # 0 THEN 1 ELSE 0
        /\ Referenced(old[r]) => old[r].at = lg[m][r] /\ \E q \in got : r \in Selects[q]
    BY <1>3
  <2>3. Counts(old[r], r, got, lg, n)
    BY <2>1, <2>2 DEF Counts
  <2> QED
    BY <2>1, <2>2, <2>3
<1>6. DOMAIN new = changed /\ changed \subseteq Rows
  BY <1>1
<1> HIDE DEF changed, refs
<1> QED
  BY <1>4, <1>5, <1>6 DEF Renewed, Counts

-----------------------------------------------------------------------------
(* The invariant.  Its parts are about a state given by its components. *)

Cvr == [queries : SUBSET Queries, got : SUBSET Queries, rows : [Rows -> Rec],
        desired : [Clients -> {Unknown} \cup SUBSET Queries]]
Database == [version : Version, owner : {NoOne} \cup {TaskOf[s] : s \in Syncers},
             grantedAt : Nat, rows : [Rows -> Rec], rowsVersion : Version]
Syncing == [state : {"none", "up", "stopped", "crashed"}, lct : Nat, claim : Nat, cvr : Cookie,
            cache : {None} \cup [Rows -> Rec], pv : Nat, hydrated : SUBSET Queries,
            synced : BOOLEAN, ready : BOOLEAN]
Handler == [ws : Nat, base : Cookie, poked : BOOLEAN, msg : {"none", "init", "change"}]
Client == [on : BOOLEAN, at : Syncers \cup {NoOne}, ws : Nat, cookie : Cookie,
           rows : [Rows -> Nat], receiving : BOOLEAN, lost : BOOLEAN]

Logged(lg) ==
    /\ lg \in Seq([Rows -> Nat]) /\ Len(lg) \in 1..MaxVersion
    /\ \A n \in 1..Len(lg) : lg[n] \in [Rows -> 0..n]

\* The CVR of a version: its rows are those its queries select at its version of
\* the replica, and no row has a patch after it.
Recording(cr, v, cv, lg) ==
    /\ cr \in Cvr
    /\ cr.got \subseteq cr.queries
    /\ v[1] = 0 => cr.got = {}
    /\ Exact(cr.rows, cr.got, v[1], lg)
    /\ \A r \in Rows : cr.rows[r].patch \in DOMAIN cv /\ AtMost(cr.rows[r].patch, v)

Committed(cv, latest, lg) ==
    /\ EmptyVersion \in DOMAIN cv /\ cv[EmptyVersion].rows = NoRows
    /\ latest \in DOMAIN cv
    /\ \A v \in DOMAIN cv : /\ v \in Version /\ AtMost(v, latest) /\ v[1] <= Len(lg)
                            /\ Recording(cv[v], v, cv, lg)

\* The row records of a version, with the tombstones: a row has not changed
\* since its last patch.
Whole(rows, cv, v) ==
    /\ rows \in [Rows -> Rec]
    /\ Cached(rows) = cv[v].rows
    /\ \A r \in Rows : rows[r].patch \in DOMAIN cv
    /\ \A r \in Rows : \A b \in DOMAIN cv :
          AtMost(rows[r].patch, b) /\ AtMost(b, v) => View(cv[b].rows)[r] = View(rows)[r]

Holds(p) == p.version # NoVersion

\* The rows in the database are those of some version; one syncer has what is
\* missing for the latest, if any.
Stored(d, cv, pend) ==
    /\ d.rowsVersion \in DOMAIN cv
    /\ Whole(d.rows, cv, d.rowsVersion)
    /\ \A s \in Syncers :
          /\ Holds(pend[s]) =>
                /\ pend[s].version = d.version /\ d.rowsVersion # d.version
                /\ Whole(pend[s].rows ++ d.rows, cv, d.version)
                /\ DOMAIN pend[s].rows \subseteq Rows
                /\ \A t \in Syncers : Holds(pend[t]) => t = s
          /\ ~Holds(pend[s]) => pend[s] = NotPending

Lagging(d, pend, sy) ==
    d.rowsVersion # d.version =>
        (\E s \in Syncers : Holds(pend[s])) \/ \E s \in Syncers : sy[s].state = "crashed"

\* Pipelines that show the rows a CVR has got.
Pipes(x, got, n, lg) == n <= x.pv /\ 1 <= x.pv /\ Same(lg, n, x.pv, got)

\* An update that starts from the current CVR.
Flushable(x, o, cv, lg) ==
    LET old == cv[o.from].rows
        new == Cached(o.rows ++ old)
    IN  /\ ~o.bad /\ o.to \in Version /\ Less(o.from, o.to) /\ o.to[1] = x.pv /\ 1 <= x.pv
        /\ o.queries \subseteq Queries /\ o.got \subseteq o.queries /\ x.hydrated = o.got
        /\ Exact(new, o.got, x.pv, lg)
        /\ ~o.writes => o.rows = None /\ Pipes(x, cv[o.from].got, o.from[1], lg)
        /\ Shown(o.patches, o.to, old, new)
        /\ Recorded(o.rows, o.to, old, new)
        /\ Hydrated(o.patches, o.adds, new)

\* What is left to be sent after an update of the current CVR.
Following(x, o, p, d, cv) ==
    /\ \A r \in DOMAIN o.patches : o.patches[r].row = View(cv[x.cvr].rows)[r]
    /\ Hydrated(o.patches, o.adds, cv[x.cvr].rows)
    /\ x.cvr # o.from => \A r \in Rows :
          \/ AtMost((p.rows ++ d.rows)[r].patch, o.from)
          \/ /\ (p.rows ++ d.rows)[r].patch = o.to
             /\ View(cv[o.from].rows)[r] # View(cv[o.to].rows)[r]

\* A syncer that goes by the current CVR.
Current(x, o, p, d, cv, lg) ==
    /\ x.cache = cv[d.version].rows \/ (x.cache = None /\ d.rowsVersion = d.version)
    /\ d.rowsVersion # d.version => Holds(p)
    /\ x.synced /\ o.pc \in {"idle", "config"} => Pipes(x, cv[d.version].got, d.version[1], lg)
    /\ o.pc = "flush" => Flushable(x, o, cv, lg)
    /\ o.pc = "catchup" => /\ Pipes(x, cv[d.version].got, d.version[1], lg)
                           /\ Following(x, o, p, d, cv)

\* A syncer and its operation, whether its CVR is current or not.
Working(x, o, cv, lg) ==
    /\ x.cvr \in {NoVersion} \cup DOMAIN cv
    /\ x.pv <= Len(lg)
    /\ o.pc \in {"idle", "config", "flush", "catchup"} /\ o.adds \subseteq Queries
    /\ o.pc # "idle" => x.cvr # NoVersion /\ o.from \in DOMAIN cv
    /\ o.pc \in {"config", "flush"} => x.cvr = o.from
    /\ o.pc = "config" => o.to = OneAfter(o.from) /\ o.c \in Clients /\ o.patches = None
    /\ o.pc = "flush" /\ o.advance /\ o.from = EmptyVersion => o.patches = None
    /\ o.pc = "catchup" => x.cvr \in {o.from, o.to}
    /\ o.pc = "catchup" /\ x.cvr # o.from =>
          Less(o.from, o.to) /\ Shown(o.patches, o.to, cv[o.from].rows, cv[o.to].rows)
    /\ x.cvr # NoVersion /\ (\/ x.synced /\ o.pc \in {"idle", "config"}
                             \/ o.pc = "flush" /\ ~o.writes
                             \/ o.pc = "catchup") => x.hydrated = cv[x.cvr].got

Going(x, o, p, d, cv, lg) ==
    /\ Working(x, o, cv, lg)
    /\ x.cvr = d.version => Current(x, o, p, d, cv, lg)

\* The connections an operation is to poke are as it found them.
Poking(h, x, o, k, cv) ==
    /\ \A c \in Clients : h[c].base \in {NoVersion} \cup DOMAIN cv /\ h[c].ws <= k
    /\ \A c \in DOMAIN o.pokers :
          /\ c \in Clients /\ o.pokers[c] \in 1..k
          /\ h[c].ws = o.pokers[c] =>
                /\ o.pc = "flush" /\ o.advance =>
                      h[c].base = o.from \/ (h[c].base = NoVersion /\ o.from = EmptyVersion)
                /\ o.pc = "catchup" /\ x.cvr # o.from => AtMost(h[c].base, o.from)

RowsAt(v, cv) == IF v = NoVersion THEN [r \in Rows |-> 0] ELSE View(cv[v].rows)

\* A client has the rows of the version it is at.
Seeing(cl, cv) ==
    /\ cl.cookie \in {NoVersion} \cup DOMAIN cv
    /\ cl.rows = RowsAt(cl.cookie, cv)
    /\ cl.on => ~cl.lost

Kinds ==
    /\ Logged(log)
    /\ db \in Database
    /\ syncer \in [Syncers -> Syncing]
    /\ handler \in [Syncers -> [Clients -> Handler]]
    /\ client \in [Clients -> Client]
    /\ wants \in [Clients -> SUBSET Queries]
    /\ used \in [connects : Nat, events : Nat]
    /\ op = [s \in Syncers |-> op[s]] /\ pending = [s \in Syncers |-> pending[s]]
    /\ \A s \in Syncers : DOMAIN op[s] = DOMAIN Idle

Coherent ==
    /\ Committed(cvrs, db.version, log)
    /\ Stored(db, cvrs, pending)
    /\ Lagging(db, pending, syncer)

IInv ==
    /\ Kinds
    /\ Coherent
    /\ \A s \in Syncers : Going(syncer[s], op[s], pending[s], db, cvrs, log)
    /\ \A s \in Syncers : Poking(handler[s], syncer[s], op[s], used.connects, cvrs)
    /\ \A c \in Clients : Seeing(client[c], cvrs)

-----------------------------------------------------------------------------
(* What a step may change without disturbing a part of the invariant. *)

Longer(lg, more) == Len(lg) <= Len(more) /\ \A n \in 1..Len(lg) : more[n] = lg[n]

LEMMA ExactLonger ==
    ASSUME NEW lg, NEW more, Longer(lg, more), Len(lg) \in Nat, NEW n \in Nat, n <= Len(lg),
           NEW got, NEW rows, Exact(rows, got, n, lg)
    PROVE  Exact(rows, got, n, more)
<1>1. n > 0 => more[n] = lg[n]
  BY DEF Longer
<1>2. CASE n > 0
  BY <1>1, <1>2 DEF Exact
<1>3. CASE n = 0
  <2>1. ASSUME NEW r \in Rows
        PROVE  /\ \A q \in Queries :
                     rows[r].refs[q] = IF q \in got /\ r \in Selects[q] /\ n > 0 /\ more[n][r] # 0
                                       THEN 1 ELSE 0
               /\ IF Referenced(rows[r]) THEN rows[r].at = more[n][r] ELSE rows[r] = Absent
    <3>1. \A q \in Queries : rows[r].refs[q] = 0
      BY <1>3 DEF Exact
    <3>2. ~Referenced(rows[r])
      BY <3>1 DEF Referenced
    <3>3. rows[r] = Absent
      BY <3>2 DEF Exact
    <3> QED
      BY <1>3, <3>1, <3>2, <3>3
  <2> QED
    BY <2>1 DEF Exact
<1> QED
  BY <1>2, <1>3

LEMMA SameLonger ==
    ASSUME NEW lg, NEW more, Longer(lg, more), Len(lg) \in Nat, NEW n \in Nat, NEW m \in Nat,
           1 <= n, 1 <= m, n <= Len(lg), m <= Len(lg), NEW got
    PROVE  Same(lg, m, n, got) <=> Same(more, m, n, got)
<1>1. more[n] = lg[n] /\ more[m] = lg[m]
  BY DEF Longer
<1> QED
  BY <1>1 DEF Same

LEMMA CommittedLonger ==
    ASSUME NEW lg, NEW more, Longer(lg, more), Len(lg) \in Nat, Len(more) \in Nat, NEW cv, NEW latest,
           Committed(cv, latest, lg)
    PROVE  Committed(cv, latest, more)
<1>1. ASSUME NEW v \in DOMAIN cv
      PROVE  /\ v \in Version /\ AtMost(v, latest) /\ v[1] <= Len(more)
             /\ Recording(cv[v], v, cv, more)
  <2>1. v \in Version /\ AtMost(v, latest) /\ v[1] <= Len(lg) /\ Recording(cv[v], v, cv, lg)
    BY DEF Committed
  <2>2. v[1] \in Nat
    BY <2>1 DEF Version
  <2>3. Exact(cv[v].rows, cv[v].got, v[1], more)
    BY <2>1, <2>2, ExactLonger DEF Recording
  <2> QED
    BY <2>1, <2>2, <2>3 DEF Recording, Longer
<1> QED
  BY <1>1 DEF Committed

\* What the invariant says of a syncer is about these.
LEMMA GoingSame ==
    ASSUME NEW x, NEW o, NEW p, NEW d, NEW cv, NEW lg, Going(x, o, p, d, cv, lg),
           NEW y, y.cvr = x.cvr, y.cache = x.cache, y.pv = x.pv, y.hydrated = x.hydrated,
           y.synced = x.synced,
           NEW e, e.version = d.version, e.rows = d.rows, e.rowsVersion = d.rowsVersion
    PROVE  Going(y, o, p, e, cv, lg)
<1>1. Working(y, o, cv, lg)
  BY DEF Going, Working
<1>2. ASSUME Current(x, o, p, d, cv, lg), x.cvr = d.version
      PROVE  Current(y, o, p, e, cv, lg)
  <2>1. \A got, n : Pipes(y, got, n, lg) <=> Pipes(x, got, n, lg)
    BY DEF Pipes
  <2>2. Flushable(y, o, cv, lg) <=> Flushable(x, o, cv, lg)
    BY <2>1 DEF Flushable
  <2>3. Following(y, o, p, e, cv) <=> Following(x, o, p, d, cv)
    BY DEF Following
  <2> QED
    BY <1>2, <2>1, <2>2, <2>3 DEF Current
<1> QED
  BY <1>1, <1>2 DEF Going

LEMMA GoingLonger ==
    ASSUME NEW lg, NEW more, Longer(lg, more), Len(lg) \in Nat, Len(more) \in Nat,
           NEW cv, NEW x, NEW o, NEW p, NEW d, Committed(cv, d.version, lg), x.pv \in Nat,
           Going(x, o, p, d, cv, lg)
    PROVE  Going(x, o, p, d, cv, more)
<1>1. Working(x, o, cv, more) /\ x.pv <= Len(lg)
  BY DEF Going, Working, Longer
<1>2. \A v \in DOMAIN cv : v[1] \in Nat /\ v[1] <= Len(lg) /\ (v[1] = 0 => cv[v].got = {})
  BY DEF Committed, Version, Recording
<1>3. ASSUME NEW v \in DOMAIN cv, Pipes(x, cv[v].got, v[1], lg)
      PROVE  Pipes(x, cv[v].got, v[1], more)
  <2>1. v[1] \in Nat /\ v[1] <= Len(lg) /\ v[1] <= x.pv /\ 1 <= x.pv
    BY <1>2, <1>3 DEF Pipes
  <2>2. CASE v[1] = 0
    <3>1. cv[v].got = {}
      BY <1>2, <2>2
    <3> QED
      BY <2>1, <3>1 DEF Pipes, Same
  <2>3. CASE v[1] >= 1
    <3>1. Same(lg, v[1], x.pv, cv[v].got)
      BY <1>3 DEF Pipes
    <3>2. Same(more, v[1], x.pv, cv[v].got)
      BY <1>1, <2>1, <2>3, <3>1, SameLonger
    <3> QED
      BY <2>1, <3>2 DEF Pipes
  <2> QED
    BY <2>1, <2>2, <2>3
<1>4. ASSUME Flushable(x, o, cv, lg), o.from \in DOMAIN cv
      PROVE  Flushable(x, o, cv, more)
  <2>1. Exact(Cached(o.rows ++ cv[o.from].rows), o.got, x.pv, more)
    <3>1. Exact(Cached(o.rows ++ cv[o.from].rows), o.got, x.pv, lg)
      BY <1>4 DEF Flushable
    <3>2. PICK rows : rows = Cached(o.rows ++ cv[o.from].rows)
      OBVIOUS
    <3>3. Exact(rows, o.got, x.pv, lg)
      BY <3>1, <3>2
    <3>4. Exact(rows, o.got, x.pv, more)
      BY <1>1, <3>3, ExactLonger
    <3> QED
      BY <3>2, <3>4
  <2> QED
    BY <1>3, <1>4, <2>1 DEF Flushable
<1>5. ASSUME x.cvr = d.version
      PROVE  Current(x, o, p, d, cv, more)
  <2>1. Current(x, o, p, d, cv, lg) /\ d.version \in DOMAIN cv
    BY <1>5 DEF Going, Committed
  <2>2. o.pc = "flush" => o.from \in DOMAIN cv
    BY DEF Going, Working
  <2> QED
    BY <1>3, <1>4, <2>1, <2>2 DEF Current
<1> QED
  BY <1>1, <1>5 DEF Going


-----------------------------------------------------------------------------
(* A CVR is added to the history. *)

Grown(cv, more, to, cr) ==
    /\ DOMAIN more = DOMAIN cv \cup {to} /\ to \notin DOMAIN cv
    /\ more[to] = cr
    /\ \A v \in DOMAIN cv : more[v] = cv[v]

LEMMA Growth ==
    ASSUME NEW lg, NEW cv, NEW from, Committed(cv, from, lg), NEW to \in Version, Less(from, to),
           NEW cr, NEW more, more = cv ++ [v \in {to} |-> cr]
    PROVE  Grown(cv, more, to, cr)
<1>1. from \in Version /\ \A v \in DOMAIN cv : v \in Version /\ AtMost(v, from)
  BY DEF Committed
<1>2. to \notin DOMAIN cv
  <2> SUFFICES ASSUME to \in DOMAIN cv
               PROVE  FALSE
    OBVIOUS
  <2>1. AtMost(to, from)
    BY <1>1
  <2> QED
    BY <1>1, <2>1, NoVersionFirst, VersionOrder
<1> QED
  BY <1>2 DEF Grown, ++

LEMMA GrownOrder ==
    ASSUME NEW lg, NEW cv, NEW from, Committed(cv, from, lg), NEW to \in Version, Less(from, to),
           NEW v \in DOMAIN cv
    PROVE  /\ v \in Version /\ v \in Cookie /\ to \in Cookie /\ v # NoVersion /\ v # to
           /\ Less(v, to) /\ ~AtMost(to, v) /\ AtMost(v, from)
<1>1. from \in Version /\ v \in Version /\ AtMost(v, from)
  BY DEF Committed
<1> QED
  BY <1>1, NoVersionFirst, VersionOrder

LEMMA WorkingGrown ==
    ASSUME NEW lg, NEW cv, NEW more, NEW to, NEW cr, Grown(cv, more, to, cr), NoVersion \notin DOMAIN cv,
           NEW x, NEW o, Working(x, o, cv, lg)
    PROVE  Working(x, o, more, lg)
<1>1. /\ x.cvr \in {NoVersion} \cup DOMAIN cv
      /\ x.cvr # NoVersion => more[x.cvr] = cv[x.cvr]
      /\ o.pc # "idle" => o.from \in DOMAIN cv /\ more[o.from] = cv[o.from]
  BY DEF Working, Grown
<1>2. o.pc = "catchup" /\ x.cvr # o.from =>
         Less(o.from, o.to) /\ Shown(o.patches, o.to, more[o.from].rows, more[o.to].rows)
  BY <1>1 DEF Working, Grown
<1>3. DOMAIN cv \subseteq DOMAIN more
  BY DEF Grown
<1> QED
  BY <1>1, <1>2, <1>3 DEF Working

LEMMA OthersGrown ==
    ASSUME NEW lg, NEW cv, NEW more, NEW to \in Version, NEW cr, Grown(cv, more, to, cr),
           NEW from, Committed(cv, from, lg), Less(from, to),
           NEW x, NEW o, NEW p, NEW d, NEW q, NEW e, Going(x, o, p, d, cv, lg), e.version = to
    PROVE  Going(x, o, q, e, more, lg)
<1>1. NoVersion \notin DOMAIN cv
  BY GrownOrder
<1>2. Working(x, o, cv, lg) /\ x.cvr \in {NoVersion} \cup DOMAIN cv
  BY DEF Going, Working
<1>3. Working(x, o, more, lg)
  BY <1>1, <1>2, WorkingGrown
<1>4. x.cvr # to
  BY <1>2, NoVersionFirst DEF Grown
<1> QED
  BY <1>3, <1>4 DEF Going

LEMMA CommittedGrown ==
    ASSUME NEW lg, NEW cv, NEW more, NEW to \in Version, NEW cr, Grown(cv, more, to, cr),
           NEW from, Committed(cv, from, lg), Less(from, to), to[1] <= Len(lg),
           Recording(cr, to, more, lg)
    PROVE  Committed(more, to, lg)
<1>1. ASSUME NEW v \in DOMAIN more
      PROVE  /\ v \in Version /\ AtMost(v, to) /\ v[1] <= Len(lg)
             /\ Recording(more[v], v, more, lg)
  <2>1. CASE v \in DOMAIN cv
    <3>1. /\ v \in Version /\ AtMost(v, from) /\ v[1] <= Len(lg)
          /\ Recording(cv[v], v, cv, lg) /\ more[v] = cv[v] /\ DOMAIN cv \subseteq DOMAIN more
      BY <2>1 DEF Committed, Grown
    <3>2. Less(v, to) /\ v \in Cookie /\ to \in Cookie
      BY <2>1, GrownOrder
    <3>3. AtMost(v, to)
      BY <3>2 DEF AtMost
    <3>4. Recording(more[v], v, more, lg)
      BY <3>1 DEF Recording
    <3> QED
      BY <3>1, <3>3, <3>4
  <2>2. CASE v = to
    BY <2>2 DEF Grown, AtMost
  <2> QED
    BY <2>1, <2>2 DEF Grown
<1>2. /\ EmptyVersion \in DOMAIN more /\ more[EmptyVersion].rows = NoRows
      /\ to \in DOMAIN more
  BY DEF Committed, Grown
<1> QED
  BY <1>1, <1>2 DEF Committed

LEMMA WholeGrown ==
    ASSUME NEW lg, NEW cv, NEW more, NEW to \in Version, NEW cr, Grown(cv, more, to, cr),
           NEW from, Committed(cv, from, lg), Less(from, to),
           NEW v \in DOMAIN cv, NEW rows, Whole(rows, cv, v)
    PROVE  Whole(rows, more, v)
<1>1. ~AtMost(to, v)
  BY GrownOrder
<1>2. \A b \in DOMAIN more : AtMost(b, v) => b \in DOMAIN cv /\ more[b] = cv[b]
  BY <1>1 DEF Grown
<1>3. more[v] = cv[v] /\ DOMAIN cv \subseteq DOMAIN more
  BY DEF Grown
<1> QED
  BY <1>2, <1>3 DEF Whole

Writing(lg, cv, more, to, cr, from, before, rows, after) ==
    /\ to \in Version /\ Grown(cv, more, to, cr) /\ Committed(cv, from, lg) /\ Less(from, to)
    /\ Whole(before, cv, from)
    /\ cr.rows = Cached(rows ++ cv[from].rows)
    /\ Recorded(rows, to, cv[from].rows, cr.rows)
    /\ after = rows ++ before

\* The records of the new version: those written over those there were.
LEMMA WholeNext ==
    ASSUME NEW lg, NEW cv, NEW more, NEW to, NEW cr, NEW from, NEW before, NEW rows, NEW after,
           Writing(lg, cv, more, to, cr, from, before, rows, after)
    PROVE  /\ Whole(after, more, to)
           /\ \A r \in Rows :
                 \/ AtMost(after[r].patch, from)
                 \/ after[r].patch = to /\ View(cv[from].rows)[r] # View(more[to].rows)[r]
<1>0. /\ to \in Version /\ Grown(cv, more, to, cr) /\ Committed(cv, from, lg) /\ Less(from, to)
      /\ Whole(before, cv, from)
      /\ cr.rows = Cached(rows ++ cv[from].rows)
      /\ Recorded(rows, to, cv[from].rows, cr.rows)
      /\ after = rows ++ before
  BY DEF Writing
<1> USE <1>0
<1> DEFINE old == cv[from].rows
<1>1. /\ before \in [Rows -> Rec] /\ Cached(before) = old
      /\ \A r \in Rows : before[r].patch \in DOMAIN cv
      /\ \A r \in Rows : \A b \in DOMAIN cv :
            AtMost(before[r].patch, b) /\ AtMost(b, from) => View(cv[b].rows)[r] = View(before)[r]
  BY DEF Whole
<1>2. DOMAIN rows \subseteq Rows /\ from \in DOMAIN cv /\ more[to] = cr /\ old \in [Rows -> Rec]
  BY DEF Recorded, Committed, Grown, Recording, Cvr
<1>3. /\ after \in [Rows -> Rec]
      /\ \A r \in DOMAIN rows : after[r] = rows[r]
      /\ \A r \in Rows \ DOMAIN rows : after[r] = before[r]
  BY <1>1, <1>2 DEF ++, Recorded
<1>4. /\ \A r \in DOMAIN rows : (rows ++ old)[r] = rows[r]
      /\ \A r \in Rows \ DOMAIN rows : (rows ++ old)[r] = old[r]
  BY <1>2 DEF ++
<1> HIDE DEF old
<1>5. ASSUME NEW r \in Rows
      PROVE  Cached(after)[r] = cr.rows[r] /\ View(cr.rows)[r] = View(after)[r]
  <2>1. PICK both : both = rows ++ old
    OBVIOUS
  <2>2. cr.rows = Cached(both)
    BY <2>1 DEF old
  <2>3. /\ Cached(both)[r] = IF Referenced(both[r]) THEN both[r] ELSE Absent
        /\ Cached(after)[r] = IF Referenced(after[r]) THEN after[r] ELSE Absent
        /\ Cached(before)[r] = IF Referenced(before[r]) THEN before[r] ELSE Absent
        /\ View(Cached(after))[r] = View(after)[r]
        /\ View(Cached(after))[r] = IF Referenced(Cached(after)[r]) THEN Cached(after)[r].at ELSE 0
        /\ View(Cached(both))[r] = IF Referenced(Cached(both)[r]) THEN Cached(both)[r].at ELSE 0
    BY CachedFacts
  <2>4. Cached(after)[r] = Cached(both)[r]
    <3>1. CASE r \in DOMAIN rows
      BY <1>3, <1>4, <2>1, <2>3, <3>1
    <3>2. CASE r \notin DOMAIN rows
      <4>1. both[r] = Cached(before)[r] /\ after[r] = before[r]
        BY <1>1, <1>3, <1>4, <2>1, <3>2
      <4> QED
        BY <2>3, <4>1, AbsentFacts
    <3> QED
      BY <3>1, <3>2
  <2> QED
    BY <2>2, <2>3, <2>4
<1>6. Cached(after) = cr.rows
  <2>1. PICK both : both = rows ++ old
    OBVIOUS
  <2>2. cr.rows = Cached(both)
    BY <2>1 DEF old
  <2> QED
    BY <1>5, <2>2 DEF Cached
<1>7. \A r \in DOMAIN rows :
         \/ rows[r].patch = to /\ View(old)[r] # View(cr.rows)[r]
         \/ /\ Referenced(old[r]) /\ rows[r].patch = old[r].patch
            /\ View(old)[r] = View(cr.rows)[r]
  BY DEF Recorded, old
<1>8. ASSUME NEW r \in Rows
      PROVE  \/ after[r].patch = to /\ View(old)[r] # View(cr.rows)[r]
             \/ after[r].patch = before[r].patch /\ View(after)[r] = View(before)[r]
  <2>1. View(cr.rows)[r] = View(after)[r]
    BY <1>5
  <2>2. /\ View(Cached(before))[r] = View(before)[r]
        /\ Cached(before)[r] = IF Referenced(before[r]) THEN before[r] ELSE Absent
        /\ View(before)[r] = IF Referenced(before[r]) THEN before[r].at ELSE 0
        /\ View(after)[r] = IF Referenced(after[r]) THEN after[r].at ELSE 0
    BY CachedFacts
  <2>3. CASE r \in DOMAIN rows
    <3>1. after[r] = rows[r]
      BY <1>3, <2>3
    <3>2. Referenced(old[r]) => old[r] = before[r]
      BY <1>1, <2>2, AbsentFacts
    <3>3. View(old)[r] = View(before)[r]
      BY <1>1, <2>2
    <3> QED
      BY <1>7, <2>1, <2>3, <3>1, <3>2, <3>3
  <2>4. CASE r \notin DOMAIN rows
    <3>1. after[r] = before[r]
      BY <1>3, <2>4
    <3> QED
      BY <2>2, <3>1
  <2> QED
    BY <2>3, <2>4
<1>9. \A v \in DOMAIN cv : v # to /\ AtMost(v, from) /\ ~AtMost(to, v)
  BY GrownOrder
<1>10. ASSUME NEW r \in Rows, NEW b \in DOMAIN more, AtMost(after[r].patch, b), AtMost(b, to)
       PROVE  View(more[b].rows)[r] = View(after)[r]
  <2>1. CASE b = to
    BY <1>2, <1>5, <2>1
  <2>2. CASE b \in DOMAIN cv
    <3>1. AtMost(b, from) /\ more[b] = cv[b] /\ ~AtMost(to, b)
      BY <1>9, <2>2 DEF Grown
    <3>2. after[r].patch = before[r].patch /\ View(after)[r] = View(before)[r]
      BY <1>8, <1>10, <3>1
    <3>3. View(cv[b].rows)[r] = View(before)[r]
      BY <1>1, <1>10, <2>2, <3>1, <3>2
    <3> QED
      BY <3>1, <3>2, <3>3
  <2> QED
    BY <2>1, <2>2 DEF Grown
<1>11. \A r \in Rows : after[r].patch \in DOMAIN more
  BY <1>1, <1>8 DEF Grown
<1>12. Whole(after, more, to)
  BY <1>2, <1>3, <1>6, <1>10, <1>11 DEF Whole
<1>13. ASSUME NEW r \in Rows
       PROVE  \/ AtMost(after[r].patch, from)
              \/ after[r].patch = to /\ View(old)[r] # View(more[to].rows)[r]
  BY <1>1, <1>2, <1>8, <1>9
<1> QED
  BY <1>12, <1>13 DEF old

LEMMA SeeingGrown ==
    ASSUME NEW cv, NEW more, NEW to, NEW cr, Grown(cv, more, to, cr), NEW cl, Seeing(cl, cv)
    PROVE  Seeing(cl, more)
<1>1. /\ cl.cookie # NoVersion => more[cl.cookie] = cv[cl.cookie]
      /\ DOMAIN cv \subseteq DOMAIN more
  BY DEF Seeing, Grown
<1> QED
  BY <1>1 DEF Seeing, RowsAt


-----------------------------------------------------------------------------
(* Pokes. *)

\* With the patches after its base a client gets from there to a version.
Leads(patches, b, f, cv) ==
    \A r \in Rows :
        IF r \in DOMAIN patches /\ Less(b, patches[r].to)
        THEN patches[r].row = View(cv[f].rows)[r]
        ELSE RowsAt(b, cv)[r] = View(cv[f].rows)[r]

\* What a client is promised.
Observed(cl, after, cv) ==
    \/ /\ after.cookie = cl.cookie /\ after.rows = cl.rows
       /\ after.lost = cl.lost \/ after.lost
    \/ /\ ~cl.lost /\ after.lost = cl.lost
       /\ Less(cl.cookie, after.cookie) /\ after.cookie \in DOMAIN cv
       /\ after.rows = View(cv[after.cookie].rows)

LEMMA ViewTyped ==
    ASSUME NEW rows \in [Rows -> Rec]
    PROVE  View(rows) \in [Rows -> Nat]
<1>1. MaxVersion \in Nat
  BY ViewSyncAssumption
<1>2. \A r \in Rows : rows[r].at \in Nat
  BY <1>1 DEF Rec
<1> QED
  BY <1>2 DEF View

LEMMA CommittedFacts ==
    ASSUME NEW lg, NEW cv, NEW latest, Committed(cv, latest, lg), NEW v \in DOMAIN cv
    PROVE  /\ v \in Version /\ v \in Cookie /\ v # NoVersion /\ Less(NoVersion, v)
           /\ AtMost(v, latest) /\ v[1] \in Nat /\ v[1] <= Len(lg)
           /\ Recording(cv[v], v, cv, lg) /\ cv[v].rows \in [Rows -> Rec]
           /\ View(cv[v].rows) \in [Rows -> Nat]
<1>1. v \in Version /\ AtMost(v, latest) /\ v[1] <= Len(lg) /\ Recording(cv[v], v, cv, lg)
  BY DEF Committed
<1>2. cv[v].rows \in [Rows -> Rec]
  BY <1>1 DEF Recording, Cvr
<1>3. v[1] \in Nat
  BY <1>1 DEF Version
<1> QED
  BY <1>1, <1>2, <1>3, NoVersionFirst, ViewTyped

LEMMA ApplySees ==
    ASSUME NEW lg, NEW cv, NEW latest, Committed(cv, latest, lg),
           NEW cl \in Client, Seeing(cl, cv), cl.on, NEW base \in Cookie, NEW f \in DOMAIN cv,
           NEW patches, Less(base, f) => Leads(patches, base, f, cv),
           NEW after, after = Apply(cl, base, Newer(patches, base), f)
    PROVE  after \in Client /\ Seeing(after, cv) /\ Observed(cl, after, cv)
<1>1. ~cl.lost /\ cl.cookie \in Cookie /\ cl.rows = RowsAt(cl.cookie, cv)
  BY DEF Seeing, Client
<1>2. f \in Cookie /\ f # NoVersion /\ View(cv[f].rows) \in [Rows -> Nat]
  BY CommittedFacts
<1>3. CASE cl.receiving \/ base # cl.cookie \/ Less(f, cl.cookie)
  <2>1. after = [cl EXCEPT !.on = FALSE, !.receiving = FALSE]
    BY <1>3 DEF Apply, Off
  <2> QED
    BY <2>1 DEF Client, Seeing, Observed
<1>4. CASE ~(cl.receiving \/ base # cl.cookie \/ Less(f, cl.cookie)) /\ f = cl.cookie
  <2>1. after = cl
    BY <1>4 DEF Apply
  <2> QED
    BY <2>1 DEF Client, Seeing, Observed
<1>5. CASE ~(cl.receiving \/ base # cl.cookie \/ Less(f, cl.cookie)) /\ f # cl.cookie
  <2>1. PICK new : new = Newer(patches, base)
    OBVIOUS
  <2>2. PICK rows : rows = [r \in Rows |-> IF r \in DOMAIN new THEN new[r].row ELSE cl.rows[r]]
    OBVIOUS
  <2>3. after = [cl EXCEPT !.cookie = f, !.rows = rows]
    BY <1>5, <2>1, <2>2 DEF Apply
  <2>4. Less(cl.cookie, f) /\ cl.cookie = base
    BY <1>1, <1>2, <1>5, VersionOrder
  <2>5. ASSUME NEW r \in Rows
        PROVE  rows[r] = View(cv[f].rows)[r]
    <3>1. /\ r \in DOMAIN new <=> r \in DOMAIN patches /\ Less(base, patches[r].to)
          /\ r \in DOMAIN new => new[r] = patches[r]
      BY <2>1 DEF Newer
    <3>2. IF r \in DOMAIN patches /\ Less(base, patches[r].to)
          THEN patches[r].row = View(cv[f].rows)[r]
          ELSE RowsAt(base, cv)[r] = View(cv[f].rows)[r]
      BY <2>4 DEF Leads
    <3> QED
      BY <1>1, <2>2, <2>4, <3>1, <3>2
  <2>6. rows = View(cv[f].rows)
    BY <1>2, <2>2, <2>5
  <2> QED
    BY <1>1, <1>2, <2>3, <2>4, <2>6 DEF Client, Seeing, Observed, RowsAt
<1> QED
  BY <1>3, <1>4, <1>5

\* A client that does not get a whole poke.
LEMMA QuietlySees ==
    ASSUME NEW cv, NEW cl \in Client, Seeing(cl, cv),
           NEW on \in BOOLEAN, on => cl.on, NEW receiving \in BOOLEAN,
           NEW lost \in BOOLEAN, lost = cl.lost \/ (lost /\ ~on), NEW after,
           after = [cl EXCEPT !.on = on, !.receiving = receiving, !.lost = lost]
    PROVE  after \in Client /\ Seeing(after, cv) /\ Observed(cl, after, cv)
BY DEF Client, Seeing, Observed

\* What a catchup sends, when the CVR is current.
CatchingUp(lg, cv, f, rows, pv, from, to, patches, adds, oldest, b, caught, full) ==
    /\ Committed(cv, f, lg) /\ Whole(rows, cv, f)
    /\ Same(lg, f[1], pv, cv[f].got)
    /\ from \in DOMAIN cv /\ f \in {from, to} /\ adds \in SUBSET Queries
    /\ f # from => Less(from, to) /\ Shown(patches, to, cv[from].rows, cv[to].rows)
    /\ \A r \in DOMAIN patches : patches[r].row = View(cv[f].rows)[r]
    /\ Hydrated(patches, adds, cv[f].rows)
    /\ f # from => \A r \in Rows :
          \/ AtMost(rows[r].patch, from)
          \/ rows[r].patch = to /\ View(cv[from].rows)[r] # View(cv[to].rows)[r]
    /\ oldest \in Cookie /\ b \in {NoVersion} \cup DOMAIN cv /\ AtMost(oldest, b) /\ Less(b, f)
    /\ caught = {r \in Rows : /\ Less(oldest, rows[r].patch) /\ AtMost(rows[r].patch, from)
                              /\ \A q \in adds : rows[r].refs[q] = 0}
    /\ DOMAIN full = caught \cup DOMAIN patches
    /\ \A r \in caught : full[r] = [row |-> IF Referenced(rows[r]) THEN lg[pv][r] ELSE 0,
                                    to |-> rows[r].patch]
    /\ \A r \in DOMAIN patches \ caught : full[r] = patches[r]

LEMMA CatchupLeads ==
    ASSUME NEW lg, NEW cv, NEW f, NEW rows, NEW pv, NEW from, NEW to, NEW patches, NEW adds,
           NEW oldest, NEW b, NEW caught, NEW full,
           CatchingUp(lg, cv, f, rows, pv, from, to, patches, adds, oldest, b, caught, full)
    PROVE  Leads(full, b, f, cv)
<1>0. /\ Committed(cv, f, lg) /\ Whole(rows, cv, f)
      /\ Same(lg, f[1], pv, cv[f].got)
      /\ from \in DOMAIN cv /\ f \in {from, to} /\ adds \in SUBSET Queries
      /\ f # from => Less(from, to) /\ Shown(patches, to, cv[from].rows, cv[to].rows)
      /\ \A r \in DOMAIN patches : patches[r].row = View(cv[f].rows)[r]
      /\ Hydrated(patches, adds, cv[f].rows)
      /\ f # from => \A r \in Rows :
            \/ AtMost(rows[r].patch, from)
            \/ rows[r].patch = to /\ View(cv[from].rows)[r] # View(cv[to].rows)[r]
      /\ oldest \in Cookie /\ b \in {NoVersion} \cup DOMAIN cv /\ AtMost(oldest, b) /\ Less(b, f)
      /\ caught = {r \in Rows : /\ Less(oldest, rows[r].patch) /\ AtMost(rows[r].patch, from)
                                /\ \A q \in adds : rows[r].refs[q] = 0}
      /\ DOMAIN full = caught \cup DOMAIN patches
      /\ \A r \in caught : full[r] = [row |-> IF Referenced(rows[r]) THEN lg[pv][r] ELSE 0,
                                      to |-> rows[r].patch]
      /\ \A r \in DOMAIN patches \ caught : full[r] = patches[r]
  BY DEF CatchingUp
<1> USE <1>0
<1>1. f \in DOMAIN cv /\ f \in Cookie /\ Recording(cv[f], f, cv, lg) /\ b \in Cookie
  <2>1. f \in DOMAIN cv
    BY DEF Committed
  <2>2. b \in Cookie
    BY CommittedFacts DEF Cookie
  <2> QED
    BY <2>1, <2>2, CommittedFacts
<1>2. ASSUME NEW r \in Rows
      PROVE  IF r \in DOMAIN full /\ Less(b, full[r].to)
             THEN full[r].row = View(cv[f].rows)[r]
             ELSE RowsAt(b, cv)[r] = View(cv[f].rows)[r]
  <2>1. /\ rows[r] \in Rec /\ rows[r].patch \in DOMAIN cv /\ rows[r].patch \in Cookie
        /\ AtMost(rows[r].patch, f)
    <3>1. rows[r] \in Rec /\ rows[r].patch \in DOMAIN cv
      BY DEF Whole
    <3> QED
      BY <3>1, CommittedFacts
  <2>2. /\ View(cv[f].rows)[r] = View(rows)[r]
        /\ cv[f].rows[r] = IF Referenced(rows[r]) THEN rows[r] ELSE Absent
        /\ View(rows)[r] = IF Referenced(rows[r]) THEN rows[r].at ELSE 0
    BY CachedFacts DEF Whole
  <2>3. AtMost(rows[r].patch, b) => RowsAt(b, cv)[r] = View(cv[f].rows)[r]
    <3> HAVE AtMost(rows[r].patch, b)
    <3>1. b # NoVersion
      <4>1. Less(NoVersion, rows[r].patch)
        BY <2>1, CommittedFacts
      <4>2. NoVersion \in Cookie
        BY DEF Cookie
      <4> QED
        BY <2>1, <4>1, <4>2, VersionOrder
    <3>2. b \in DOMAIN cv /\ AtMost(b, f)
      BY <3>1, CommittedFacts
    <3>3. View(cv[b].rows)[r] = View(rows)[r]
      BY <3>2 DEF Whole
    <3> QED
      BY <2>2, <3>1, <3>3 DEF RowsAt
  <2>4. Less(oldest, rows[r].patch) \/ AtMost(rows[r].patch, b)
    <3>1. Less(b, rows[r].patch) => Less(oldest, rows[r].patch)
      BY <1>1, <2>1, VersionOrder
    <3>2. ~Less(b, rows[r].patch) => AtMost(rows[r].patch, b)
      BY <1>1, <2>1, VersionOrder
    <3> QED
      BY <3>1, <3>2
  <2>5. CASE r \in caught
    <3>1. full[r] = [row |-> IF Referenced(rows[r]) THEN lg[pv][r] ELSE 0, to |-> rows[r].patch]
      BY <2>5
    <3>2. full[r].row = (IF Referenced(rows[r]) THEN lg[pv][r] ELSE 0) /\ full[r].to = rows[r].patch
      BY <3>1
    <3>3. Referenced(rows[r]) => rows[r].at = lg[pv][r]
      <4> HAVE Referenced(rows[r])
      <4>1. Referenced(cv[f].rows[r]) /\ cv[f].rows[r].at = rows[r].at
        BY <2>2
      <4>2. Exact(cv[f].rows, cv[f].got, f[1], lg) /\ cv[f].got \in SUBSET Queries
        BY <1>1 DEF Recording, Cvr
      <4>3. /\ Referenced(cv[f].rows[r]) <=> f[1] > 0 /\ lg[f[1]][r] # 0 /\ \E q \in cv[f].got : r \in Selects[q]
            /\ Referenced(cv[f].rows[r]) => cv[f].rows[r].at = lg[f[1]][r] /\ lg[f[1]][r] # 0
            /\ ~Referenced(cv[f].rows[r]) => cv[f].rows[r] = Absent
        BY <4>2, Counted
      <4>4. lg[pv][r] = lg[f[1]][r]
        BY <4>1, <4>3 DEF Same
      <4> QED
        BY <4>1, <4>3, <4>4
    <3>4. full[r].row = View(cv[f].rows)[r]
      BY <2>2, <3>2, <3>3
    <3>5. ~Less(b, full[r].to) => AtMost(rows[r].patch, b)
      BY <1>1, <2>1, <3>2, VersionOrder
    <3>6. r \in DOMAIN full
      BY <2>5
    <3>7. CASE Less(b, full[r].to)
      BY <3>4, <3>6, <3>7
    <3>8. CASE ~Less(b, full[r].to)
      BY <2>3, <3>5, <3>8
    <3> QED
      BY <3>7, <3>8
  <2>6. CASE r \notin caught
    <3>1. r \in DOMAIN full <=> r \in DOMAIN patches
      BY <2>6
    <3>2. r \in DOMAIN patches => full[r] = patches[r] /\ patches[r].row = View(cv[f].rows)[r]
      BY <2>6
    <3>3. AtMost(rows[r].patch, b) \/ (r \in DOMAIN patches /\ patches[r].to = rows[r].patch)
      <4>1. CASE AtMost(rows[r].patch, b)
        BY <4>1
      <4>2. CASE ~AtMost(rows[r].patch, b) /\ AtMost(rows[r].patch, from)
        <5>1. PICK q \in adds : rows[r].refs[q] # 0
          BY <2>4, <2>6, <4>2
        <5>2. q \in Queries /\ rows[r].refs[q] \in Nat
          BY <2>1 DEF Rec
        <5>3. Referenced(rows[r])
          BY <5>1, <5>2 DEF Referenced
        <5>4. cv[f].rows[r] = rows[r]
          BY <2>2, <5>3
        <5> QED
          BY <5>1, <5>4 DEF Hydrated
      <4>3. CASE ~AtMost(rows[r].patch, from)
        <5>1. f # from
          BY <2>1, <4>3
        <5>2. rows[r].patch = to /\ View(cv[from].rows)[r] # View(cv[to].rows)[r]
          BY <4>3, <5>1
        <5> QED
          BY <5>1, <5>2 DEF Shown
      <4> QED
        BY <4>1, <4>2, <4>3
    <3>4. CASE r \in DOMAIN patches /\ Less(b, patches[r].to)
      BY <3>1, <3>2, <3>4
    <3>5. CASE ~(r \in DOMAIN patches /\ Less(b, patches[r].to))
      <4>1. AtMost(rows[r].patch, b)
        BY <1>1, <2>1, <3>3, <3>5, VersionOrder
      <4> QED
        BY <2>3, <3>1, <3>2, <3>5, <4>1
    <3> QED
      BY <3>4, <3>5
  <2> QED
    BY <2>5, <2>6
<1> QED
  BY <1>2 DEF Leads

\* What an update that is flushed sends to those at the version it starts from.
LEMMA ShownLeads ==
    ASSUME NEW cv, NEW from, from # NoVersion, NEW to, Less(from, to), NEW patches,
           Shown(patches, to, cv[from].rows, cv[to].rows)
    PROVE  Leads(patches, from, to, cv)
BY DEF Leads, Shown, RowsAt

\* Rows that are the same need no patches.
LEMMA NothingLeads ==
    ASSUME NEW cv, NEW b, NEW f, NEW patches, patches = None,
           \A r \in Rows : RowsAt(b, cv)[r] = View(cv[f].rows)[r]
    PROVE  Leads(patches, b, f, cv)
BY DEF Leads, None


LEMMA ClientsPoked ==
    ASSUME NEW lg, NEW cv, NEW latest, Committed(cv, latest, lg), Kinds, NEW s \in Syncers,
           \A c \in Clients : Seeing(client[c], cv), NEW o, NEW f \in DOMAIN cv,
           \A c \in Clients : c \in Served(s, o) /\ Less(handler[s][c].base, f) =>
              Leads(o.patches, handler[s][c].base, f, cv),
           NEW after, after = ClientsAfter(s, o, f)
    PROVE  /\ after \in [Clients -> Client]
           /\ \A c \in Clients : Seeing(after[c], cv) /\ Observed(client[c], after[c], cv)
<1>1. ASSUME NEW c \in Clients
      PROVE  after[c] \in Client /\ Seeing(after[c], cv) /\ Observed(client[c], after[c], cv)
  <2>1. client[c] \in Client /\ handler[s][c] \in Handler /\ Seeing(client[c], cv)
    BY DEF Kinds
  <2>2. handler[s][c].base \in Cookie
    BY <2>1 DEF Handler
  <2>3. after[c] = LET h == handler[s][c] IN
           IF c \notin Served(s, o) \/ ~Connected(s, c) \/ Quiet(h, o, f) THEN client[c]
           ELSE IF ~Ends(h, o, f) THEN Dangling(s, c)
           ELSE Apply(client[c], h.base, Newer(o.patches, h.base), f)
    BY DEF ClientsAfter
  <2>4. CASE after[c] = client[c]
    BY <2>1, <2>4 DEF Observed
  <2>5. CASE after[c] = Dangling(s, c)
    <3>1. PICK receiving : receiving = (Connected(s, c) \/ client[c].receiving)
      OBVIOUS
    <3>2. receiving \in BOOLEAN
      BY <2>1, <3>1 DEF Client
    <3>3. after[c] = [client[c] EXCEPT !.receiving = receiving]
      BY <2>5, <3>1 DEF Dangling
    <3> QED
      BY <2>1, <3>2, <3>3 DEF Client, Seeing, Observed
  <2>6. CASE /\ after[c] = Apply(client[c], handler[s][c].base, Newer(o.patches, handler[s][c].base), f)
             /\ c \in Served(s, o) /\ Connected(s, c)
    <3>1. client[c].on
      BY <2>6 DEF Connected
    <3>2. PICK base : base = handler[s][c].base
      OBVIOUS
    <3>3. /\ base \in Cookie /\ Less(base, f) => Leads(o.patches, base, f, cv)
      BY <2>2, <2>6, <3>2
    <3>4. after[c] = Apply(client[c], base, Newer(o.patches, base), f)
      BY <2>6, <3>2
    <3> QED
      BY <2>1, <2>2, <3>1, <3>2, <3>3, <3>4, ApplySees
  <2> QED
    BY <2>3, <2>4, <2>5, <2>6
<1>2. after = [c \in Clients |-> after[c]]
  BY DEF ClientsAfter
<1> QED
  BY <1>1, <1>2

LEMMA HandlersPoked ==
    ASSUME Kinds, NEW s \in Syncers, NEW o, NEW f \in Cookie,
           NEW after, after = HandlersAfter(s, o, f)
    PROVE  /\ after \in [Syncers -> [Clients -> Handler]]
           /\ \A t \in Syncers, c \in Clients :
                 /\ after[t][c].ws = handler[t][c].ws
                 /\ after[t][c].base \in {handler[t][c].base, f}
                 /\ t # s => after[t] = handler[t]
<1> DEFINE mine == [c \in Clients |->
              LET h == handler[s][c] IN
              IF c \in Served(s, o) /\ Ends(h, o, f)
              THEN [h EXCEPT !.base = f, !.poked = TRUE] ELSE h]
<1>1. handler \in [Syncers -> [Clients -> Handler]]
  BY DEF Kinds
<1>2. after = [handler EXCEPT ![s] = mine]
  BY DEF HandlersAfter
<1>3. ASSUME NEW c \in Clients
      PROVE  /\ mine[c] \in Handler /\ mine[c].ws = handler[s][c].ws
             /\ mine[c].base \in {handler[s][c].base, f}
  <2>1. handler[s][c] \in Handler
    BY <1>1
  <2>2. mine[c] = handler[s][c] \/ mine[c] = [handler[s][c] EXCEPT !.base = f, !.poked = TRUE]
    OBVIOUS
  <2> HIDE DEF mine
  <2> QED
    BY <2>1, <2>2 DEF Handler
<1>4. mine \in [Clients -> Handler]
  <2>1. mine = [c \in Clients |-> mine[c]]
    OBVIOUS
  <2> HIDE DEF mine
  <2> QED
    BY <1>3, <2>1
<1> HIDE DEF mine
<1> QED
  BY <1>1, <1>2, <1>3, <1>4

\* A client that loses its connection.
Cut(cl, after) ==
    /\ after \in Client
    /\ after.cookie = cl.cookie /\ after.rows = cl.rows
    /\ after.on => cl.on /\ after.lost = cl.lost
    /\ after.lost = cl.lost \/ after.lost

LEMMA CutSees ==
    ASSUME NEW cv, NEW cl, Seeing(cl, cv), NEW after, Cut(cl, after)
    PROVE  Seeing(after, cv) /\ Observed(cl, after, cv)
BY DEF Cut, Seeing, Observed

LEMMA HungUpCuts ==
    ASSUME Kinds, NEW s \in Syncers
    PROVE  /\ HungUp(s) \in [Clients -> Client]
           /\ \A c \in Clients : Cut(client[c], HungUp(s)[c]) /\ HungUp(s)[c].lost = client[c].lost
<1>1. ASSUME NEW c \in Clients
      PROVE  Cut(client[c], HungUp(s)[c]) /\ HungUp(s)[c].lost = client[c].lost
  <2>1. client[c] \in Client
    BY DEF Kinds
  <2>2. HungUp(s)[c] = IF Connected(s, c) THEN [client[c] EXCEPT !.on = FALSE, !.receiving = FALSE]
                       ELSE client[c]
    BY DEF HungUp, Off
  <2> QED
    BY <2>1, <2>2 DEF Client, Cut
<1>2. HungUp(s) = [c \in Clients |-> HungUp(s)[c]]
  BY DEF HungUp
<1> QED
  BY <1>1, <1>2 DEF Cut

LEMMA PokingSame ==
    ASSUME NEW cv, NEW more, DOMAIN cv \subseteq DOMAIN more, NEW k \in Nat, NEW n \in Nat, k <= n,
           NEW h, NEW x, NEW o, Poking(h, x, o, k, cv), NEW y, y.cvr = x.cvr, NEW g,
           \A c \in Clients :
              \/ g[c].ws = h[c].ws /\ g[c].base = h[c].base
              \/ /\ g[c].ws \in Nat /\ g[c].ws <= n /\ g[c].base \in {NoVersion} \cup DOMAIN cv
                 /\ g[c].ws = 0 \/ g[c].ws > k,
           \A c \in Clients : h[c].ws \in Nat
    PROVE  Poking(g, y, o, n, more)
<1>1. \A c \in Clients : g[c].base \in {NoVersion} \cup DOMAIN more /\ g[c].ws <= n
  BY DEF Poking
<1>2. ASSUME NEW c \in DOMAIN o.pokers
      PROVE  /\ c \in Clients /\ o.pokers[c] \in 1..n
             /\ g[c].ws = o.pokers[c] =>
                   /\ o.pc = "flush" /\ o.advance =>
                         g[c].base = o.from \/ (g[c].base = NoVersion /\ o.from = EmptyVersion)
                   /\ o.pc = "catchup" /\ y.cvr # o.from => AtMost(g[c].base, o.from)
  <2>1. /\ c \in Clients /\ o.pokers[c] \in 1..k
        /\ h[c].ws = o.pokers[c] =>
              /\ o.pc = "flush" /\ o.advance =>
                    h[c].base = o.from \/ (h[c].base = NoVersion /\ o.from = EmptyVersion)
              /\ o.pc = "catchup" /\ x.cvr # o.from => AtMost(h[c].base, o.from)
    BY DEF Poking
  <2>2. o.pokers[c] \in 1..n
    BY <2>1
  <2>3. g[c].ws = o.pokers[c] => g[c].ws = h[c].ws /\ g[c].base = h[c].base
    BY <2>1
  <2> QED
    BY <2>1, <2>2, <2>3
<1> QED
  BY <1>1, <1>2 DEF Poking

LEMMA PokingIdle ==
    ASSUME NEW cv, NEW k \in Nat, NEW x, NEW h,
           \A c \in Clients : h[c].base \in {NoVersion} \cup DOMAIN cv /\ h[c].ws <= k
    PROVE  Poking(h, x, Idle, k, cv)
<1>1. DOMAIN Idle.pokers = {}
  BY DEF Idle
<1> QED
  BY <1>1 DEF Poking

LEMMA IdleFacts ==
    /\ Idle.pc = "idle" /\ Idle.adds = {} /\ Idle.patches = None /\ Idle.run = FALSE
    /\ DOMAIN Idle.pokers = {} /\ Idle.advance = FALSE
    /\ DOMAIN Idle = {"pc", "run", "c", "ws", "from", "to", "advance", "noted", "writes", "bad",
                      "queries", "got", "adds", "rows", "patches", "pokers"}
BY DEF Idle

\* What the client is promised by a step.
Kept ==
    /\ \/ cvrs' = cvrs
       \/ \E to, cr : Grown(cvrs, cvrs', to, cr) /\ \A u \in DOMAIN cvrs : Less(u, to)
    /\ \A c \in Clients : Observed(client[c], client'[c], cvrs')

\* A step that writes nothing.
LEMMA CalmStep ==
    ASSUME IInv, log' = log, cvrs' = cvrs, db' = db, pending' = pending, wants' \in [Clients -> SUBSET Queries],
           used' \in [connects : Nat, events : Nat],
           syncer' \in [Syncers -> Syncing], handler' \in [Syncers -> [Clients -> Handler]],
           client' \in [Clients -> Client], op' = [s \in Syncers |-> op'[s]],
           \A s \in Syncers : /\ DOMAIN op'[s] = DOMAIN Idle
                              /\ syncer[s].state = "crashed" => syncer'[s].state = "crashed"
                              /\ Going(syncer'[s], op'[s], pending[s], db, cvrs, log)
                              /\ Poking(handler'[s], syncer'[s], op'[s], used'.connects, cvrs),
           \A c \in Clients : Seeing(client'[c], cvrs) /\ Observed(client[c], client'[c], cvrs)
    PROVE  IInv' /\ Kept
<1>1. Kinds'
  BY DEF IInv, Kinds
<1>2. Coherent'
  BY DEF IInv, Coherent, Lagging
<1> QED
  BY <1>1, <1>2 DEF IInv, Kept


-----------------------------------------------------------------------------
(* The steps of the environment, and those that fail. *)

\* The invariant of one syncer, one client.
LEMMA Parts ==
    ASSUME IInv
    PROVE  /\ Kinds /\ Coherent
           /\ \A s \in Syncers : /\ syncer[s] \in Syncing /\ DOMAIN op[s] = DOMAIN Idle
                                 /\ Going(syncer[s], op[s], pending[s], db, cvrs, log)
                                 /\ Poking(handler[s], syncer[s], op[s], used.connects, cvrs)
           /\ \A c \in Clients : client[c] \in Client /\ Seeing(client[c], cvrs)
           /\ \A s \in Syncers, c \in Clients : handler[s][c] \in Handler /\ handler[s][c].ws \in Nat
           /\ used.connects \in Nat /\ used.events \in Nat
BY DEF IInv, Kinds, Handler

LEMMA Unseen ==
    ASSUME NEW cl, NEW cv, NEW after, after.cookie = cl.cookie, after.rows = cl.rows,
           after.lost = cl.lost, Seeing(cl, cv), after.on => ~after.lost
    PROVE  Seeing(after, cv) /\ Observed(cl, after, cv)
BY DEF Seeing, Observed

LEMMA NoHandlerFacts ==
    /\ NoHandler \in Handler /\ NoHandler.ws = 0 /\ NoHandler.base = NoVersion
    /\ NoHandlers \in [Clients -> Handler]
    /\ \A c \in Clients : NoHandlers[c] = NoHandler
BY DEF NoHandler, NoHandlers, Handler, Cookie

LEMMA ReplicateStep ==
    ASSUME IInv, Replicate
    PROVE  IInv' /\ Kept
<1>1. /\ Logged(log) /\ Committed(cvrs, db.version, log)
      /\ UNCHANGED <<cvrs, db, syncer, pending, handler, op, client, wants, used>>
  BY DEF IInv, Kinds, Coherent, Replicate
<1>2. PICK r \in Rows, content \in {0, Tip + 1} :
         log' = Append(log, [log[Tip] EXCEPT ![r] = content])
  BY DEF Replicate
<1>3. Len(log) \in 1..MaxVersion /\ Len(log) < MaxVersion /\ MaxVersion \in Nat
  BY <1>1, ViewSyncAssumption DEF Logged, Replicate, Tip
<1>4. log[Len(log)] \in [Rows -> 0..Len(log)] /\ log \in Seq([Rows -> Nat])
  BY <1>1, <1>3 DEF Logged
<1>5. PICK next : next = [log[Tip] EXCEPT ![r] = content]
  OBVIOUS
<1>6. next \in [Rows -> 0..(Len(log) + 1)] /\ next \in [Rows -> Nat]
  BY <1>3, <1>4, <1>5 DEF Tip
<1>7. /\ Len(log') = Len(log) + 1 /\ log' \in Seq([Rows -> Nat])
      /\ \A n \in 1..Len(log) : log'[n] = log[n]
      /\ log'[Len(log) + 1] = next
  BY <1>2, <1>4, <1>5, <1>6
<1>8. Longer(log, log') /\ Len(log) \in Nat /\ Len(log') \in Nat
  BY <1>3, <1>7 DEF Longer
<1>9. Logged(log)'
  <2>1. \A n \in 1..Len(log') : log'[n] \in [Rows -> 0..n]
    <3> TAKE n \in 1..Len(log')
    <3>1. CASE n = Len(log) + 1
      BY <1>6, <1>7, <3>1
    <3>2. CASE n \in 1..Len(log)
      BY <1>1, <1>7, <3>2 DEF Logged
    <3> QED
      BY <1>3, <1>7, <3>1, <3>2
  <2> QED
    BY <1>3, <1>7, <2>1 DEF Logged
<1>10. Committed(cvrs, db.version, log')
  BY <1>1, <1>8, CommittedLonger
<1>11. \A s \in Syncers : Going(syncer[s], op[s], pending[s], db, cvrs, log')
  <2> TAKE s \in Syncers
  <2>1. Going(syncer[s], op[s], pending[s], db, cvrs, log) /\ syncer[s].pv \in Nat
    BY DEF IInv, Kinds, Syncing
  <2> QED
    BY <1>1, <1>8, <2>1, GoingLonger
<1>12. Kinds'
  BY <1>1, <1>9 DEF IInv, Kinds
<1>13. Coherent'
  BY <1>1, <1>10 DEF IInv, Coherent
<1>14. Kept
  BY <1>1 DEF Kept, Observed
<1> QED
  BY <1>1, <1>11, <1>12, <1>13, <1>14 DEF IInv

LEMMA ConnectStep ==
    ASSUME IInv, NEW c \in Clients, NEW s \in Syncers, Connect(c, s)
    PROVE  IInv' /\ Kept
<1> DEFINE now == used.connects + 1
<1>1. /\ Kinds /\ used.connects \in Nat /\ used.events \in Nat /\ now \in Nat
      /\ client[c] \in Client /\ syncer[s] \in Syncing
  <2>1. used.connects \in Nat
    BY Parts
  <2> QED
    BY <2>1, Parts
<1>2. /\ UNCHANGED <<log, cvrs, db, pending, op, wants>>
      /\ used' = [used EXCEPT !.connects = now]
      /\ syncer' = [syncer EXCEPT ![s].state = "up", ![s].lct = now]
      /\ handler' = [handler EXCEPT ![s][c] =
            [ws |-> now, base |-> client[c].cookie, poked |-> FALSE, msg |-> "init"]]
      /\ client' = [client EXCEPT ![c].on = TRUE, ![c].at = s, ![c].ws = now,
                                  ![c].receiving = FALSE]
      /\ ~client[c].lost /\ syncer[s].state \in {"none", "up"}
  BY DEF Connect
<1> HIDE DEF now
<1>3. used' \in [connects : Nat, events : Nat] /\ used'.connects = now
  BY <1>1, <1>2 DEF Kinds
<1>4. /\ syncer' \in [Syncers -> Syncing]
      /\ \A t \in Syncers : /\ syncer'[t].cvr = syncer[t].cvr /\ syncer'[t].cache = syncer[t].cache
                            /\ syncer'[t].pv = syncer[t].pv /\ syncer'[t].synced = syncer[t].synced
                            /\ syncer'[t].hydrated = syncer[t].hydrated
                            /\ syncer[t].state = "crashed" => syncer'[t].state = "crashed"
  <2>1. /\ syncer'[s] = [syncer[s] EXCEPT !.state = "up", !.lct = now]
        /\ \A t \in Syncers \ {s} : syncer'[t] = syncer[t]
        /\ syncer' = [t \in Syncers |-> syncer'[t]]
    BY <1>1, <1>2 DEF Kinds
  <2>2. /\ syncer'[s] \in Syncing
        /\ syncer'[s].cvr = syncer[s].cvr /\ syncer'[s].cache = syncer[s].cache
        /\ syncer'[s].pv = syncer[s].pv /\ syncer'[s].synced = syncer[s].synced
        /\ syncer'[s].hydrated = syncer[s].hydrated
    BY <1>1, <2>1 DEF Syncing
  <2>3. \A t \in Syncers : syncer'[t] \in Syncing
    BY <1>1, <2>1, <2>2 DEF Kinds
  <2> QED
    BY <1>2, <2>1, <2>2, <2>3
<1>5. /\ client'[c] = [client[c] EXCEPT !.on = TRUE, !.at = s, !.ws = now, !.receiving = FALSE]
      /\ \A d \in Clients \ {c} : client'[d] = client[d]
      /\ client' = [d \in Clients |-> client'[d]]
  BY <1>1, <1>2 DEF Kinds
<1>6. /\ client'[c] \in Client /\ client'[c].cookie = client[c].cookie
      /\ client'[c].rows = client[c].rows /\ client'[c].lost = client[c].lost
  BY <1>1, <1>5 DEF Client
<1>7. client' \in [Clients -> Client]
  BY <1>1, <1>5, <1>6 DEF Kinds
<1>8. ASSUME NEW d \in Clients
      PROVE  Seeing(client'[d], cvrs) /\ Observed(client[d], client'[d], cvrs)
  <2>1. Seeing(client[d], cvrs)
    BY Parts
  <2>2. CASE d = c
    BY <1>2, <1>6, <2>1, <2>2, Unseen
  <2>3. CASE d # c
    BY <1>5, <2>1, <2>3 DEF Observed
  <2> QED
    BY <2>2, <2>3
<1>9. /\ handler'[s][c] = [ws |-> now, base |-> client[c].cookie, poked |-> FALSE, msg |-> "init"]
      /\ \A t \in Syncers, d \in Clients : t # s \/ d # c => handler'[t][d] = handler[t][d]
      /\ DOMAIN handler' = Syncers /\ \A t \in Syncers : handler'[t] = [d \in Clients |-> handler'[t][d]]
      /\ handler' = [t \in Syncers |-> handler'[t]]
  BY <1>1, <1>2 DEF Kinds
<1>10. handler' \in [Syncers -> [Clients -> Handler]]
  <2>1. handler'[s][c] \in Handler
    BY <1>1, <1>9 DEF Handler, Client
  <2>2. \A t \in Syncers, d \in Clients : handler'[t][d] \in Handler
    <3> TAKE t \in Syncers, d \in Clients
    <3>1. handler[t][d] \in Handler
      BY Parts
    <3> QED
      BY <1>9, <2>1, <3>1
  <2> QED
    BY <1>9, <2>2
<1>11. ASSUME NEW t \in Syncers
       PROVE  Poking(handler'[t], syncer'[t], op'[t], used'.connects, cvrs)
  <2>1. Poking(handler[t], syncer[t], op[t], used.connects, cvrs)
    BY Parts
  <2>2. \A d \in Clients : handler[t][d].ws \in Nat
    BY Parts
  <2>3. client[c].cookie \in {NoVersion} \cup DOMAIN cvrs
    BY Parts DEF Seeing
  <2>4. ASSUME NEW d \in Clients
        PROVE  \/ handler'[t][d].ws = handler[t][d].ws /\ handler'[t][d].base = handler[t][d].base
               \/ /\ handler'[t][d].ws \in Nat /\ handler'[t][d].ws <= now
                  /\ handler'[t][d].base \in {NoVersion} \cup DOMAIN cvrs
                  /\ handler'[t][d].ws = 0 \/ handler'[t][d].ws > used.connects
    <3>1. CASE t = s /\ d = c
      <4>1. handler'[t][d].ws = now /\ handler'[t][d].base = client[c].cookie
        BY <1>9, <3>1
      <4>2. now \in Nat /\ now <= now /\ now > used.connects
        BY <1>1 DEF now
      <4> QED
        BY <2>3, <4>1, <4>2
    <3>2. CASE ~(t = s /\ d = c)
      BY <1>9, <3>2
    <3> QED
      BY <3>1, <3>2
  <2>5. used.connects <= now
    BY <1>1 DEF now
  <2>6. syncer'[t].cvr = syncer[t].cvr /\ op'[t] = op[t] /\ used'.connects = now
    BY <1>2, <1>3, <1>4
  <2>7. PICK g : g = handler'[t]
    OBVIOUS
  <2>8. PICK y : y = syncer'[t]
    OBVIOUS
  <2>9. Poking(g, y, op[t], now, cvrs)
    BY <1>1, <2>1, <2>2, <2>4, <2>5, <2>6, <2>7, <2>8, PokingSame
  <2> QED
    BY <2>6, <2>7, <2>8, <2>9
<1>12. ASSUME NEW t \in Syncers
       PROVE  Going(syncer'[t], op'[t], pending[t], db, cvrs, log)
  <2>1. Going(syncer[t], op[t], pending[t], db, cvrs, log)
    BY Parts
  <2>2. PICK y : y = syncer'[t]
    OBVIOUS
  <2>3. /\ y.cvr = syncer[t].cvr /\ y.cache = syncer[t].cache /\ y.pv = syncer[t].pv
        /\ y.synced = syncer[t].synced /\ y.hydrated = syncer[t].hydrated
    BY <1>4, <2>2
  <2>4. Going(y, op[t], pending[t], db, cvrs, log)
    BY <2>1, <2>3, GoingSame
  <2> QED
    BY <1>2, <2>2, <2>4
<1>13. op' = [t \in Syncers |-> op'[t]] /\ \A t \in Syncers : DOMAIN op'[t] = DOMAIN Idle
  BY <1>1, <1>2 DEF Kinds
<1> QED
  BY <1>1, <1>2, <1>3, <1>4, <1>7, <1>8, <1>10, <1>11, <1>12, <1>13, CalmStep DEF Kinds


\* A step of one syncer that writes nothing.
LEMMA OneStep ==
    ASSUME IInv, NEW s \in Syncers, log' = log, cvrs' = cvrs, db' = db, pending' = pending,
           wants' = wants, used' \in [connects : Nat, events : Nat], used'.connects = used.connects,
           NEW y \in Syncing, syncer' = [syncer EXCEPT ![s] = y],
           syncer[s].state = "crashed" => y.state = "crashed",
           NEW o, DOMAIN o = DOMAIN Idle, op' = [op EXCEPT ![s] = o],
           Going(y, o, pending[s], db, cvrs, log),
           NEW hs \in [Clients -> Handler], handler' = [handler EXCEPT ![s] = hs],
           Poking(hs, y, o, used.connects, cvrs),
           client' \in [Clients -> Client],
           \A c \in Clients : Seeing(client'[c], cvrs) /\ Observed(client[c], client'[c], cvrs)
    PROVE  IInv' /\ Kept
<1>1. /\ syncer \in [Syncers -> Syncing]
      /\ handler \in [Syncers -> [Clients -> Handler]] /\ wants \in [Clients -> SUBSET Queries]
      /\ op = [t \in Syncers |-> op[t]]
  BY DEF IInv, Kinds
<1>2. /\ syncer'[s] = y /\ op'[s] = o /\ handler'[s] = hs
      /\ \A t \in Syncers \ {s} : /\ syncer'[t] = syncer[t] /\ op'[t] = op[t]
                                  /\ handler'[t] = handler[t]
      /\ syncer' \in [Syncers -> Syncing] /\ op' = [t \in Syncers |-> op'[t]]
      /\ handler' \in [Syncers -> [Clients -> Handler]]
  BY <1>1
<1>3. ASSUME NEW t \in Syncers
      PROVE  /\ DOMAIN op'[t] = DOMAIN Idle
             /\ syncer[t].state = "crashed" => syncer'[t].state = "crashed"
             /\ Going(syncer'[t], op'[t], pending[t], db, cvrs, log)
             /\ Poking(handler'[t], syncer'[t], op'[t], used'.connects, cvrs)
  <2>1. CASE t = s
    BY <1>2, <2>1
  <2>2. CASE t # s
    BY <1>2, <2>2, Parts
  <2> QED
    BY <2>1, <2>2
<1> QED
  BY <1>1, <1>2, <1>3, CalmStep

\* What the steps that fail have in common.
LEMMA Unmoved ==
    ASSUME IInv, NEW s \in Syncers
    PROVE  /\ syncer = [syncer EXCEPT ![s] = syncer[s]] /\ op = [op EXCEPT ![s] = op[s]]
           /\ handler = [handler EXCEPT ![s] = handler[s]]
           /\ handler[s] \in [Clients -> Handler] /\ used \in [connects : Nat, events : Nat]
           /\ \A c \in Clients : handler[s][c].base \in {NoVersion} \cup DOMAIN cvrs
                                 /\ handler[s][c].ws <= used.connects
           /\ client \in [Clients -> Client]
           /\ \A c \in Clients : Seeing(client[c], cvrs) /\ Observed(client[c], client[c], cvrs)
<1>1. op = [op EXCEPT ![s] = op[s]]
  <2>1. op = [t \in Syncers |-> op[t]]
    BY DEF IInv, Kinds
  <2> QED
    BY <2>1
<1> QED
  BY <1>1 DEF IInv, Kinds, Poking, Observed

LEMMA ConnectsTyped ==
    ASSUME IInv
    PROVE  /\ used.connects \in Nat
           /\ [used EXCEPT !.events = @ + 1] \in [connects : Nat, events : Nat]
           /\ [used EXCEPT !.events = @ + 1].connects = used.connects
BY DEF IInv, Kinds

LEMMA PokingAlike ==
    ASSUME NEW cv, NEW k, NEW h, NEW x, NEW o, Poking(h, x, o, k, cv), NEW y, y.cvr = x.cvr, NEW g,
           \A c \in Clients : g[c].ws = h[c].ws /\ g[c].base = h[c].base
    PROVE  Poking(g, y, o, k, cv)
BY DEF Poking

\* A handler that is gone is poked by nobody.
LEMMA PokingGone ==
    ASSUME NEW cv, NEW k \in Nat, NEW h, NEW x, NEW o, Poking(h, x, o, k, cv), NEW y, y.cvr = x.cvr,
           \A c \in Clients : h[c].ws \in Nat, NEW g,
           \A c \in Clients : g[c] = h[c] \/ g[c] = NoHandler
    PROVE  Poking(g, y, o, k, cv)
<1>1. \A c \in Clients : \/ g[c].ws = h[c].ws /\ g[c].base = h[c].base
                        \/ /\ g[c].ws \in Nat /\ g[c].ws <= k /\ g[c].base \in {NoVersion} \cup DOMAIN cv
                           /\ g[c].ws = 0 \/ g[c].ws > k
  BY NoHandlerFacts
<1>2. k <= k /\ DOMAIN cv \subseteq DOMAIN cv
  OBVIOUS
<1> QED
  BY <1>1, <1>2, PokingSame

\* Nothing is asked of a syncer without a CVR and an operation.
LEMMA GoingNowhere ==
    ASSUME NEW y, y.cvr = NoVersion, NEW p, NEW d, NEW cv, NEW lg, NEW latest,
           Committed(cv, d.version, lg), y.pv <= Len(lg)
    PROVE  Going(y, Idle, p, d, cv, lg)
<1>1. d.version # NoVersion
  BY CommittedFacts DEF Committed
<1>2. Working(y, Idle, cv, lg)
  BY IdleFacts DEF Working
<1> QED
  BY <1>1, <1>2 DEF Going

LEMMA ChangeDesiredStep ==
    ASSUME IInv, NEW c \in Clients, ChangeDesired(c)
    PROVE  IInv' /\ Kept
<1>1. /\ UNCHANGED <<log, cvrs, db, syncer, pending, op, client>>
      /\ used' = [used EXCEPT !.events = @ + 1]
      /\ \E q \in Queries :
            wants' = [wants EXCEPT ![c] = IF q \in @ THEN @ \ {q} ELSE @ \cup {q}]
      /\ handler' = [s \in Syncers |->
            IF Connected(s, c) /\ handler[s][c].msg = "none"
            THEN [handler[s] EXCEPT ![c].msg = "change"] ELSE handler[s]]
  BY DEF ChangeDesired
<1>2. wants' \in [Clients -> SUBSET Queries]
  BY <1>1, Parts DEF Kinds
<1>3. used' \in [connects : Nat, events : Nat] /\ used'.connects = used.connects /\ used.connects \in Nat
  BY <1>1, ConnectsTyped
<1>4. ASSUME NEW s \in Syncers
      PROVE  /\ handler'[s] \in [Clients -> Handler]
             /\ \A d \in Clients : /\ handler'[s][d].ws = handler[s][d].ws
                                   /\ handler'[s][d].base = handler[s][d].base
  <2>1. handler[s] \in [Clients -> Handler]
    BY Unmoved
  <2>2. handler'[s] = IF Connected(s, c) /\ handler[s][c].msg = "none"
                      THEN [handler[s] EXCEPT ![c].msg = "change"] ELSE handler[s]
    BY <1>1
  <2>3. PICK h : h = [handler[s] EXCEPT ![c].msg = "change"]
    OBVIOUS
  <2>4. h[c] = [handler[s][c] EXCEPT !.msg = "change"] /\ \A d \in Clients \ {c} : h[d] = handler[s][d]
    BY <2>1, <2>3
  <2>5. h[c] \in Handler /\ h[c].ws = handler[s][c].ws /\ h[c].base = handler[s][c].base
    BY <2>1, <2>4 DEF Handler
  <2>6. h \in [Clients -> Handler]
    BY <2>1, <2>3, <2>5
  <2> QED
    BY <2>1, <2>2, <2>3, <2>4, <2>5, <2>6
<1>5. handler' \in [Syncers -> [Clients -> Handler]]
  BY <1>1, <1>4
<1>6. ASSUME NEW s \in Syncers
      PROVE  Poking(handler'[s], syncer'[s], op'[s], used'.connects, cvrs)
  <2>1. /\ Poking(handler[s], syncer[s], op[s], used.connects, cvrs)
        /\ \A d \in Clients : handler[s][d].ws \in Nat
    BY Parts
  <2>2. PICK g : g = handler'[s]
    OBVIOUS
  <2>3. \A d \in Clients : g[d].ws = handler[s][d].ws /\ g[d].base = handler[s][d].base
    BY <1>4, <2>2
  <2>4. Poking(g, syncer[s], op[s], used.connects, cvrs)
    BY <2>1, <2>3, PokingAlike
  <2> QED
    BY <1>1, <1>3, <2>2, <2>4
<1>7. /\ syncer' \in [Syncers -> Syncing] /\ client' \in [Clients -> Client]
      /\ op' = [s \in Syncers |-> op'[s]]
      /\ \A s \in Syncers : /\ DOMAIN op'[s] = DOMAIN Idle
                            /\ syncer[s].state = "crashed" => syncer'[s].state = "crashed"
                            /\ Going(syncer'[s], op'[s], pending[s], db, cvrs, log)
      /\ \A d \in Clients : Seeing(client'[d], cvrs) /\ Observed(client[d], client'[d], cvrs)
  BY <1>1 DEF IInv, Kinds, Observed
<1> QED
  BY <1>1, <1>2, <1>3, <1>5, <1>6, <1>7, CalmStep

LEMMA NoticeStep ==
    ASSUME IInv, NEW c \in Clients, NEW s \in Syncers, Notice(s, c)
    PROVE  IInv' /\ Kept
<1>1. /\ UNCHANGED <<log, cvrs, db, syncer, pending, op, client, wants, used>>
      /\ handler' = [handler EXCEPT ![s][c] = NoHandler]
  BY DEF Notice
<1>2. PICK hs : hs = [handler[s] EXCEPT ![c] = NoHandler]
  OBVIOUS
<1>3. handler' = [handler EXCEPT ![s] = hs]
  BY <1>1, <1>2, Unmoved
<1>4. hs \in [Clients -> Handler] /\ \A d \in Clients : hs[d] = handler[s][d] \/ hs[d] = NoHandler
  BY <1>2, Unmoved, NoHandlerFacts
<1>5. /\ used.connects \in Nat /\ \A d \in Clients : handler[s][d].ws \in Nat
      /\ Poking(handler[s], syncer[s], op[s], used.connects, cvrs)
      /\ Going(syncer[s], op[s], pending[s], db, cvrs, log)
      /\ syncer[s] \in Syncing /\ DOMAIN op[s] = DOMAIN Idle
  BY Parts
<1>6. Poking(hs, syncer[s], op[s], used.connects, cvrs)
  BY <1>4, <1>5, PokingGone
<1>7. /\ syncer = [syncer EXCEPT ![s] = syncer[s]] /\ op = [op EXCEPT ![s] = op[s]]
      /\ used \in [connects : Nat, events : Nat]
      /\ client \in [Clients -> Client]
      /\ \A d \in Clients : Seeing(client[d], cvrs) /\ Observed(client[d], client[d], cvrs)
  BY Unmoved
<1> QED
  BY <1>1, <1>3, <1>4, <1>5, <1>6, <1>7, OneStep


\* Clients of a syncer that lose their connection, or wait for the end of a poke.
Failing(s) ==
    /\ \E hs \in [Clients -> Handler] :
          /\ handler' = [handler EXCEPT ![s] = hs]
          /\ \A c \in Clients : hs[c] = handler[s][c] \/ hs[c] = NoHandler
    /\ client' \in [Clients -> Client]
    /\ \A c \in Clients : Cut(client[c], client'[c])

LEMMA FailStep ==
    ASSUME IInv, NEW s \in Syncers, Failing(s), log' = log, cvrs' = cvrs, db' = db, pending' = pending,
           wants' = wants, used' \in [connects : Nat, events : Nat], used'.connects = used.connects,
           NEW y \in Syncing, syncer' = [syncer EXCEPT ![s] = y],
           syncer[s].state = "crashed" => y.state = "crashed",
           NEW o, op' = [op EXCEPT ![s] = o], Going(y, o, pending[s], db, cvrs, log),
           \/ o = op[s] /\ y.cvr = syncer[s].cvr
           \/ o = Idle
    PROVE  IInv' /\ Kept
<1>1. PICK hs \in [Clients -> Handler] :
         /\ handler' = [handler EXCEPT ![s] = hs]
         /\ \A c \in Clients : hs[c] = handler[s][c] \/ hs[c] = NoHandler
  BY DEF Failing
<1>2. DOMAIN o = DOMAIN Idle
  BY Parts
<1>3. /\ Poking(handler[s], syncer[s], op[s], used.connects, cvrs) /\ used.connects \in Nat
      /\ \A c \in Clients : handler[s][c].ws \in Nat
  BY Parts
<1>4. \A c \in Clients : handler[s][c].base \in {NoVersion} \cup DOMAIN cvrs /\ handler[s][c].ws <= used.connects
  BY Unmoved
<1>5. Poking(hs, y, o, used.connects, cvrs)
  <2>1. CASE o = op[s] /\ y.cvr = syncer[s].cvr
    BY <1>1, <1>3, <2>1, PokingGone
  <2>2. CASE o = Idle
    <3>1. \A c \in Clients : hs[c].base \in {NoVersion} \cup DOMAIN cvrs /\ hs[c].ws <= used.connects
      BY <1>1, <1>3, <1>4, NoHandlerFacts
    <3> QED
      BY <1>3, <2>2, <3>1, PokingIdle
  <2> QED
    BY <2>1, <2>2
<1>6. \A c \in Clients : Seeing(client'[c], cvrs) /\ Observed(client[c], client'[c], cvrs)
  <2> TAKE c \in Clients
  <2>1. Seeing(client[c], cvrs)
    BY Parts
  <2>2. Cut(client[c], client'[c])
    BY DEF Failing
  <2> QED
    BY <2>1, <2>2, CutSees
<1>7. client' \in [Clients -> Client]
  BY DEF Failing
<1> QED
  BY <1>1, <1>2, <1>5, <1>6, <1>7, OneStep

LEMMA CutAlready ==
    ASSUME NEW cl \in Client
    PROVE  Cut(cl, cl)
BY DEF Cut

LEMMA StopFails ==
    ASSUME IInv, NEW s \in Syncers, client' = HungUp(s), handler' = [handler EXCEPT ![s] = NoHandlers]
    PROVE  Failing(s)
<1>1. /\ HungUp(s) \in [Clients -> Client]
      /\ \A c \in Clients : Cut(client[c], HungUp(s)[c])
  BY HungUpCuts, Parts
<1> QED
  BY <1>1, NoHandlerFacts DEF Failing

LEMMA ClientFailsFacts ==
    ASSUME IInv, NEW s \in Syncers, NEW c \in Clients, NEW lost \in BOOLEAN, ClientFails(s, c, lost)
    PROVE  Failing(s)
<1>1. /\ handler' = [handler EXCEPT ![s][c] = NoHandler]
      /\ client' = IF ~Connected(s, c) THEN client
                   ELSE [client EXCEPT ![c] = [Off(@) EXCEPT !.lost = lost]]
  BY DEF ClientFails
<1>2. PICK hs : hs = [handler[s] EXCEPT ![c] = NoHandler]
  OBVIOUS
<1>3. /\ handler' = [handler EXCEPT ![s] = hs]
      /\ hs \in [Clients -> Handler] /\ \A d \in Clients : hs[d] = handler[s][d] \/ hs[d] = NoHandler
  BY <1>1, <1>2, Unmoved, NoHandlerFacts
<1>4. client \in [Clients -> Client]
  BY Unmoved
<1>5. PICK cl : cl = [Off(client[c]) EXCEPT !.lost = lost]
  OBVIOUS
<1>6. cl \in Client /\ (~client[c].lost => Cut(client[c], cl))
  <2>1. cl = [[client[c] EXCEPT !.on = FALSE, !.receiving = FALSE] EXCEPT !.lost = lost]
    BY <1>5 DEF Off
  <2>2. cl = [client[c] EXCEPT !.on = FALSE, !.receiving = FALSE, !.lost = lost]
    BY <1>4, <2>1 DEF Client
  <2> QED
    BY <1>4, <2>2 DEF Client, Cut
<1>7. CASE ~Connected(s, c)
  BY <1>1, <1>3, <1>4, <1>7, CutAlready DEF Failing
<1>8. CASE Connected(s, c)
  <2>1. ~client[c].lost
    BY <1>8, Parts DEF Connected, Seeing
  <2>2. client' = [client EXCEPT ![c] = cl]
    BY <1>1, <1>4, <1>5, <1>8
  <2>3. client' \in [Clients -> Client]
    BY <1>4, <1>6, <2>2
  <2>4. \A d \in Clients : Cut(client[d], client'[d])
    BY <1>4, <1>6, <2>1, <2>2, CutAlready
  <2> QED
    BY <1>3, <2>3, <2>4 DEF Failing
<1> QED
  BY <1>7, <1>8

LEMMA RunFailsFacts ==
    ASSUME IInv, NEW s \in Syncers, NEW lost \in BOOLEAN, RunFails(s, lost)
    PROVE  Failing(s)
<1>1. /\ handler' = [handler EXCEPT ![s] = NoHandlers]
      /\ client' = [c \in Clients |-> [HungUp(s)[c] EXCEPT !.lost = @ \/ (lost /\ Connected(s, c))]]
  BY DEF RunFails
<1>2. ASSUME NEW c \in Clients
      PROVE  client'[c] \in Client /\ Cut(client[c], client'[c])
  <2>1. HungUp(s)[c] \in Client /\ Cut(client[c], HungUp(s)[c]) /\ HungUp(s)[c].lost = client[c].lost
    BY HungUpCuts, Parts
  <2>2. HungUp(s)[c] = IF Connected(s, c) THEN [client[c] EXCEPT !.on = FALSE, !.receiving = FALSE]
                       ELSE client[c]
    BY DEF HungUp, Off
  <2>3. PICK l : l = (HungUp(s)[c].lost \/ (lost /\ Connected(s, c)))
    OBVIOUS
  <2>4. client'[c] = [HungUp(s)[c] EXCEPT !.lost = l]
    BY <1>1, <2>3
  <2>5. l \in BOOLEAN /\ client[c] \in Client
    BY <2>1, <2>3, Parts DEF Client
  <2>6. CASE Connected(s, c)
    <3>1. HungUp(s)[c].on = FALSE
      BY <2>2, <2>5, <2>6 DEF Client
    <3>2. ~client[c].lost
      BY <2>6, Parts DEF Connected, Seeing
    <3> QED
      BY <2>1, <2>4, <2>5, <3>1, <3>2 DEF Client, Cut
  <2>7. CASE ~Connected(s, c)
    <3>1. l = client[c].lost
      BY <2>1, <2>3, <2>5, <2>7 DEF Client
    <3> QED
      BY <2>1, <2>4, <2>5, <3>1 DEF Client, Cut
  <2> QED
    BY <2>6, <2>7
<1>3. client' \in [Clients -> Client]
  <2>1. client' = [c \in Clients |-> client'[c]]
    BY <1>1
  <2> QED
    BY <1>2, <2>1
<1> QED
  BY <1>1, <1>2, <1>3, NoHandlerFacts DEF Failing

LEMMA OperationFailsStep ==
    ASSUME IInv, NEW s \in Syncers, NEW cache \in {None} \cup [Rows -> Rec], OperationFails(s, cache),
           UNCHANGED <<log, cvrs, db, pending, wants, used>>
    PROVE  IInv' /\ Kept
<1> DEFINE o == op[s]
           me == [syncer[s] EXCEPT !.cvr = NoVersion, !.cache = cache]
           mine == handler[s][o.c].ws = o.ws
<1>1. syncer[s] \in Syncing /\ Going(syncer[s], op[s], pending[s], db, cvrs, log)
  BY Parts
<1>2. /\ me \in Syncing /\ me.cvr = NoVersion /\ me.pv = syncer[s].pv /\ me.state = syncer[s].state
      /\ me.state = "crashed" => (IF me.state = "up" THEN "stopped" ELSE me.state) = "crashed"
  BY <1>1 DEF Syncing, Cookie
<1>3. /\ op' = [op EXCEPT ![s] = Idle]
      /\ IF o.run
         THEN RunFails(s, FALSE) /\ syncer' = [syncer EXCEPT ![s] = [me EXCEPT !.state =
                                        IF @ = "up" THEN "stopped" ELSE @]]
         ELSE /\ syncer' = [syncer EXCEPT ![s] = me]
              /\ handler' = IF mine THEN [handler EXCEPT ![s][o.c] = NoHandler] ELSE handler
              /\ client' = [c \in Clients |->
                    IF c = o.c /\ mine /\ Connected(s, c) THEN Off(client[c])
                    ELSE IF c \in Served(s, o) /\ Started(handler[s][c], o)
                    THEN Dangling(s, c) ELSE client[c]]
  BY DEF OperationFails
<1>4. /\ Committed(cvrs, db.version, log) /\ used \in [connects : Nat, events : Nat]
      /\ syncer[s].pv <= Len(log)
  BY <1>1, Unmoved, Parts DEF Coherent, Going, Working
<1>5. CASE o.run
  <2>1. Failing(s)
    BY <1>3, <1>5, RunFailsFacts
  <2>2. PICK y : y = [me EXCEPT !.state = IF @ = "up" THEN "stopped" ELSE @]
    OBVIOUS
  <2>3. /\ y \in Syncing /\ y.cvr = NoVersion /\ y.pv = syncer[s].pv
        /\ syncer[s].state = "crashed" => y.state = "crashed"
    <3> HIDE DEF me
    <3> QED
      BY <1>2, <2>2 DEF Syncing
  <2>4. Going(y, Idle, pending[s], db, cvrs, log)
    BY <1>4, <2>3, GoingNowhere
  <2>5. syncer' = [syncer EXCEPT ![s] = y]
    BY <1>3, <1>5, <2>2
  <2> QED
    BY <1>3, <1>4, <2>1, <2>3, <2>4, <2>5, FailStep
<1>6. CASE ~o.run
  <2>1. Failing(s)
    <3>1. \E hs \in [Clients -> Handler] :
             /\ handler' = [handler EXCEPT ![s] = hs]
             /\ \A c \in Clients : hs[c] = handler[s][c] \/ hs[c] = NoHandler
      <4>1. CASE handler' = handler
        BY <4>1, Unmoved
      <4>2. CASE handler' = [handler EXCEPT ![s][o.c] = NoHandler]
        <5>1. PICK hs : hs = [handler[s] EXCEPT ![o.c] = NoHandler]
          OBVIOUS
        <5>2. handler' = [handler EXCEPT ![s] = hs]
          BY <4>2, <5>1, Unmoved
        <5>3. hs \in [Clients -> Handler] /\ \A d \in Clients : hs[d] = handler[s][d] \/ hs[d] = NoHandler
          BY <5>1, Unmoved, NoHandlerFacts
        <5> QED
          BY <5>2, <5>3
      <4> QED
        BY <1>3, <1>6, <4>1, <4>2
    <3>2. ASSUME NEW c \in Clients
          PROVE  client'[c] \in Client /\ Cut(client[c], client'[c])
      <4>1. client[c] \in Client
        BY Parts
      <4>2. \/ client'[c] = Off(client[c])
            \/ client'[c] = Dangling(s, c)
            \/ client'[c] = client[c]
        BY <1>3, <1>6
      <4>3. CASE client'[c] = Off(client[c])
        BY <4>1, <4>3 DEF Off, Client, Cut
      <4>4. CASE client'[c] = Dangling(s, c)
        <5>1. PICK receiving : receiving = (Connected(s, c) \/ client[c].receiving)
          OBVIOUS
        <5>2. receiving \in BOOLEAN
          BY <4>1, <5>1 DEF Client
        <5>3. client'[c] = [client[c] EXCEPT !.receiving = receiving]
          BY <4>4, <5>1 DEF Dangling
        <5> QED
          BY <4>1, <5>2, <5>3 DEF Client, Cut
      <4>5. CASE client'[c] = client[c]
        BY <4>1, <4>5, CutAlready
      <4> QED
        BY <4>2, <4>3, <4>4, <4>5
    <3>3. client' \in [Clients -> Client]
      <4>1. client' = [c \in Clients |-> client'[c]]
        BY <1>3, <1>6
      <4> QED
        BY <3>2, <4>1
    <3> QED
      BY <3>1, <3>2, <3>3 DEF Failing
  <2>2. Going(me, Idle, pending[s], db, cvrs, log)
    <3> HIDE DEF me
    <3> QED
      BY <1>2, <1>4, GoingNowhere
  <2>3. syncer' = [syncer EXCEPT ![s] = me]
    BY <1>3, <1>6
  <2> HIDE DEF me
  <2> QED
    BY <1>2, <1>3, <1>4, <2>1, <2>2, <2>3, FailStep
<1> QED
  BY <1>5, <1>6

LEMMA FlushFailsStep ==
    ASSUME IInv, NEW s \in Syncers, FlushFails(s)
    PROVE  IInv' /\ Kept
<1>1. OperationFails(s, None) /\ UNCHANGED <<log, cvrs, db, pending, wants, used>>
  BY DEF FlushFails
<1> QED
  BY <1>1, OperationFailsStep

LEMMA CatchupFailsStep ==
    ASSUME IInv, NEW s \in Syncers, CatchupFails(s)
    PROVE  IInv' /\ Kept
<1>1. OperationFails(s, syncer[s].cache) /\ UNCHANGED <<log, cvrs, db, pending, wants, used>>
  BY DEF CatchupFails
<1>2. syncer[s].cache \in {None} \cup [Rows -> Rec]
  BY Parts DEF Syncing
<1> QED
  BY <1>1, <1>2, OperationFailsStep


LEMMA StopStep ==
    ASSUME IInv, NEW s \in Syncers, Stop(s)
    PROVE  IInv' /\ Kept
<1>1. /\ UNCHANGED <<log, cvrs, db, pending, op, wants>>
      /\ used' = [used EXCEPT !.events = @ + 1]
      /\ syncer' = [syncer EXCEPT ![s].state = "stopped"] /\ syncer[s].state = "up"
      /\ client' = HungUp(s) /\ handler' = [handler EXCEPT ![s] = NoHandlers]
  BY DEF Stop
<1>2. Failing(s)
  BY <1>1, StopFails
<1>3. used' \in [connects : Nat, events : Nat] /\ used'.connects = used.connects
  BY <1>1, ConnectsTyped
<1>4. PICK y : y = [syncer[s] EXCEPT !.state = "stopped"]
  OBVIOUS
<1>5. syncer[s] \in Syncing /\ Going(syncer[s], op[s], pending[s], db, cvrs, log)
  BY Parts
<1>6. /\ y \in Syncing /\ y.cvr = syncer[s].cvr /\ y.cache = syncer[s].cache /\ y.pv = syncer[s].pv
      /\ y.synced = syncer[s].synced /\ y.hydrated = syncer[s].hydrated
  BY <1>4, <1>5 DEF Syncing
<1>7. Going(y, op[s], pending[s], db, cvrs, log)
  BY <1>5, <1>6, GoingSame
<1>8. syncer' = [syncer EXCEPT ![s] = y]
  BY <1>1, <1>4, Unmoved
<1>9. op' = [op EXCEPT ![s] = op[s]]
  BY <1>1, Unmoved
<1> QED
  BY <1>1, <1>2, <1>3, <1>6, <1>7, <1>8, <1>9, FailStep

\* The syncer whose process dies takes with it what it had to flush.
LEMMA CrashStep ==
    ASSUME IInv, NEW s \in Syncers, Crash(s)
    PROVE  IInv' /\ Kept
<1>1. /\ UNCHANGED <<log, cvrs, db, wants>>
      /\ used' = [used EXCEPT !.events = @ + 1]
      /\ syncer' = [syncer EXCEPT ![s] = [Fresh EXCEPT !.state = "crashed"]]
      /\ client' = HungUp(s) /\ handler' = [handler EXCEPT ![s] = NoHandlers]
      /\ pending' = [pending EXCEPT ![s] = NotPending] /\ op' = [op EXCEPT ![s] = Idle]
  BY DEF Crash
<1>2. Failing(s)
  BY <1>1, StopFails
<1>3. used' \in [connects : Nat, events : Nat] /\ used'.connects = used.connects
  BY <1>1, ConnectsTyped
<1>4. PICK y : y = [Fresh EXCEPT !.state = "crashed"]
  OBVIOUS
<1>5. /\ y \in Syncing /\ y.cvr = NoVersion /\ y.pv = 0 /\ y.state = "crashed"
  BY <1>4 DEF Fresh, Syncing, Cookie
<1>6. /\ Kinds /\ Coherent /\ Committed(cvrs, db.version, log) /\ Stored(db, cvrs, pending)
      /\ pending = [t \in Syncers |-> pending[t]] /\ op = [t \in Syncers |-> op[t]]
      /\ Len(log) \in Nat
  BY DEF IInv, Coherent, Kinds, Logged
<1>7. syncer' = [syncer EXCEPT ![s] = y]
  BY <1>1, <1>4
<1>8. /\ pending' = [t \in Syncers |-> pending'[t]] /\ op' = [t \in Syncers |-> op'[t]]
      /\ pending'[s] = NotPending /\ op'[s] = Idle /\ syncer'[s] = y
      /\ \A t \in Syncers \ {s} : /\ pending'[t] = pending[t] /\ op'[t] = op[t]
                                  /\ syncer'[t] = syncer[t]
      /\ syncer' \in [Syncers -> Syncing]
  BY <1>1, <1>5, <1>6, <1>7 DEF Kinds
<1>9. \A t \in Syncers : DOMAIN op'[t] = DOMAIN Idle
  BY <1>8, Parts
<1>10. PICK hs \in [Clients -> Handler] :
          /\ handler' = [handler EXCEPT ![s] = hs]
          /\ \A c \in Clients : hs[c] = handler[s][c] \/ hs[c] = NoHandler
  BY <1>2 DEF Failing
<1>11. /\ handler' \in [Syncers -> [Clients -> Handler]] /\ handler'[s] = hs
       /\ \A t \in Syncers \ {s} : handler'[t] = handler[t]
  BY <1>6, <1>10 DEF Kinds
<1>12. client' \in [Clients -> Client]
  BY <1>2 DEF Failing
<1>13. Kinds'
  BY <1>1, <1>3, <1>6, <1>8, <1>9, <1>11, <1>12 DEF Kinds
<1>14. Coherent'
  <2>1. ~Holds(NotPending)
    BY DEF Holds, NotPending
  <2>2. Stored(db, cvrs, pending')
    BY <1>6, <1>8, <2>1 DEF Stored
  <2>3. Lagging(db', pending', syncer')
    BY <1>5, <1>8 DEF Lagging
  <2> QED
    BY <1>1, <1>6, <2>2, <2>3 DEF Coherent
<1>15. ASSUME NEW t \in Syncers
       PROVE  /\ Going(syncer'[t], op'[t], pending'[t], db, cvrs, log)
              /\ Poking(handler'[t], syncer'[t], op'[t], used'.connects, cvrs)
  <2>1. CASE t = s
    <3>1. Going(y, Idle, NotPending, db, cvrs, log)
      BY <1>5, <1>6, GoingNowhere
    <3>2. \A c \in Clients : hs[c].base \in {NoVersion} \cup DOMAIN cvrs /\ hs[c].ws <= used.connects
      BY <1>10, Unmoved, ConnectsTyped, NoHandlerFacts
    <3>3. Poking(hs, y, Idle, used.connects, cvrs)
      BY <3>2, ConnectsTyped, PokingIdle
    <3> QED
      BY <1>3, <1>8, <1>11, <2>1, <3>1, <3>3
  <2>2. CASE t # s
    BY <1>3, <1>8, <1>11, <2>2, Parts
  <2> QED
    BY <2>1, <2>2
<1>16. \A c \in Clients : Seeing(client'[c], cvrs) /\ Observed(client[c], client'[c], cvrs)
  <2> TAKE c \in Clients
  <2>1. Seeing(client[c], cvrs)
    BY Parts
  <2>2. Cut(client[c], client'[c])
    BY <1>2 DEF Failing
  <2> QED
    BY <2>1, <2>2, CutSees
<1> QED
  BY <1>1, <1>13, <1>14, <1>15, <1>16 DEF IInv, Kept

LEMMA ClaimStep ==
    ASSUME IInv, NEW s \in Syncers, Claim(s)
    PROVE  IInv' /\ Kept
<1>1. /\ UNCHANGED <<log, cvrs, pending, handler, op, client, wants, used>>
      /\ syncer' = [syncer EXCEPT ![s].claim = 0]
      /\ db' = IF db.grantedAt <= syncer[s].claim
               THEN [db EXCEPT !.owner = TaskOf[s], !.grantedAt = syncer[s].claim] ELSE db
  BY DEF Claim
<1>2. /\ Kinds /\ Coherent /\ db \in Database /\ syncer \in [Syncers -> Syncing]
      /\ syncer[s].claim \in Nat
  BY DEF IInv, Kinds, Syncing
<1>3. /\ db' \in Database /\ db'.version = db.version /\ db'.rows = db.rows
      /\ db'.rowsVersion = db.rowsVersion
  <2>1. CASE db' = db
    BY <1>2, <2>1
  <2>2. CASE db' = [db EXCEPT !.owner = TaskOf[s], !.grantedAt = syncer[s].claim]
    BY <1>2, <2>2 DEF Database
  <2> QED
    BY <1>1, <2>1, <2>2
<1>4. /\ syncer' \in [Syncers -> Syncing]
      /\ \A t \in Syncers : /\ syncer'[t].cvr = syncer[t].cvr /\ syncer'[t].cache = syncer[t].cache
                            /\ syncer'[t].pv = syncer[t].pv /\ syncer'[t].synced = syncer[t].synced
                            /\ syncer'[t].hydrated = syncer[t].hydrated
                            /\ syncer'[t].state = syncer[t].state
  <2>1. /\ syncer'[s] = [syncer[s] EXCEPT !.claim = 0]
        /\ \A t \in Syncers \ {s} : syncer'[t] = syncer[t]
        /\ syncer' = [t \in Syncers |-> syncer'[t]]
    BY <1>1, <1>2
  <2>2. /\ syncer'[s] \in Syncing
        /\ syncer'[s].cvr = syncer[s].cvr /\ syncer'[s].cache = syncer[s].cache
        /\ syncer'[s].pv = syncer[s].pv /\ syncer'[s].synced = syncer[s].synced
        /\ syncer'[s].hydrated = syncer[s].hydrated /\ syncer'[s].state = syncer[s].state
    BY <1>2, <2>1 DEF Syncing
  <2>3. \A t \in Syncers : syncer'[t] \in Syncing
    BY <1>2, <2>1, <2>2
  <2> QED
    BY <2>1, <2>2, <2>3
<1>5. Kinds'
  BY <1>1, <1>2, <1>3, <1>4 DEF Kinds
<1>6. Coherent'
  <2>1. Committed(cvrs, db'.version, log) /\ Stored(db', cvrs, pending)
    BY <1>2, <1>3 DEF Coherent, Stored
  <2>2. Lagging(db', pending, syncer')
    BY <1>2, <1>3, <1>4 DEF Coherent, Lagging
  <2> QED
    BY <1>1, <2>1, <2>2 DEF Coherent
<1>7. ASSUME NEW t \in Syncers
      PROVE  /\ Going(syncer'[t], op'[t], pending'[t], db', cvrs', log')
             /\ Poking(handler'[t], syncer'[t], op'[t], used'.connects, cvrs')
  <2>1. /\ Going(syncer[t], op[t], pending[t], db, cvrs, log)
        /\ Poking(handler[t], syncer[t], op[t], used.connects, cvrs)
    BY Parts
  <2>2. PICK y : y = syncer'[t]
    OBVIOUS
  <2>3. PICK e : e = db'
    OBVIOUS
  <2>4. /\ y.cvr = syncer[t].cvr /\ y.cache = syncer[t].cache /\ y.pv = syncer[t].pv
        /\ y.synced = syncer[t].synced /\ y.hydrated = syncer[t].hydrated
        /\ e.version = db.version /\ e.rows = db.rows /\ e.rowsVersion = db.rowsVersion
    BY <1>3, <1>4, <2>2, <2>3
  <2>5. Going(y, op[t], pending[t], e, cvrs, log)
    BY <2>1, <2>4, GoingSame
  <2>6. Poking(handler[t], y, op[t], used.connects, cvrs)
    BY <2>1, <2>4, PokingAlike
  <2> QED
    BY <1>1, <2>2, <2>3, <2>5, <2>6
<1>8. Kept
  BY <1>1 DEF Kept, Observed
<1> QED
  BY <1>1, <1>5, <1>6, <1>7, <1>8 DEF IInv

LEMMA ClaimingFacts ==
    ASSUME IInv, NEW s \in Syncers
    PROVE  LET y == Claiming(s) IN
           /\ y \in Syncing /\ y.cvr = syncer[s].cvr /\ y.cache = syncer[s].cache
           /\ y.pv = syncer[s].pv /\ y.hydrated = syncer[s].hydrated
           /\ y.synced = syncer[s].synced /\ y.state = syncer[s].state
<1>1. syncer[s] \in Syncing
  BY Parts
<1>2. \/ Claiming(s) = syncer[s]
      \/ Claiming(s) = [syncer[s] EXCEPT !.claim = syncer[s].lct]
  BY DEF Claiming
<1> QED
  BY <1>1, <1>2 DEF Syncing

LEMMA LoadedFacts ==
    ASSUME IInv, ~Survivors, NEW s \in Syncers, Free(s), Loads(s), NEW me, me = Loaded(s)
    PROVE  /\ me \in Syncing /\ me.cvr \in DOMAIN cvrs /\ me.cvr # NoVersion
           /\ me.cache = syncer[s].cache /\ me.pv = syncer[s].pv /\ me.hydrated = syncer[s].hydrated
           /\ me.synced = syncer[s].synced /\ me.state = "up"
           /\ op[s] = Idle
           /\ Going(me, Idle, pending[s], db, cvrs, log)
<1>1. /\ syncer[s] \in Syncing /\ Going(syncer[s], op[s], pending[s], db, cvrs, log)
      /\ Committed(cvrs, db.version, log) /\ db.version \in DOMAIN cvrs
      /\ op[s] = Idle /\ syncer[s].state = "up" /\ ~Stranded(s)
  BY Parts DEF Free, Coherent, Committed
<1>2. db.version \in Cookie /\ db.version # NoVersion
  BY <1>1, CommittedFacts
<1>3. CASE HasCvr(s)
  <2>1. me = syncer[s]
    BY <1>3 DEF Loaded
  <2>2. me.cvr \in DOMAIN cvrs /\ me.cvr # NoVersion
    BY <1>1, <1>3, <2>1 DEF HasCvr, Going, Working
  <2> QED
    BY <1>1, <2>1, <2>2
<1>4. CASE ~HasCvr(s)
  <2>1. me = [Claiming(s) EXCEPT !.cvr = db.version]
    BY <1>4 DEF Loaded
  <2>2. PICK y : y = Claiming(s)
    OBVIOUS
  <2>3. /\ y \in Syncing /\ y.cache = syncer[s].cache
        /\ y.pv = syncer[s].pv /\ y.hydrated = syncer[s].hydrated
        /\ y.synced = syncer[s].synced /\ y.state = syncer[s].state
    BY <2>2, ClaimingFacts
  <2>4. /\ me \in Syncing /\ me.cvr = db.version /\ me.cache = syncer[s].cache
        /\ me.pv = syncer[s].pv /\ me.hydrated = syncer[s].hydrated
        /\ me.synced = syncer[s].synced /\ me.state = syncer[s].state
    BY <1>2, <2>1, <2>2, <2>3 DEF Syncing
  <2>5. ~me.synced /\ me.cache = None /\ db.rowsVersion = db.version
    BY <1>1, <1>4, <2>4 DEF Stranded, HasCvr, Loads
  <2>6. Working(me, Idle, cvrs, log)
    BY <1>1, <2>4, <2>5, IdleFacts DEF Going, Working
  <2>7. Current(me, Idle, pending[s], db, cvrs, log)
    BY <2>5, IdleFacts DEF Current
  <2> QED
    BY <1>1, <1>2, <2>4, <2>6, <2>7 DEF Going
<1> QED
  BY <1>3, <1>4

LEMMA RetryLoadStep ==
    ASSUME IInv, NEW s \in Syncers, RetryLoad(s)
    PROVE  IInv' /\ Kept
<1>1. /\ UNCHANGED <<log, cvrs, db, pending, handler, op, client, wants, used>>
      /\ syncer' = [syncer EXCEPT ![s] = Claiming(s)]
  BY DEF RetryLoad
<1>2. PICK y : y = Claiming(s)
  OBVIOUS
<1>3. /\ y \in Syncing /\ y.cvr = syncer[s].cvr /\ y.cache = syncer[s].cache
      /\ y.pv = syncer[s].pv /\ y.hydrated = syncer[s].hydrated
      /\ y.synced = syncer[s].synced /\ y.state = syncer[s].state
  BY <1>2, ClaimingFacts
<1>4. /\ Going(syncer[s], op[s], pending[s], db, cvrs, log) /\ DOMAIN op[s] = DOMAIN Idle
      /\ Poking(handler[s], syncer[s], op[s], used.connects, cvrs)
  BY Parts
<1>5. Going(y, op[s], pending[s], db, cvrs, log)
  BY <1>3, <1>4, GoingSame
<1>6. Poking(handler[s], y, op[s], used.connects, cvrs)
  BY <1>3, <1>4, PokingAlike
<1>7. /\ op = [op EXCEPT ![s] = op[s]] /\ handler = [handler EXCEPT ![s] = handler[s]]
      /\ handler[s] \in [Clients -> Handler] /\ used \in [connects : Nat, events : Nat]
      /\ client \in [Clients -> Client]
      /\ \A c \in Clients : Seeing(client[c], cvrs) /\ Observed(client[c], client[c], cvrs)
  BY Unmoved
<1> QED
  BY <1>1, <1>2, <1>3, <1>4, <1>5, <1>6, <1>7, OneStep

LEMMA LoadFailsStep ==
    ASSUME IInv, NEW s \in Syncers, LoadFails(s)
    PROVE  IInv' /\ Kept
<1>1. UNCHANGED <<log, cvrs, db, pending, op, wants, used>>
  BY DEF LoadFails
<1>2. /\ Going(syncer[s], op[s], pending[s], db, cvrs, log) /\ syncer[s] \in Syncing
      /\ used \in [connects : Nat, events : Nat]
  BY Parts, Unmoved
<1>3. PICK lost : lost = (~Deposed(s))
  OBVIOUS
<1>4. lost \in BOOLEAN
  BY <1>3
<1>5. CASE \E c \in Clients : Called(s, c) /\ ClientFails(s, c, ~Deposed(s)) /\ UNCHANGED syncer
  <2>1. Failing(s)
    BY <1>3, <1>4, <1>5, ClientFailsFacts
  <2>2. syncer' = [syncer EXCEPT ![s] = syncer[s]] /\ op' = [op EXCEPT ![s] = op[s]]
    BY <1>1, <1>5, Unmoved
  <2> QED
    BY <1>1, <1>2, <2>1, <2>2, FailStep
<1>6. CASE Woken(s) /\ RunFails(s, ~Deposed(s)) /\ syncer' = [syncer EXCEPT ![s].state = "stopped"]
  <2>1. Failing(s)
    BY <1>3, <1>4, <1>6, RunFailsFacts
  <2>2. PICK y : y = [syncer[s] EXCEPT !.state = "stopped"]
    OBVIOUS
  <2>3. /\ y \in Syncing /\ y.cvr = syncer[s].cvr /\ y.cache = syncer[s].cache /\ y.pv = syncer[s].pv
        /\ y.synced = syncer[s].synced /\ y.hydrated = syncer[s].hydrated
    BY <1>2, <2>2 DEF Syncing
  <2>4. Going(y, op[s], pending[s], db, cvrs, log)
    BY <1>2, <2>3, GoingSame
  <2>5. syncer' = [syncer EXCEPT ![s] = y] /\ op' = [op EXCEPT ![s] = op[s]]
    BY <1>1, <1>6, <2>2, Unmoved
  <2>6. syncer[s].state # "crashed"
    BY <1>6 DEF Woken, Free
  <2> QED
    BY <1>1, <1>2, <2>1, <2>3, <2>4, <2>5, <2>6, FailStep
<1> QED
  BY <1>5, <1>6 DEF LoadFails

LEMMA RefuseStep ==
    ASSUME IInv, ~Survivors, NEW c \in Clients, NEW s \in Syncers, Refuse(s, c)
    PROVE  IInv' /\ Kept
<1>1. /\ UNCHANGED <<log, cvrs, db, pending, op, wants, used>>
      /\ Free(s) /\ Loads(s) /\ ClientFails(s, c, TRUE)
      /\ syncer' = [syncer EXCEPT ![s] = [Loaded(s) EXCEPT !.cvr = NoVersion]]
  BY DEF Refuse, Called
<1>2. Failing(s)
  BY <1>1, ClientFailsFacts
<1>3. PICK me : me = Loaded(s)
  OBVIOUS
<1>4. PICK y : y = [me EXCEPT !.cvr = NoVersion]
  OBVIOUS
<1>5. me \in Syncing /\ me.pv = syncer[s].pv /\ op[s] = Idle
  BY <1>1, <1>3, LoadedFacts
<1>6. y \in Syncing /\ y.cvr = NoVersion /\ y.pv = syncer[s].pv
  BY <1>4, <1>5 DEF Syncing, Cookie
<1>7. Committed(cvrs, db.version, log) /\ syncer[s].pv <= Len(log)
  BY Parts DEF Coherent, Going, Working
<1>8. Going(y, Idle, pending[s], db, cvrs, log)
  BY <1>6, <1>7, GoingNowhere
<1>9. syncer[s].state # "crashed" /\ used \in [connects : Nat, events : Nat]
  BY <1>1, Unmoved DEF Free
<1>10. syncer' = [syncer EXCEPT ![s] = y] /\ op' = [op EXCEPT ![s] = Idle]
  BY <1>1, <1>3, <1>4, <1>5, Unmoved
<1> QED
  BY <1>1, <1>2, <1>6, <1>8, <1>9, <1>10, FailStep
=============================================================================
