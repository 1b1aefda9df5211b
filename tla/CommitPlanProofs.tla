--------------------------- MODULE CommitPlanProofs ---------------------------
(***************************************************************************)
(* What CommitPlan promises, proved for every value of the constants: the  *)
(* server accepts the drive of changes that agree with each other, and     *)
(* what it commits is the tree that was asked for.  Supposed throughout    *)
(* the walk is NoNeighbours: no change is about what lies inside a name    *)
(* while another one is about that name continued by a byte below `/'.     *)
(* The tasks can be in the wrong order then, as a run of MCCommitPlan      *)
(* shows.                                                                  *)
(***************************************************************************)
EXTENDS CommitPlan, TLAPS, FiniteSetTheorems, FunctionTheorems, SequenceTheorems,
        WellFoundedInduction

-----------------------------------------------------------------------------
(* Paths as sequences.                                                     *)

\* p is d, or lies below it.
AtOrIn(p, d) == p = d \/ Inside(p, d)

LEMMA Cut ==
    ASSUME NEW S, NEW p \in Seq(S), NEW n \in 0 .. Len(p)
    PROVE  /\ SubSeq(p, 1, n) \in Seq(S)
           /\ Len(SubSeq(p, 1, n)) = n
           /\ DOMAIN SubSeq(p, 1, n) = 1 .. n
           /\ \A j \in 1 .. n : SubSeq(p, 1, n)[j] = p[j]
           /\ n = Len(p) => SubSeq(p, 1, n) = p
  OBVIOUS

\* Two sequences that agree at every index are equal.
LEMMA SameSeq ==
    ASSUME NEW S, NEW p \in Seq(S), NEW q \in Seq(S), Len(p) = Len(q),
           \A j \in 1 .. Len(p) : p[j] = q[j]
    PROVE  p = q
  OBVIOUS

LEMMA SameStart ==
    ASSUME NEW S, NEW p \in Seq(S), NEW q \in Seq(S), NEW n \in Nat,
           n <= Len(p), n <= Len(q)
    PROVE  SubSeq(p, 1, n) = SubSeq(q, 1, n) <=> \A j \in 1 .. n : p[j] = q[j]
  <1>1. /\ SubSeq(p, 1, n) \in Seq(S) /\ Len(SubSeq(p, 1, n)) = n
        /\ \A j \in 1 .. n : SubSeq(p, 1, n)[j] = p[j]
    BY Cut
  <1>2. /\ SubSeq(q, 1, n) \in Seq(S) /\ Len(SubSeq(q, 1, n)) = n
        /\ \A j \in 1 .. n : SubSeq(q, 1, n)[j] = q[j]
    BY Cut
  <1>3. ASSUME \A j \in 1 .. n : p[j] = q[j] PROVE SubSeq(p, 1, n) = SubSeq(q, 1, n)
    BY <1>1, <1>2, <1>3, SameSeq
  <1> QED BY <1>1, <1>2, <1>3

LEMMA InsideMeans ==
    ASSUME NEW S, NEW p \in Seq(S), NEW d \in Seq(S)
    PROVE  /\ Inside(p, d)
              <=> Len(p) > Len(d) /\ \A j \in 1 .. Len(d) : p[j] = d[j]
           /\ AtOrIn(p, d)
              <=> Len(p) >= Len(d) /\ \A j \in 1 .. Len(d) : p[j] = d[j]
  <1>1. SubSeq(d, 1, Len(d)) = d
    OBVIOUS
  <1>2. Inside(p, d) <=> Len(p) > Len(d) /\ \A j \in 1 .. Len(d) : p[j] = d[j]
    <2>1. Inside(p, d) <=> Len(p) > Len(d) /\ SubSeq(p, 1, Len(d)) = SubSeq(d, 1, Len(d))
      BY <1>1 DEF Inside
    <2>2. Len(d) \in Nat /\ Len(p) \in Nat
      OBVIOUS
    <2>3. ASSUME Len(p) > Len(d)
          PROVE  SubSeq(p, 1, Len(d)) = SubSeq(d, 1, Len(d)) <=> \A j \in 1 .. Len(d) : p[j] = d[j]
      BY <2>2, <2>3, SameStart
    <2> QED BY <2>1, <2>3
  <1>3. ASSUME Len(p) = Len(d), \A j \in 1 .. Len(d) : p[j] = d[j] PROVE p = d
    BY <1>3, SameSeq
  <1> QED BY <1>2, <1>3 DEF AtOrIn

LEMMA InsideTransitive ==
    ASSUME NEW S, NEW p \in Seq(S), NEW d \in Seq(S), NEW e \in Seq(S)
    PROVE  /\ AtOrIn(p, d) /\ Inside(d, e) => Inside(p, e)
           /\ Inside(p, d) /\ AtOrIn(d, e) => Inside(p, e)
           /\ AtOrIn(p, d) /\ AtOrIn(d, e) => AtOrIn(p, e)
           /\ AtOrIn(p, d) /\ AtOrIn(p, e) => AtOrIn(d, e) \/ Inside(e, d)
           /\ ~Inside(p, p)
           /\ ~(AtOrIn(p, d) /\ Inside(d, p))
  BY InsideMeans

-----------------------------------------------------------------------------
(* The paths of the model.                                                 *)

LEMMA PathIsSeq ==
    ASSUME NEW p
    PROVE  /\ p \in Paths <=> p \in Seq(Names) /\ Len(p) \in 1 .. Depth
           /\ p \in Paths \cup {Root} <=> p \in Seq(Names) /\ Len(p) \in 0 .. Depth
  <1>0. Depth \in Nat
    BY BoundAssumption
  <1>1. ASSUME p \in Paths PROVE p \in Seq(Names) /\ Len(p) \in 1 .. Depth
    <2>1. PICK d \in 1 .. Depth : p \in [1 .. d -> Names]
      BY <1>1 DEF Paths
    <2> QED BY <1>0, <2>1
  <1>2. ASSUME p \in Seq(Names), Len(p) \in 1 .. Depth PROVE p \in Paths
    <2>1. p \in [1 .. Len(p) -> Names]
      BY <1>2
    <2> QED BY <1>2, <2>1 DEF Paths
  <1>3. Root \in Seq(Names) /\ Len(Root) = 0
    BY DEF Root
  <1>4. ASSUME p \in Seq(Names), Len(p) = 0 PROVE p = Root
    BY <1>4 DEF Root
  <1>5. p \in Paths <=> p \in Seq(Names) /\ Len(p) \in 1 .. Depth
    BY <1>1, <1>2
  <1>6. p = Root <=> p \in Seq(Names) /\ Len(p) = 0
    BY <1>3, <1>4
  <1>7. p \in Seq(Names) => Len(p) \in Nat
    OBVIOUS
  <1>8. p \in Seq(Names) => (Len(p) \in 0 .. Depth <=> Len(p) = 0 \/ Len(p) \in 1 .. Depth)
    BY <1>0, <1>7
  <1> QED BY <1>5, <1>6, <1>8

LEMMA RootIs ==
    /\ Root \in Seq(Names) /\ Len(Root) = 0 /\ Root \notin Paths
    /\ \A p \in Seq(Names) : (Len(p) = 0 <=> p = Root) /\ AtOrIn(p, Root)
    /\ \A p \in Seq(Names) : ~Inside(Root, p)
  <1>1. Root \in Seq(Names) /\ Len(Root) = 0
    BY DEF Root
  <1>2. \A p \in Seq(Names) : Len(p) = 0 <=> p = Root
    BY DEF Root
  <1>3. Root \notin Paths
    BY <1>1, PathIsSeq
  <1>4. ASSUME NEW p \in Seq(Names) PROVE AtOrIn(p, Root) /\ ~Inside(Root, p)
    <2>1. Len(p) >= Len(Root) /\ \A j \in 1 .. Len(Root) : p[j] = Root[j]
      BY <1>1
    <2>2. AtOrIn(p, Root)
      BY <1>1, <2>1, InsideMeans
    <2>3. ~(Len(Root) > Len(p))
      BY <1>1
    <2> QED BY <1>1, <2>2, <2>3, InsideMeans
  <1> QED BY <1>1, <1>2, <1>3, <1>4

\* What lies above a path is a path.
LEMMA AboveIsPath ==
    ASSUME NEW p \in Paths \cup {Root}, NEW n \in 0 .. Len(p)
    PROVE  /\ SubSeq(p, 1, n) \in Paths \cup {Root}
           /\ n > 0 => SubSeq(p, 1, n) \in Paths
           /\ Len(SubSeq(p, 1, n)) = n
           /\ AtOrIn(p, SubSeq(p, 1, n))
  <1>1. p \in Seq(Names) /\ Len(p) <= Depth /\ Depth \in Nat
    BY PathIsSeq, BoundAssumption
  <1>2. /\ SubSeq(p, 1, n) \in Seq(Names) /\ Len(SubSeq(p, 1, n)) = n
        /\ \A j \in 1 .. n : SubSeq(p, 1, n)[j] = p[j]
    BY <1>1, Cut
  <1>3. n \in Nat /\ n <= Len(p) /\ n <= Depth
    BY <1>1
  <1>4. AtOrIn(p, SubSeq(p, 1, n))
    BY <1>1, <1>2, <1>3, InsideMeans
  <1>5. n > 0 => n \in 1 .. Depth
    BY <1>1, <1>3
  <1>6. n \in 0 .. Depth
    BY <1>1, <1>3
  <1> QED BY <1>2, <1>4, <1>5, <1>6, PathIsSeq

LEMMA ParentIs ==
    ASSUME NEW p \in Paths
    PROVE  /\ Parent(p) \in Paths \cup {Root} /\ Len(Parent(p)) = Len(p) - 1
           /\ Inside(p, Parent(p))
           /\ \A d \in Seq(Names) : AtOrIn(Parent(p), d) <=> Inside(p, d)
  <1>1. p \in Seq(Names) /\ Len(p) \in Nat \ {0}
    BY PathIsSeq
  <1>2. /\ Parent(p) \in Seq(Names) /\ Len(Parent(p)) = Len(p) - 1
        /\ \A j \in 1 .. Len(p) - 1 : Parent(p)[j] = p[j]
    <2>1. Len(p) - 1 \in 0 .. Len(p) /\ Len(p) - 1 \in Nat
      BY <1>1
    <2> QED BY <1>1, <2>1, Cut DEF Parent
  <1>3. Parent(p) \in Paths \cup {Root}
    BY <1>1, AboveIsPath DEF Parent
  <1> QED BY <1>1, <1>2, <1>3, InsideMeans

\* The directories from the top down to p.
LEMMA PrefixesAre ==
    ASSUME NEW p \in Paths \cup {Root}
    PROVE  /\ DirPrefixes(p) \in Seq(Paths) /\ Len(DirPrefixes(p)) = Len(p)
           /\ \A i \in 1 .. Len(p) : DirPrefixes(p)[i] = SubSeq(p, 1, i)
           /\ \A d : d \in Range(DirPrefixes(p)) <=> d \in Paths /\ AtOrIn(p, d)
  <1>1. p \in Seq(Names) /\ Len(p) \in Nat
    BY PathIsSeq
  <1>2. \A i \in 1 .. Len(p) : SubSeq(p, 1, i) \in Paths /\ AtOrIn(p, SubSeq(p, 1, i))
    BY <1>1, AboveIsPath
  <1>3. /\ DirPrefixes(p) \in Seq(Paths) /\ Len(DirPrefixes(p)) = Len(p)
        /\ DOMAIN DirPrefixes(p) = 1 .. Len(p)
        /\ \A i \in 1 .. Len(p) : DirPrefixes(p)[i] = SubSeq(p, 1, i)
    BY <1>1, <1>2 DEF DirPrefixes
  <1>4. ASSUME NEW d \in Paths, AtOrIn(p, d) PROVE d \in Range(DirPrefixes(p))
    <2>1. d \in Seq(Names) /\ Len(d) \in Nat \ {0}
      BY PathIsSeq
    <2>2. Len(p) >= Len(d) /\ \A j \in 1 .. Len(d) : p[j] = d[j]
      BY <1>1, <1>4, <2>1, InsideMeans
    <2>3. d = SubSeq(p, 1, Len(d))
      BY <1>1, <2>1, <2>2, SameStart
    <2>4. Len(d) \in 1 .. Len(p)
      BY <1>1, <2>1, <2>2
    <2>5. DirPrefixes(p)[Len(d)] = d
      BY <1>3, <2>3, <2>4
    <2> QED BY <1>3, <2>4, <2>5 DEF Range
  <1>5. ASSUME NEW d \in Range(DirPrefixes(p)) PROVE d \in Paths /\ AtOrIn(p, d)
    BY <1>2, <1>3 DEF Range
  <1> QED BY <1>3, <1>4, <1>5
-----------------------------------------------------------------------------
(* The order of the paths.                                                 *)

\* Every set of numbers has a least one.
LEMMA LeastNumber ==
    ASSUME NEW T, T \subseteq Nat, T # {}
    PROVE  \E n \in T : \A m \in T : n <= m
  <1>1. PICK n \in T : \A m \in T : ~(<<m, n>> \in OpToRel(<, Nat))
    BY WFMin, NatLessThanWellFounded
  <1>2. \A m \in T : ~(m < n)
    BY <1>1 DEF OpToRel
  <1> QED BY <1>2

\* The byte order of paths no two of which are a stem and its continuation: q goes
\* on where p ends, or has the greater name where they part.
Less(p, q) ==
    \E i \in 1 .. Len(q) :
       /\ i <= Len(p) + 1 /\ \A j \in 1 .. i - 1 : p[j] = q[j]
       /\ i = Len(p) + 1 \/ p[i] < q[i]

LEMMA NatAt ==
    ASSUME NEW p \in Seq(Nat)
    PROVE  Len(p) \in Nat /\ \A i \in 1 .. Len(p) : p[i] \in Nat
  OBVIOUS

LEMMA LessIrreflexive ==
    ASSUME NEW p \in Seq(Nat)
    PROVE  ~Less(p, p)
  BY DEF Less

LEMMA LessTransitive ==
    ASSUME NEW p \in Seq(Nat), NEW q \in Seq(Nat), NEW r \in Seq(Nat),
           Less(p, q), Less(q, r)
    PROVE  Less(p, r)
  <1>1. PICK i \in 1 .. Len(q) :
           /\ i <= Len(p) + 1 /\ \A j \in 1 .. i - 1 : p[j] = q[j]
           /\ i = Len(p) + 1 \/ p[i] < q[i]
    BY DEF Less
  <1>2. PICK m \in 1 .. Len(r) :
           /\ m <= Len(q) + 1 /\ \A j \in 1 .. m - 1 : q[j] = r[j]
           /\ m = Len(q) + 1 \/ q[m] < r[m]
    BY DEF Less
  <1>3. Len(p) \in Nat /\ Len(q) \in Nat /\ Len(r) \in Nat
    OBVIOUS
  <1>4. CASE i <= m
    <2>1. i \in 1 .. Len(r) /\ \A j \in 1 .. i - 1 : p[j] = r[j]
      BY <1>1, <1>2, <1>3, <1>4
    <2>2. CASE i = Len(p) + 1
      BY <2>1, <2>2, <1>1 DEF Less
    <2>3. CASE i <= Len(p)
      <3>1. p[i] \in Nat /\ q[i] \in Nat /\ r[i] \in Nat /\ p[i] < q[i]
        <4>1. i \in 1 .. Len(p) /\ p[i] < q[i]
          BY <2>3, <1>1, <1>3
        <4> QED BY <4>1, <2>1, NatAt
      <3>2. i < m => q[i] = r[i]
        BY <1>1, <1>2, <1>3
      <3>3. i = m => q[i] < r[i]
        BY <1>1, <1>2, <1>3
      <3>4. p[i] < r[i]
        BY <3>1, <3>2, <3>3, <1>4, <1>1, <1>2
      <3>5. i <= Len(p) + 1
        BY <2>3, <1>3
      <3> QED BY <2>1, <3>4, <3>5 DEF Less
    <2> QED BY <2>2, <2>3, <1>1, <1>3
  <1>5. CASE m < i
    <2>1. m \in 1 .. Len(p) /\ m \in 1 .. Len(q) /\ \A j \in 1 .. m - 1 : p[j] = r[j]
      BY <1>1, <1>2, <1>3, <1>5, SMTT(30)
    <2>2. p[m] = q[m] /\ q[m] < r[m]
      BY <2>1, <1>1, <1>2, <1>3, <1>5
    <2>3. p[m] < r[m] /\ m <= Len(p) + 1
      BY <2>1, <2>2, <1>3
    <2> QED BY <2>1, <2>3 DEF Less
  <1> QED BY <1>1, <1>2, <1>4, <1>5

LEMMA LessTotal ==
    ASSUME NEW p \in Seq(Nat), NEW q \in Seq(Nat)
    PROVE  p = q \/ Less(p, q) \/ Less(q, p)
  <1> DEFINE T == {i \in Nat \ {0} : i > Len(p) \/ i > Len(q) \/ p[i] # q[i]}
  <1>1. Len(p) \in Nat /\ Len(q) \in Nat
    OBVIOUS
  <1>2. Len(p) + 1 \in T
    BY <1>1
  <1>3. PICK i \in T : \A m \in T : i <= m
    BY <1>2, LeastNumber
  <1>4. i \in Nat \ {0} /\ (i > Len(p) \/ i > Len(q) \/ p[i] # q[i])
    BY <1>3
  <1>5. ASSUME NEW j \in 1 .. i - 1 PROVE j <= Len(p) /\ j <= Len(q) /\ p[j] = q[j]
    <2>1. j \in Nat \ {0} /\ j < i /\ j \notin T
      BY <1>3, <1>4
    <2> QED BY <2>1, <1>1
  <1> HIDE DEF T
  <1>6. i - 1 <= Len(p) /\ i - 1 <= Len(q)
    <2>1. i = 1 \/ i - 1 \in 1 .. i - 1
      BY <1>4
    <2> QED BY <2>1, <1>5, <1>1
  <1>7. CASE i <= Len(p) /\ i <= Len(q)
    <2>1. p[i] \in Nat /\ q[i] \in Nat /\ p[i] # q[i]
      BY <1>4, <1>7
    <2>2. p[i] < q[i] \/ q[i] < p[i]
      BY <2>1
    <2> QED BY <2>2, <1>1, <1>4, <1>5, <1>7 DEF Less
  <1>8. CASE i = Len(p) + 1 /\ i <= Len(q)
    BY <1>1, <1>4, <1>5, <1>8 DEF Less
  <1>9. CASE i = Len(q) + 1 /\ i <= Len(p)
    BY <1>1, <1>4, <1>5, <1>9 DEF Less
  <1>10. CASE i = Len(p) + 1 /\ i = Len(q) + 1
    <2>1. Len(p) = Len(q) /\ \A j \in 1 .. Len(p) : p[j] = q[j]
      BY <1>1, <1>5, <1>10
    <2> QED BY <2>1, SameSeq
  <1> QED BY <1>1, <1>4, <1>6, <1>7, <1>8, <1>9, <1>10, SMTT(30)

\* What lies inside a directory is together in the order.
LEMMA LessContiguous ==
    ASSUME NEW p \in Seq(Nat), NEW q \in Seq(Nat), NEW r \in Seq(Nat), NEW d \in Seq(Nat),
           p = q \/ Less(p, q), q = r \/ Less(q, r), AtOrIn(p, d), AtOrIn(r, d)
    PROVE  AtOrIn(q, d)
  <1>0. Len(p) \in Nat /\ Len(q) \in Nat /\ Len(r) \in Nat /\ Len(d) \in Nat
    OBVIOUS
  <1>1. /\ Len(p) >= Len(d) /\ \A j \in 1 .. Len(d) : p[j] = d[j]
        /\ Len(r) >= Len(d) /\ \A j \in 1 .. Len(d) : r[j] = d[j]
    BY InsideMeans
  <1>2. CASE p = q \/ q = r
    BY <1>2
  <1>3. CASE Less(p, q) /\ Less(q, r)
    <2>1. PICK i \in 1 .. Len(q) :
             /\ i <= Len(p) + 1 /\ \A j \in 1 .. i - 1 : p[j] = q[j]
             /\ i = Len(p) + 1 \/ p[i] < q[i]
      BY <1>3 DEF Less
    <2>2. PICK m \in 1 .. Len(r) :
             /\ m <= Len(q) + 1 /\ \A j \in 1 .. m - 1 : q[j] = r[j]
             /\ m = Len(q) + 1 \/ q[m] < r[m]
      BY <1>3 DEF Less
    <2>3. CASE i > Len(d)
      <3>1. Len(q) >= Len(d) /\ \A j \in 1 .. Len(d) : q[j] = d[j]
        BY <1>0, <1>1, <2>1, <2>3
      <3> QED BY <3>1, InsideMeans
    <2>4. CASE i <= Len(d)
      <3>0. i \in 1 .. Len(d) /\ i <= Len(p) /\ i # Len(p) + 1
        <4>1. i \in Nat /\ 1 <= i /\ i <= Len(d) /\ Len(d) <= Len(p)
          BY <1>0, <1>1, <2>1, <2>4
        <4> QED BY <4>1, <1>0, SMTT(30)
      <3>1. i \in 1 .. Len(d) /\ i <= Len(p) /\ p[i] = d[i] /\ d[i] = r[i] /\ p[i] < q[i]
        <4>1. p[i] = d[i] /\ r[i] = d[i]
          BY <1>1, <3>0
        <4>2. p[i] < q[i]
          BY <2>1, <3>0
        <4> QED BY <3>0, <4>1, <4>2
      <3>2. p[i] \in Nat /\ q[i] \in Nat /\ r[i] \in Nat
        <4>1. i \in 1 .. Len(p) /\ i \in 1 .. Len(q) /\ i \in 1 .. Len(r)
          BY <3>1, <2>1, <1>0, <1>1
        <4> QED BY <4>1, NatAt
      <3>3. CASE m > i
        <4>1. q[i] = r[i]
          BY <3>3, <2>1, <2>2, <1>0
        <4> QED BY <4>1, <3>1, <3>2
      <3>4. CASE m = i
        <4>1. q[i] < r[i]
          BY <3>4, <2>1, <2>2, <1>0
        <4> QED BY <4>1, <3>1, <3>2, SMTT(30)
      <3>5. CASE m < i
        <4>1. m \in 1 .. Len(d) /\ m <= Len(q) /\ m \in 1 .. i - 1
          <5>1. 1 <= m /\ m <= i - 1 /\ i <= Len(d) /\ i <= Len(q)
            BY <3>5, <3>1, <2>1, <2>2, <1>0
          <5> QED BY <5>1, <1>0
        <4>2. q[m] = p[m] /\ p[m] = d[m] /\ d[m] = r[m] /\ q[m] < r[m] /\ r[m] \in Nat
          <5>1. q[m] = p[m] /\ p[m] = d[m] /\ d[m] = r[m]
            BY <4>1, <1>1, <2>1
          <5>2. m # Len(q) + 1
            BY <4>1, <1>0
          <5> QED BY <5>1, <5>2, <2>2, NatAt
        <4> QED BY <4>2
      <3> QED BY <3>3, <3>4, <3>5
    <2> QED BY <2>3, <2>4, <1>0
  <1> QED BY <1>2, <1>3

\* The paths p and q do not part in two names of which one continues the other with
\* a byte below the slash, the other being a directory that has more of its path
\* inside.  It is what makes the order of strings an order of sequences of names.
Plain(p, q) ==
    \A i \in DOMAIN p \cap DOMAIN q :
       SubSeq(p, 1, i - 1) = SubSeq(q, 1, i - 1)
       => /\ <<p[i], q[i]>> \in LowStems => i = Len(p)
          /\ <<q[i], p[i]>> \in LowStems => i = Len(q)

LEMMA BeforeIsLess ==
    ASSUME NEW p \in Seq(Names), NEW q \in Seq(Names), Plain(p, q)
    PROVE  Before(p, q) <=> Less(p, q)
  <1>1. Len(p) \in Nat /\ Len(q) \in Nat /\ DOMAIN p = 1 .. Len(p) /\ DOMAIN q = 1 .. Len(q)
    OBVIOUS
  <1>2. \A i \in DOMAIN p \cap DOMAIN q :
           SubSeq(p, 1, i - 1) = SubSeq(q, 1, i - 1) <=> \A j \in 1 .. i - 1 : p[j] = q[j]
    <2> SUFFICES ASSUME NEW i \in DOMAIN p \cap DOMAIN q
                 PROVE  SubSeq(p, 1, i - 1) = SubSeq(q, 1, i - 1)
                        <=> \A j \in 1 .. i - 1 : p[j] = q[j]
      OBVIOUS
    <2>1. i - 1 \in Nat /\ i - 1 <= Len(p) /\ i - 1 <= Len(q)
      BY <1>1
    <2> QED BY <2>1, SameStart
  <1>3. Before(p, q) <=>
           \/ Inside(q, p)
           \/ \E i \in DOMAIN p \cap DOMAIN q : (\A j \in 1 .. i - 1 : p[j] = q[j]) /\ p[i] < q[i]
    <2>1. ASSUME NEW i \in DOMAIN p \cap DOMAIN q, SubSeq(p, 1, i - 1) = SubSeq(q, 1, i - 1)
          PROVE  /\ ~(<<q[i], p[i]>> \in LowStems /\ i < Len(q))
                 /\ ~(<<p[i], q[i]>> \in LowStems /\ i < Len(p))
      <3>1. /\ <<p[i], q[i]>> \in LowStems => i = Len(p)
            /\ <<q[i], p[i]>> \in LowStems => i = Len(q)
        BY <2>1 DEF Plain
      <3> QED BY <1>1, <3>1
    <2> QED BY <1>2, <2>1 DEF Before
  <1>4. Inside(q, p) <=> Len(q) > Len(p) /\ \A j \in 1 .. Len(p) : q[j] = p[j]
    BY InsideMeans
  <1>5. ASSUME Inside(q, p) PROVE Less(p, q)
    <2>1. Len(p) + 1 \in 1 .. Len(q) /\ \A j \in 1 .. (Len(p) + 1) - 1 : p[j] = q[j]
      BY <1>1, <1>4, <1>5
    <2> QED BY <2>1 DEF Less
  <1>6. ASSUME NEW i \in DOMAIN p \cap DOMAIN q, \A j \in 1 .. i - 1 : p[j] = q[j], p[i] < q[i]
        PROVE  Less(p, q)
    <2>1. i \in 1 .. Len(q) /\ i <= Len(p) + 1
      BY <1>1
    <2> QED BY <2>1, <1>6 DEF Less
  <1>7. ASSUME Less(p, q)
        PROVE  \/ Inside(q, p)
               \/ \E i \in DOMAIN p \cap DOMAIN q :
                     (\A j \in 1 .. i - 1 : p[j] = q[j]) /\ p[i] < q[i]
    <2>1. PICK i \in 1 .. Len(q) :
             /\ i <= Len(p) + 1 /\ \A j \in 1 .. i - 1 : p[j] = q[j]
             /\ i = Len(p) + 1 \/ p[i] < q[i]
      BY <1>7 DEF Less
    <2>2. CASE i = Len(p) + 1
      BY <1>1, <1>4, <2>1, <2>2
    <2>3. CASE i <= Len(p) /\ p[i] < q[i]
      <3>1. i \in DOMAIN p \cap DOMAIN q
        BY <1>1, <2>3
      <3> QED BY <2>1, <2>3, <3>1
    <2> QED BY <1>1, <2>1, <2>2, <2>3
  <1> QED BY <1>3, <1>5, <1>6, <1>7

\* A finite set with a strict total order can be enumerated in that order: an
\* element goes to the place that the number of those before it gives.
LEMMA SortedEnumeration ==
    ASSUME NEW S, IsFiniteSet(S), NEW R,
           \A x \in S : <<x, x>> \notin R,
           \A x, y, z \in S : <<x, y>> \in R /\ <<y, z>> \in R => <<x, z>> \in R,
           \A x, y \in S : x = y \/ <<x, y>> \in R \/ <<y, x>> \in R
    PROVE  \E s \in [1 .. Cardinality(S) -> S] :
              \A i, j \in 1 .. Cardinality(S) : i < j => <<s[i], s[j]>> \in R
  <1> DEFINE n == Cardinality(S)
             Below(x) == {y \in S : <<y, x>> \in R}
             rank == [x \in S |-> Cardinality(Below(x)) + 1]
  <1>1. n \in Nat
    BY FS_CardinalityType
  <1>2. ASSUME NEW x \in S
        PROVE  IsFiniteSet(Below(x)) /\ Cardinality(Below(x)) \in Nat /\ Cardinality(Below(x)) < n
    <2>1. Below(x) \in SUBSET S /\ x \notin Below(x)
      OBVIOUS
    <2>2. /\ IsFiniteSet(Below(x)) /\ Cardinality(Below(x)) <= n
          /\ n = Cardinality(Below(x)) => S = Below(x)
      BY <2>1, FS_Subset
    <2>3. Cardinality(Below(x)) \in Nat
      BY <2>2, FS_CardinalityType
    <2> QED BY <1>1, <2>1, <2>2, <2>3
  <1>3. ASSUME NEW x \in S, NEW y \in S, <<x, y>> \in R PROVE rank[x] < rank[y]
    <2>1. Below(x) \in SUBSET Below(y) /\ x \in Below(y) /\ x \notin Below(x)
      BY <1>3
    <2>2. /\ Cardinality(Below(x)) <= Cardinality(Below(y))
          /\ Cardinality(Below(y)) = Cardinality(Below(x)) => Below(y) = Below(x)
      BY <1>2, <2>1, FS_Subset
    <2>3. Cardinality(Below(x)) < Cardinality(Below(y))
      <3>1. Cardinality(Below(x)) # Cardinality(Below(y))
        BY <2>1, <2>2
      <3>2. Cardinality(Below(x)) \in Nat /\ Cardinality(Below(y)) \in Nat
        BY <1>2
      <3> HIDE DEF Below
      <3> QED BY <2>2, <3>1, <3>2
    <2> HIDE DEF Below
    <2> QED BY <1>2, <2>3
  <1>4. rank \in [S -> 1 .. n]
    <2> HIDE DEF Below, n
    <2> QED BY <1>1, <1>2
  <1> HIDE DEF Below, rank, n
  <1>5. rank \in Injection(S, 1 .. n)
    <2>1. ASSUME NEW x \in S, NEW y \in S, rank[x] = rank[y] PROVE x = y
      <3>1. rank[x] \in Nat /\ rank[y] \in Nat
        BY <1>1, <1>4
      <3>2. ~(rank[x] < rank[y]) /\ ~(rank[y] < rank[x])
        BY <2>1, <3>1
      <3>3. <<x, y>> \notin R /\ <<y, x>> \notin R
        BY <1>3, <3>2
      <3> QED BY <3>3
    <2> QED BY <1>4, <2>1 DEF Injection, IsInjective
  <1>6. rank \in Surjection(S, 1 .. n)
    <2>1. IsFiniteSet(1 .. n) /\ Cardinality(1 .. n) = n
      BY <1>1, FS_Interval
    <2> QED BY <1>5, <2>1, FS_Injection DEF n
  <1>7. \A i \in 1 .. n : \E x \in S : rank[x] = i
    BY <1>6 DEF Surjection
  <1> DEFINE s == [i \in 1 .. n |-> CHOOSE x \in S : rank[x] = i]
  <1>8. \A i \in 1 .. n : s[i] \in S /\ rank[s[i]] = i
    BY <1>7
  <1>9. s \in [1 .. n -> S]
    BY <1>8
  <1> HIDE DEF s
  <1>10. ASSUME NEW i \in 1 .. n, NEW j \in 1 .. n, i < j PROVE <<s[i], s[j]>> \in R
    <2>1. s[i] # s[j] /\ s[i] \in S /\ s[j] \in S
      BY <1>1, <1>8, <1>10
    <2>2. <<s[j], s[i]>> \notin R
      BY <1>1, <1>3, <1>8, <1>10
    <2> QED BY <2>1, <2>2
  <1> QED BY <1>9, <1>10 DEF n

\* A set of numbers with everything below its members counts itself.
LEMMA DownClosed ==
    ASSUME NEW n \in Nat, NEW T, T \subseteq 1 .. n, \A i \in T : \A j \in 1 .. i : j \in T
    PROVE  Cardinality(T) \in 0 .. n /\ T = 1 .. Cardinality(T)
  <1> DEFINE U == {i \in Nat \ {0} : i \notin T}
  <1>1. n + 1 \in U
    OBVIOUS
  <1>2. PICK m \in U : \A i \in U : m <= i
    BY <1>1, LeastNumber
  <1>3. m \in Nat \ {0} /\ m \notin T /\ m <= n + 1
    BY <1>1, <1>2
  <1>4. ASSUME NEW i \in T PROVE i \in 1 .. m - 1
    <2>1. i \in Nat \ {0} /\ ~(m <= i)
      BY <1>3
    <2> QED BY <1>3, <2>1
  <1>5. ASSUME NEW i \in 1 .. m - 1 PROVE i \in T
    <2>1. i \in Nat \ {0} /\ ~(m <= i)
      BY <1>3
    <2> QED BY <1>2, <2>1
  <1>6. T = 1 .. m - 1
    BY <1>4, <1>5
  <1>7. Cardinality(T) = m - 1
    <2>1. Cardinality(1 .. m - 1) = IF 1 > m - 1 THEN 0 ELSE (m - 1) - 1 + 1
      BY <1>3, FS_Interval
    <2> QED BY <1>3, <1>6, <2>1
  <1> QED BY <1>3, <1>6, <1>7

-----------------------------------------------------------------------------
(* The steps, by what they do.                                             *)

\* A builder's method.
Asks ==
    \E new \in Seq(Menu) :
       /\ new # <<>> /\ \A c \in Range(new) : stream => c.op = "put"
       /\ Ask(new)

Begins ==
    /\ pc = "ask" /\ changes # <<>> /\ pc' = "fold" /\ todo' = changes
    /\ UNCHANGED <<base, stream, changes, plan, walk, server>>

Fails == pc \in {"ask", "fold", "copies", "plan", "resolve"} /\ Fail

FoldsOne ==
    /\ pc = "fold" /\ todo # <<>> /\ ~Refused(Head(todo))
    /\ Fold(Head(todo))
    /\ todo' = Tail(todo)
    /\ UNCHANGED <<base, stream, changes, pc, walk, server>>

FoldEnds ==
    /\ pc = "fold" /\ todo = <<>>
    /\ GoOn(IF stream THEN "resolve" ELSE "copies")

CopiesOne ==
    /\ pc = "copies" /\ copies # <<>> /\ ~CopyRefused(Head(copies))
    /\ TakeCopy
    /\ copies' = Tail(copies) /\ pc' = pc

ConflictFree == pc = "copies" /\ copies = <<>> /\ ~Conflict /\ GoOn("plan")

Plans ==
    /\ pc = "plan" /\ \A d \in Required : ~DirRefused(d)
    /\ dirPlans' = [d \in Required |-> IF KindAt(base, d) = "dir" THEN "open" ELSE "add"]
    /\ pc' = IF stream THEN "sort" ELSE "resolve"
    /\ UNCHANGED <<base, stream, changes, todo, plan, tasks, stack, tokens,
                   commands, opened, server>>

Resolves ==
    /\ pc = "resolve" /\ ~Unresolved
    /\ GoOn(IF stream THEN "plan" ELSE "sort")

LEMMA StepKinds ==
    ASSUME stream \in BOOLEAN, Next
    PROVE  \/ Asks \/ Begins \/ Fails \/ FoldsOne \/ FoldEnds \/ CopiesOne \/ ConflictFree
           \/ Plans \/ Resolves \/ OpenRoot \/ Walk \/ CloseAll \/ Apply
  <1> USE DEF Fails
  <1>1. ASSUME NEW c \in Menu, stream => c.op = "put", Ask(<<c>>) PROVE Asks
    <2>1. <<c>> \in Seq(Menu) /\ <<c>> # <<>> /\ \A x \in Range(<<c>>) : x = c
      BY DEF Range
    <2> QED BY <1>1, <2>1 DEF Asks
  <1>2. CASE PutFile \/ PutReader \/ MkdirP \/ Delete \/ Copy \/ Prop
    BY <1>1, <1>2 DEF PutFile, PutReader, MkdirP, Delete, Copy, Prop
  <1>3. CASE Move
    <2>1. PICK c \in Menu, d \in Menu : ~stream /\ Ask(<<c, d>>)
      BY <1>3 DEF Move
    <2>2. <<c, d>> \in Seq(Menu) /\ <<c, d>> # <<>>
      OBVIOUS
    <2> QED BY <2>1, <2>2 DEF Asks
  <1>4. CASE Build \/ Stream
    BY <1>4 DEF Build, Stream, Begin, Begins
  <1>5. CASE SessionFails
    BY <1>5 DEF SessionFails
  <1>6. CASE FoldChange \/ TakeReader
    BY <1>6 DEF FoldChange, TakeReader, Take, FoldsOne
  <1>7. CASE Folded \/ ReadersTaken
    BY <1>7 DEF Folded, ReadersTaken, FoldEnds
  <1>8. CASE TakeCopy
    BY <1>8 DEF TakeCopy, CopiesOne
  <1>9. CASE CheckConflicts
    BY <1>9 DEF CheckConflicts, ConflictFree
  <1>10. CASE PlanDirs \/ PlanParents
    BY <1>10 DEF PlanDirs, PlanParents, PlanTo, Plans
  <1>11. CASE Resolve \/ ResolveReaders
    BY <1>11 DEF Resolve, ResolveReaders, ResolveTo, Resolves
  <1>12. CASE OpenRoot \/ WalkTask \/ SendFile \/ CloseAll \/ Apply
    BY <1>12 DEF WalkTask, SendFile
  <1> QED BY <1>2, <1>3, <1>4, <1>5, <1>6, <1>7, <1>8, <1>9, <1>10, <1>11, <1>12 DEF Next

-----------------------------------------------------------------------------
(* The shape of what the builder collects.                                 *)

\* Operations at paths of D, none of which has more than n properties.
OpsOK(ops, D, n) ==
    /\ ops \in [DOMAIN ops -> OpType] /\ DOMAIN ops \subseteq D
    /\ IsFiniteSet(DOMAIN ops)
    /\ \A p \in DOMAIN ops : ops[p].props <= n

Folded0 == Len(changes) - Len(todo)

CopyChanges == {c \in Changes : c.op = "copy" /\ c.path \in Paths}

Shape ==
    /\ base \in [Paths -> Kinds] /\ stream \in BOOLEAN /\ pc \in Steps
    /\ changes \in Seq(Changes) /\ Len(changes) <= MaxChanges
    /\ todo \in Seq(Changes) /\ Len(todo) <= Len(changes)
    /\ OpsOK(fileOps, Paths, Folded0) /\ OpsOK(dirOps, Paths \cup {Root}, Folded0)
    /\ deletes \subseteq Paths /\ IsFiniteSet(deletes)
    /\ copies \in Seq(CopyChanges)
    /\ pc = "ask" => /\ todo = <<>> /\ copies = <<>> /\ deletes = {}
                     /\ DOMAIN fileOps = {} /\ DOMAIN dirOps = {}

LEMMA NoOpType == NoOp \in OpType /\ NoOp.props = 0
  BY BoundAssumption DEF NoOp, OpType, Modes, Root

LEMMA OpAtType ==
    ASSUME NEW D, NEW ops, NEW n \in Nat, OpsOK(ops, D, n), NEW p
    PROVE  OpAt(ops, p) \in OpType /\ OpAt(ops, p).props <= n
  BY NoOpType DEF OpAt, OpsOK

LEMMA OpUpdated ==
    ASSUME NEW o \in OpType, NEW a \in {"none", "put", "mkdir", "copy"}, NEW m \in Modes
    PROVE  /\ [o EXCEPT !.action = a, !.mode = m] \in OpType
           /\ [o EXCEPT !.action = a, !.mode = m].props = o.props
  BY DEF OpType

LEMMA CopyUpdated ==
    ASSUME NEW o \in OpType, NEW f \in Paths \cup {Root}
    PROVE  /\ [o EXCEPT !.action = "copy", !.from = f] \in OpType
           /\ [o EXCEPT !.action = "copy", !.from = f].props = o.props
  BY DEF OpType

LEMMA PutOK ==
    ASSUME NEW D, NEW ops, NEW n \in Nat, NEW m \in Nat, n <= m, OpsOK(ops, D, n),
           NEW p \in D, NEW op \in OpType, op.props <= m
    PROVE  OpsOK(Put(ops, p, op), D, m)
  <1>1. /\ DOMAIN Put(ops, p, op) = DOMAIN ops \cup {p} /\ Put(ops, p, op)[p] = op
        /\ \A q \in DOMAIN ops : q # p => Put(ops, p, op)[q] = ops[q]
    BY DEF Put
  <1>2. IsFiniteSet(DOMAIN ops \cup {p})
    BY FS_AddElement DEF OpsOK
  <1>3. Put(ops, p, op) \in [DOMAIN ops \cup {p} -> OpType]
    BY DEF Put, OpsOK
  <1>4. \A q \in DOMAIN ops : ops[q].props \in Nat
    BY BoundAssumption DEF OpsOK, OpType
  <1>5. ASSUME NEW q \in DOMAIN ops \cup {p} PROVE Put(ops, p, op)[q].props <= m
    BY <1>1, <1>4 DEF OpsOK
  <1> QED BY <1>1, <1>2, <1>3, <1>5 DEF OpsOK

LEMMA OpsGrow ==
    ASSUME NEW D, NEW ops, NEW n \in Nat, NEW m \in Nat, n <= m, OpsOK(ops, D, n)
    PROVE  OpsOK(ops, D, m)
  <1>1. \A q \in DOMAIN ops : ops[q].props \in Nat
    BY BoundAssumption DEF OpsOK, OpType
  <1> QED BY <1>1 DEF OpsOK

LEMMA ShapeInit == Init => Shape
  <1> SUFFICES ASSUME Init PROVE Shape
    OBVIOUS
  <1>1. DOMAIN fileOps = {} /\ DOMAIN dirOps = {} /\ fileOps = <<>> /\ dirOps = <<>>
    BY DEF Init
  <1>2. OpsOK(fileOps, Paths, Folded0) /\ OpsOK(dirOps, Paths \cup {Root}, Folded0)
    <2>1. \A f : f = <<>> => f \in [DOMAIN f -> OpType]
      OBVIOUS
    <2> QED BY <1>1, <2>1, FS_EmptySet DEF OpsOK
  <1>3. changes = <<>> /\ todo = <<>> /\ copies = <<>> /\ deletes = {}
        /\ pc = "ask" /\ stream \in BOOLEAN /\ base \in Trees
    BY DEF Init
  <1>4. IsFiniteSet(deletes)
    BY <1>3, FS_EmptySet
  <1> QED BY <1>1, <1>2, <1>3, <1>4, TreeAssumption, BoundAssumption DEF Shape, Steps

\* What Fold does, with the types of what it writes.
LEMMA FoldShape ==
    ASSUME Shape, FoldsOne
    PROVE  /\ Folded0' = Folded0 + 1 /\ Folded0 \in Nat
           /\ OpsOK(fileOps, Paths, Folded0)' /\ OpsOK(dirOps, Paths \cup {Root}, Folded0)'
           /\ (deletes \subseteq Paths)' /\ IsFiniteSet(deletes)'
           /\ (copies \in Seq(CopyChanges))'
  <1> DEFINE c == Head(todo) n == Folded0
  <1>1. /\ todo # <<>> /\ todo' = Tail(todo) /\ changes' = changes /\ Fold(c) /\ ~Refused(c)
    BY DEF FoldsOne
  <1>2. c \in Changes /\ Len(todo') = Len(todo) - 1 /\ Len(todo) \in Nat /\ Len(changes) \in Nat
    BY <1>1 DEF Shape
  <1>3. n \in Nat /\ Folded0' = n + 1 /\ n + 1 <= MaxChanges
    BY <1>1, <1>2, BoundAssumption DEF Shape, Folded0
  <1>4. /\ OpsOK(fileOps, Paths, n) /\ OpsOK(dirOps, Paths \cup {Root}, n)
        /\ deletes \subseteq Paths /\ IsFiniteSet(deletes) /\ copies \in Seq(CopyChanges)
    BY DEF Shape
  <1>5. c.path \in Paths \cup {Root} /\ c.op \in Ops /\ c.mode \in Modes
    BY <1>2 DEF Changes
  <1>6. c.op \notin {"mkdir", "dirprop"} => c.path \in Paths
    BY <1>1, <1>5 DEF Refused
  <1>7. OpsOK(fileOps, Paths, n + 1) /\ OpsOK(dirOps, Paths \cup {Root}, n + 1)
    BY <1>3, <1>4, OpsGrow
  <1>8. OpAt(fileOps, c.path) \in OpType /\ OpAt(fileOps, c.path).props <= n
        /\ OpAt(dirOps, c.path) \in OpType /\ OpAt(dirOps, c.path).props <= n
    BY <1>3, <1>4, OpAtType
  <1> HIDE DEF c, n
  <1>9. CASE c.op = "put" /\ fileOps' = Put(fileOps, c.path, PutOp(c))
             /\ UNCHANGED <<dirOps, deletes, copies>>
    <2>1. PutOp(c) \in OpType /\ PutOp(c).props <= n + 1
      <3>1. PutOp(c) \in OpType /\ PutOp(c).props = OpAt(fileOps, c.path).props
        BY <1>5, <1>8, OpUpdated DEF PutOp
      <3>2. OpAt(fileOps, c.path).props \in Nat
        BY <1>8, BoundAssumption DEF OpType
      <3> QED BY <1>3, <1>8, <3>1, <3>2
    <2>2. OpsOK(fileOps', Paths, n + 1)
      BY <1>3, <1>4, <1>6, <1>9, <2>1, PutOK
    <2> QED BY <1>3, <1>4, <1>7, <1>9, <2>2 DEF n
  <1>10. CASE c.op = "fileprop" /\ fileOps' = Put(fileOps, c.path, PropOp(fileOps, c))
              /\ UNCHANGED <<dirOps, deletes, copies>>
    <2>1. PropOp(fileOps, c) \in OpType /\ PropOp(fileOps, c).props <= n + 1
      BY <1>3, <1>5, <1>8, BoundAssumption DEF PropOp, OpType
    <2>2. OpsOK(fileOps', Paths, n + 1)
      BY <1>3, <1>4, <1>6, <1>10, <2>1, PutOK
    <2> QED BY <1>3, <1>4, <1>7, <1>10, <2>2 DEF n
  <1>11. CASE c.op = "mkdir" /\ dirOps' = Put(dirOps, c.path, MkdirOp(c))
              /\ UNCHANGED <<fileOps, deletes, copies>>
    <2>1. MkdirOp(c) \in OpType /\ MkdirOp(c).props <= n + 1
      <3>1. Stricter(c.path, c.mode) \in Modes
        BY <1>5 DEF Stricter, Modes
      <3>2. MkdirOp(c) \in OpType /\ MkdirOp(c).props = OpAt(dirOps, c.path).props
        BY <1>5, <1>8, <3>1, OpUpdated DEF MkdirOp
      <3>3. OpAt(dirOps, c.path).props \in Nat
        BY <1>8, BoundAssumption DEF OpType
      <3> QED BY <1>3, <1>8, <3>2, <3>3
    <2>2. OpsOK(Put(dirOps, c.path, MkdirOp(c)), Paths \cup {Root}, n + 1)
      <3>1. n <= n + 1 /\ n + 1 \in Nat
        BY <1>3
      <3> QED BY <1>3, <1>4, <1>5, <2>1, <3>1, PutOK, Zenon
    <2>3. OpsOK(dirOps', Paths \cup {Root}, n + 1)
      BY <1>11, <2>2
    <2> QED BY <1>3, <1>4, <1>7, <1>11, <2>3 DEF n
  <1>12. CASE c.op = "dirprop" /\ dirOps' = Put(dirOps, c.path, PropOp(dirOps, c))
              /\ UNCHANGED <<fileOps, deletes, copies>>
    <2>1. PropOp(dirOps, c) \in OpType /\ PropOp(dirOps, c).props <= n + 1
      BY <1>3, <1>5, <1>8, BoundAssumption DEF PropOp, OpType
    <2>2. OpsOK(dirOps', Paths \cup {Root}, n + 1)
      BY <1>3, <1>4, <1>5, <1>12, <2>1, PutOK
    <2> QED BY <1>3, <1>4, <1>7, <1>12, <2>2 DEF n
  <1>13. CASE c.op = "delete" /\ deletes' = deletes \cup {c.path}
              /\ UNCHANGED <<fileOps, dirOps, copies>>
    <2>1. IsFiniteSet(deletes') /\ deletes' \subseteq Paths
      BY <1>4, <1>6, <1>13, FS_AddElement
    <2> QED BY <1>3, <1>4, <1>7, <1>13, <2>1 DEF n
  <1>14. CASE c.op = "copy" /\ copies' = Append(copies, c)
              /\ UNCHANGED <<fileOps, dirOps, deletes>>
    <2>1. c \in CopyChanges
      BY <1>2, <1>6, <1>14 DEF CopyChanges
    <2> QED BY <1>3, <1>4, <1>7, <1>14, <2>1 DEF n
  <1> QED BY <1>1, <1>9, <1>10, <1>11, <1>12, <1>13, <1>14 DEF Fold

\* What is taken of a copy, by the kind of its source.
LEMMA CopyEffect ==
    ASSUME Shape, CopiesOne
    PROVE  LET c == Head(copies) IN
           /\ c \in CopyChanges /\ c \in Changes /\ c.path \notin deletes
           /\ \/ /\ KindAt(base, c.from) = "file" /\ OpAt(fileOps, c.path).action = "none"
                 /\ fileOps' = Put(fileOps, c.path, CopyOp(fileOps, c)) /\ dirOps' = dirOps
              \/ /\ KindAt(base, c.from) = "dir" /\ OpAt(dirOps, c.path).action = "none"
                 /\ dirOps' = Put(dirOps, c.path, CopyOp(dirOps, c)) /\ fileOps' = fileOps
           /\ copies' = Tail(copies) /\ pc' = "copies" /\ pc = "copies"
           /\ UNCHANGED <<base, stream, changes, todo, deletes, walk, server>>
  <1> DEFINE c == Head(copies)
  <1>1. copies # <<>> /\ copies \in Seq(CopyChanges) /\ ~CopyRefused(c) /\ pc = "copies" /\ pc' = pc
    BY DEF CopiesOne, Shape
  <1>2. c \in Changes /\ c \in CopyChanges
    <2>1. c \in CopyChanges
      BY <1>1
    <2> QED BY <2>1 DEF CopyChanges
  <1>3. KindAt(base, c.from) \in {"none", "file", "dir"}
    BY <1>2 DEF KindAt, Shape, Kinds, Changes
  <1>4. pc' # "failed"
    BY <1>1
  <1>5. /\ IF KindAt(base, c.from) = "file"
           THEN fileOps' = Put(fileOps, c.path, CopyOp(fileOps, c)) /\ UNCHANGED dirOps
           ELSE dirOps' = Put(dirOps, c.path, CopyOp(dirOps, c)) /\ UNCHANGED fileOps
        /\ copies' = Tail(copies)
        /\ UNCHANGED <<base, stream, changes, todo, pc, deletes, walk, server>>
    BY <1>4 DEF CopiesOne, TakeCopy, Fail
  <1> QED BY <1>1, <1>2, <1>3, <1>5 DEF CopyRefused

LEMMA ShapeStep == ASSUME Shape, [Next]_vars PROVE Shape'
  <1>1. CASE UNCHANGED vars
    <2>1. UNCHANGED <<base, stream, changes, todo, pc, fileOps, dirOps, deletes, copies>>
      BY <1>1 DEF vars, plan
    <2> QED BY <2>1 DEF Shape, Folded0, OpsOK
  <1>2. CASE Asks
    <2>1. PICK new \in Seq(Menu) : Ask(new)
      BY <1>2 DEF Asks
    <2>2. /\ pc = "ask" /\ Len(changes) + Len(new) <= MaxChanges /\ changes' = changes \o new
          /\ UNCHANGED <<base, stream, todo, pc, fileOps, dirOps, deletes, copies>>
      BY <2>1 DEF Ask, plan
    <2>3. new \in Seq(Changes)
      BY MenuAssumption
    <2>4. /\ changes' \in Seq(Changes) /\ Len(changes') = Len(changes) + Len(new)
          /\ Len(new) \in Nat /\ Len(changes) \in Nat /\ Len(todo) = 0
      BY <2>2, <2>3 DEF Shape
    <2>5. OpsOK(fileOps', Paths, Folded0') /\ OpsOK(dirOps', Paths \cup {Root}, Folded0')
      BY <2>2 DEF Shape, OpsOK
    <2> QED BY <2>2, <2>4, <2>5, BoundAssumption DEF Shape
  <1>3. CASE Begins
    <2>1. /\ pc = "ask" /\ pc' = "fold" /\ todo' = changes
          /\ UNCHANGED <<base, stream, changes, fileOps, dirOps, deletes, copies>>
      BY <1>3 DEF Begins, plan
    <2>2. OpsOK(fileOps', Paths, Folded0') /\ OpsOK(dirOps', Paths \cup {Root}, Folded0')
      BY <2>1 DEF Shape, OpsOK
    <2>3. Len(changes) \in Nat
      BY DEF Shape
    <2> QED BY <2>1, <2>2, <2>3 DEF Shape, Steps
  <1>4. CASE Fails \/ FoldEnds \/ ConflictFree \/ Plans \/ Resolves \/ OpenRoot \/ Walk
             \/ CloseAll \/ Apply
    <2>1. /\ UNCHANGED <<base, stream, changes, todo, fileOps, dirOps, deletes, copies>>
          /\ pc' \in Steps /\ pc' # "ask"
      BY <1>4 DEF Fails, Fail, FoldEnds, ConflictFree, GoOn, Plans, Resolves, OpenRoot, Walk,
                  CloseAll, Apply, plan, Steps
    <2> QED BY <2>1 DEF Shape, Folded0, OpsOK
  <1>5. CASE FoldsOne
    <2>1. /\ UNCHANGED <<base, stream, changes, pc>> /\ todo' = Tail(todo) /\ todo # <<>> /\ pc = "fold"
      BY <1>5 DEF FoldsOne
    <2>2. todo' \in Seq(Changes) /\ Len(todo') <= Len(changes')
      BY <2>1 DEF Shape
    <2> QED BY <1>5, <2>1, <2>2, FoldShape DEF Shape
  <1>6. CASE CopiesOne
    <2> DEFINE c == Head(copies) n == Folded0
    <2>1. /\ c \in CopyChanges
          /\ \/ /\ fileOps' = Put(fileOps, c.path, CopyOp(fileOps, c)) /\ dirOps' = dirOps
             \/ /\ dirOps' = Put(dirOps, c.path, CopyOp(dirOps, c)) /\ fileOps' = fileOps
          /\ copies' = Tail(copies) /\ pc' = "copies"
          /\ UNCHANGED <<base, stream, changes, todo, deletes>>
      BY <1>6, CopyEffect
    <2>2. copies' \in Seq(CopyChanges)
      BY <1>6, <2>1 DEF Shape, CopiesOne
    <2>3. n \in Nat /\ Folded0' = n
      BY <2>1 DEF Shape, Folded0
    <2>4. c.from \in Paths \cup {Root} /\ c.path \in Paths
      BY <2>1 DEF CopyChanges, Changes
    <2>5. OpsOK(fileOps, Paths, n) /\ OpsOK(dirOps, Paths \cup {Root}, n)
      BY DEF Shape
    <2>6. /\ OpAt(fileOps, c.path) \in OpType /\ OpAt(fileOps, c.path).props <= n
          /\ OpAt(dirOps, c.path) \in OpType /\ OpAt(dirOps, c.path).props <= n
      BY <2>3, <2>5, OpAtType
    <2> HIDE DEF c, n
    <2>7. /\ CopyOp(fileOps, c) \in OpType /\ CopyOp(fileOps, c).props <= n
          /\ CopyOp(dirOps, c) \in OpType /\ CopyOp(dirOps, c).props <= n
      BY <2>4, <2>6, CopyUpdated DEF CopyOp
    <2>8. OpsOK(Put(fileOps, c.path, CopyOp(fileOps, c)), Paths, n)
      BY <2>3, <2>4, <2>5, <2>7, PutOK
    <2>9. OpsOK(Put(dirOps, c.path, CopyOp(dirOps, c)), Paths \cup {Root}, n)
      <3>1. n <= n /\ c.path \in Paths \cup {Root}
        BY <2>3, <2>4
      <3> QED BY <2>3, <2>5, <2>7, <3>1, PutOK, Zenon
    <2>10. OpsOK(fileOps', Paths, Folded0') /\ OpsOK(dirOps', Paths \cup {Root}, Folded0')
      BY <2>1, <2>3, <2>5, <2>8, <2>9
    <2> QED BY <2>1, <2>2, <2>10 DEF Shape, Steps
  <1> QED BY <1>1, <1>2, <1>3, <1>4, <1>5, <1>6, StepKinds DEF Shape

-----------------------------------------------------------------------------
(* Sequences and their members.                                            *)

LEMMA RangeSplit ==
    ASSUME NEW S, NEW s \in Seq(S), s # <<>>
    PROVE  /\ Head(s) \in S /\ Head(s) \in Range(s)
           /\ Range(s) = {Head(s)} \cup Range(Tail(s))
           /\ Range(s) \subseteq S
  <1>1. /\ Len(s) \in Nat \ {0} /\ DOMAIN s = 1 .. Len(s) /\ Head(s) = s[1]
        /\ Tail(s) \in Seq(S) /\ Len(Tail(s)) = Len(s) - 1 /\ DOMAIN Tail(s) = 1 .. Len(s) - 1
        /\ \A i \in 1 .. Len(s) - 1 : Tail(s)[i] = s[i + 1]
    OBVIOUS
  <1>2. ASSUME NEW i \in DOMAIN s PROVE s[i] \in {Head(s)} \cup Range(Tail(s))
    <2>1. CASE i = 1
      BY <1>1, <2>1
    <2>2. CASE i # 1
      <3>1. i - 1 \in 1 .. Len(s) - 1 /\ Tail(s)[i - 1] = s[(i - 1) + 1] /\ (i - 1) + 1 = i
        BY <1>1, <2>2
      <3> QED BY <1>1, <3>1 DEF Range
    <2> QED BY <2>1, <2>2
  <1>3. ASSUME NEW i \in DOMAIN Tail(s) PROVE Tail(s)[i] \in Range(s)
    <2>1. i + 1 \in DOMAIN s /\ Tail(s)[i] = s[i + 1]
      BY <1>1
    <2> QED BY <2>1 DEF Range
  <1>4. Head(s) \in Range(s)
    BY <1>1 DEF Range
  <1>5. Range(s) \subseteq S
    BY DEF Range
  <1> QED BY <1>1, <1>2, <1>3, <1>4, <1>5 DEF Range

LEMMA RangeCat ==
    ASSUME NEW S, NEW s \in Seq(S), NEW t \in Seq(S)
    PROVE  Range(s \o t) = Range(s) \cup Range(t)
  <1>1. /\ Len(s) \in Nat /\ Len(t) \in Nat /\ DOMAIN s = 1 .. Len(s) /\ DOMAIN t = 1 .. Len(t)
        /\ DOMAIN (s \o t) = 1 .. Len(s) + Len(t)
        /\ \A i \in 1 .. Len(s) + Len(t) :
              (s \o t)[i] = IF i <= Len(s) THEN s[i] ELSE t[i - Len(s)]
    OBVIOUS
  <1>2. ASSUME NEW i \in DOMAIN (s \o t) PROVE (s \o t)[i] \in Range(s) \cup Range(t)
    <2>1. i <= Len(s) => i \in DOMAIN s
      BY <1>1
    <2>2. ~(i <= Len(s)) => i - Len(s) \in DOMAIN t
      BY <1>1
    <2> QED BY <1>1, <2>1, <2>2 DEF Range
  <1>3. ASSUME NEW i \in DOMAIN s PROVE s[i] \in Range(s \o t)
    <2>1. i \in DOMAIN (s \o t) /\ (s \o t)[i] = s[i]
      BY <1>1
    <2> QED BY <2>1 DEF Range
  <1>4. ASSUME NEW i \in DOMAIN t PROVE t[i] \in Range(s \o t)
    <2>1. i + Len(s) \in DOMAIN (s \o t) /\ (s \o t)[i + Len(s)] = t[i]
      BY <1>1
    <2> QED BY <2>1 DEF Range
  <1> QED BY <1>2, <1>3, <1>4 DEF Range

LEMMA RangeOne ==
    /\ Range(<<>>) = {}
    /\ \A x : Range(<<x>>) = {x}
    /\ \A S : \A s \in Seq(S) : Range(s) = {} <=> s = <<>>
  BY DEF Range

-----------------------------------------------------------------------------
(* What is collected is what was asked for.                                *)

IsCopy(c, kind, p, from) ==
    c.op = "copy" /\ c.path = p /\ c.from = from /\ KindAt(base, from) = kind

FileFrom(p, op) ==
    /\ \E c \in Asked : IsFileChange(c) /\ c.path = p
    /\ op.action = "copy" => \E c \in Asked : IsCopy(c, "file", p, op.from)
    /\ op.action # "copy" => op.from = Root

DirFrom(p, op) ==
    /\ \E c \in Asked : IsDirChange(c) /\ c.path = p
    /\ op.action = "copy" => p \in Paths /\ \E c \in Asked : IsCopy(c, "dir", p, op.from)

DeleteFrom(d) == \E c \in Asked : c.op = "delete" /\ c.path = d

\* Every operation is there because of a change.
FromAsked ==
    /\ \A c \in Asked : stream => c.op = "put"
    /\ Range(todo) \subseteq Asked /\ Range(copies) \subseteq Asked
    /\ \A p \in DOMAIN fileOps : FileFrom(p, fileOps[p])
    /\ \A p \in DOMAIN dirOps : DirFrom(p, dirOps[p])
    /\ \A d \in deletes : DeleteFrom(d)

CopyTaken(c) ==
    \/ KindAt(base, c.from) = "file" /\ c.path \in DOMAIN fileOps
       /\ fileOps[c.path].action = "copy" /\ fileOps[c.path].from = c.from
    \/ KindAt(base, c.from) = "dir" /\ c.path \in DOMAIN dirOps
       /\ dirOps[c.path].action = "copy" /\ dirOps[c.path].from = c.from

Taken(c) ==
    /\ c.op \in {"put", "fileprop"} => c.path \in DOMAIN fileOps
    /\ c.op \in {"mkdir", "dirprop"} => c.path \in DOMAIN dirOps
    /\ c.op = "delete" => c.path \in deletes
    /\ c.op = "copy" => c \in Range(copies) \/ CopyTaken(c)

\* Every change has had its effect or is still to be folded.
AllTaken ==
    pc \notin {"ask", "failed"} => \A c \in Asked : c \in Range(todo) \/ Taken(c)

\* Copies are looked at after all changes have been folded.
NoCopiesYet ==
    pc \in {"ask", "fold"} =>
       /\ \A p \in DOMAIN fileOps : fileOps[p].action # "copy"
       /\ \A p \in DOMAIN dirOps : dirOps[p].action # "copy"

Gathered == FromAsked /\ AllTaken /\ NoCopiesYet

LEMMA GatheredInit == Init => Gathered
  <1> SUFFICES ASSUME Init PROVE Gathered
    OBVIOUS
  <1>1. /\ changes = <<>> /\ todo = <<>> /\ copies = <<>> /\ DOMAIN fileOps = {}
        /\ DOMAIN dirOps = {} /\ deletes = {} /\ pc = "ask"
    BY DEF Init
  <1>2. Asked = {} /\ Range(todo) = {} /\ Range(copies) = {}
    BY <1>1, RangeOne DEF Asked
  <1> QED BY <1>1, <1>2 DEF Gathered, FromAsked, AllTaken, NoCopiesYet

\* What a step that leaves the changes alone does to an operation.
LEMMA FromKept ==
    ASSUME UNCHANGED <<base, changes>>
    PROVE  /\ Asked' = Asked
           /\ \A p, op : FileFrom(p, op)' <=> FileFrom(p, op)
           /\ \A p, op : DirFrom(p, op)' <=> DirFrom(p, op)
           /\ \A p : DeleteFrom(p)' <=> DeleteFrom(p)
  BY DEF Asked, FileFrom, DirFrom, DeleteFrom, IsCopy, IsFileChange, IsDirChange, KindAt

LEMMA OpFrom ==
    ASSUME NEW p
    PROVE  /\ p \in DOMAIN fileOps => OpAt(fileOps, p) = fileOps[p]
           /\ p \notin DOMAIN fileOps => OpAt(fileOps, p) = NoOp
           /\ p \in DOMAIN dirOps => OpAt(dirOps, p) = dirOps[p]
           /\ p \notin DOMAIN dirOps => OpAt(dirOps, p) = NoOp
           /\ NoOp.action = "none" /\ NoOp.from = Root
  BY DEF OpAt, NoOp

LEMMA OpFields ==
    ASSUME NEW o \in OpType, NEW a, NEW m, NEW n
    PROVE  /\ [o EXCEPT !.action = a, !.mode = m].action = a
           /\ [o EXCEPT !.action = a, !.mode = m].from = o.from
           /\ [o EXCEPT !.action = a, !.from = m].action = a
           /\ [o EXCEPT !.action = a, !.from = m].from = m
           /\ [o EXCEPT !.props = n].action = o.action
           /\ [o EXCEPT !.props = n].from = o.from
  BY DEF OpType

\* An operation is put at a path where the others stay.
LEMMA FileOpsKept ==
    ASSUME NEW p, NEW op, fileOps' = Put(fileOps, p, op), FileFrom(p, op),
           \A q \in DOMAIN fileOps : FileFrom(q, fileOps[q])
    PROVE  \A q \in DOMAIN fileOps' : FileFrom(q, fileOps'[q])
  BY DEF Put

LEMMA DirOpsKept ==
    ASSUME NEW p, NEW op, dirOps' = Put(dirOps, p, op), DirFrom(p, op),
           \A q \in DOMAIN dirOps : DirFrom(q, dirOps[q])
    PROVE  \A q \in DOMAIN dirOps' : DirFrom(q, dirOps'[q])
  BY DEF Put

LEMMA GatheredFold == ASSUME Shape, Gathered, FoldsOne PROVE Gathered'
  <1> DEFINE c == Head(todo)
  <1>1. /\ pc = "fold" /\ pc' = "fold" /\ todo # <<>> /\ ~Refused(c) /\ Fold(c)
        /\ todo' = Tail(todo) /\ UNCHANGED <<base, stream, changes>>
    BY DEF FoldsOne
  <1>2. /\ c \in Changes /\ c \in Range(todo) /\ Range(todo) = {c} \cup Range(todo')
    BY <1>1, RangeSplit DEF Shape
  <1>3. /\ \A d \in Asked : stream => d.op = "put"
        /\ c \in Asked /\ Range(todo') \subseteq Asked /\ Range(copies) \subseteq Asked
        /\ \A p \in DOMAIN fileOps : FileFrom(p, fileOps[p]) /\ fileOps[p].action # "copy"
        /\ \A p \in DOMAIN dirOps : DirFrom(p, dirOps[p]) /\ dirOps[p].action # "copy"
        /\ \A d \in deletes : DeleteFrom(d)
        /\ \A d \in Asked : d \in Range(todo) \/ Taken(d)
    BY <1>1, <1>2 DEF Gathered, FromAsked, AllTaken, NoCopiesYet
  <1>4. /\ Asked' = Asked
        /\ \A p, op : FileFrom(p, op)' <=> FileFrom(p, op)
        /\ \A p, op : DirFrom(p, op)' <=> DirFrom(p, op)
        /\ \A p : DeleteFrom(p)' <=> DeleteFrom(p)
    BY <1>1, FromKept
  <1>5. /\ OpAt(fileOps, c.path) \in OpType /\ OpAt(dirOps, c.path) \in OpType
        /\ copies \in Seq(CopyChanges)
    <2>1. Folded0 \in Nat
      BY DEF Shape, Folded0
    <2> QED BY <2>1, OpAtType DEF Shape
  <1>6. /\ OpAt(fileOps, c.path).action # "copy" /\ OpAt(fileOps, c.path).from = Root
        /\ OpAt(dirOps, c.path).action # "copy"
    BY <1>3, OpFrom DEF FileFrom
  <1> HIDE DEF c
  <1>7. SUFFICES
          /\ Range(copies') \subseteq Asked
          /\ \A p \in DOMAIN fileOps' : FileFrom(p, fileOps'[p]) /\ fileOps'[p].action # "copy"
          /\ \A p \in DOMAIN dirOps' : DirFrom(p, dirOps'[p]) /\ dirOps'[p].action # "copy"
          /\ \A d \in deletes' : DeleteFrom(d)
          /\ DOMAIN fileOps \subseteq DOMAIN fileOps' /\ DOMAIN dirOps \subseteq DOMAIN dirOps'
          /\ deletes \subseteq deletes' /\ Range(copies) \subseteq Range(copies')
          /\ c.op \in {"put", "fileprop"} => c.path \in DOMAIN fileOps'
          /\ c.op \in {"mkdir", "dirprop"} => c.path \in DOMAIN dirOps'
          /\ c.op = "delete" => c.path \in deletes'
          /\ c.op = "copy" => c \in Range(copies')
    <2>1. FromAsked'
      BY <1>1, <1>3, <1>4, <1>7 DEF FromAsked
    <2>2. NoCopiesYet'
      BY <1>7 DEF NoCopiesYet
    <2>3. ASSUME NEW d \in Asked, d = c \/ Taken(d) PROVE Taken(d)'
      <3>1. ~CopyTaken(d)
        BY <1>3 DEF CopyTaken
      <3> QED BY <1>7, <2>3, <3>1 DEF Taken
    <2>4. AllTaken'
      BY <1>2, <1>3, <1>4, <2>3 DEF AllTaken
    <2> QED BY <2>1, <2>2, <2>4 DEF Gathered
  <1>8. CASE c.op = "put" /\ fileOps' = Put(fileOps, c.path, PutOp(c))
             /\ UNCHANGED <<dirOps, deletes, copies>>
    <2>1. PutOp(c).action = "put" /\ PutOp(c).from = Root
      BY <1>5, <1>6, OpFields DEF PutOp
    <2>2. IsFileChange(c)
      BY <1>8 DEF IsFileChange
    <2>3. FileFrom(c.path, PutOp(c))
      BY <1>3, <2>1, <2>2 DEF FileFrom
    <2>4. \A p \in DOMAIN fileOps' : FileFrom(p, fileOps'[p])
      BY <1>3, <1>8, <2>3, FileOpsKept
    <2>5. \A p \in DOMAIN fileOps' : fileOps'[p].action # "copy"
      BY <1>3, <1>8, <2>1 DEF Put
    <2>6. DOMAIN fileOps' = DOMAIN fileOps \cup {c.path}
      BY <1>8 DEF Put
    <2> QED BY <1>3, <1>8, <2>4, <2>5, <2>6
  <1>9. CASE c.op = "fileprop" /\ fileOps' = Put(fileOps, c.path, PropOp(fileOps, c))
             /\ UNCHANGED <<dirOps, deletes, copies>>
    <2>1. PropOp(fileOps, c).action # "copy" /\ PropOp(fileOps, c).from = Root
      BY <1>5, <1>6, OpFields DEF PropOp
    <2>2. IsFileChange(c)
      BY <1>9 DEF IsFileChange
    <2>3. FileFrom(c.path, PropOp(fileOps, c))
      BY <1>3, <2>1, <2>2 DEF FileFrom
    <2>4. \A p \in DOMAIN fileOps' : FileFrom(p, fileOps'[p])
      BY <1>3, <1>9, <2>3, FileOpsKept
    <2>5. \A p \in DOMAIN fileOps' : fileOps'[p].action # "copy"
      BY <1>3, <1>9, <2>1 DEF Put
    <2>6. DOMAIN fileOps' = DOMAIN fileOps \cup {c.path}
      BY <1>9 DEF Put
    <2> QED BY <1>3, <1>9, <2>4, <2>5, <2>6
  <1>10. ASSUME NEW op, c.op \in {"mkdir", "dirprop"}, dirOps' = Put(dirOps, c.path, op),
                op.action # "copy", UNCHANGED <<fileOps, deletes, copies>>
         PROVE  /\ \A p \in DOMAIN dirOps' : DirFrom(p, dirOps'[p]) /\ dirOps'[p].action # "copy"
                /\ DOMAIN dirOps' = DOMAIN dirOps \cup {c.path}
    <2>1. IsDirChange(c)
      BY <1>10 DEF IsDirChange, IsFileChange
    <2>2. DirFrom(c.path, op)
      BY <1>3, <1>10, <2>1 DEF DirFrom
    <2>3. \A p \in DOMAIN dirOps' : DirFrom(p, dirOps'[p])
      BY <1>3, <1>10, <2>2, DirOpsKept
    <2>4. \A p \in DOMAIN dirOps' : dirOps'[p].action # "copy"
      BY <1>3, <1>10 DEF Put
    <2>5. DOMAIN dirOps' = DOMAIN dirOps \cup {c.path}
      BY <1>10 DEF Put
    <2> QED BY <2>3, <2>4, <2>5
  <1>11. CASE c.op = "mkdir" /\ dirOps' = Put(dirOps, c.path, MkdirOp(c))
              /\ UNCHANGED <<fileOps, deletes, copies>>
    <2>1. MkdirOp(c).action # "copy"
      BY <1>5, OpFields DEF MkdirOp
    <2> QED BY <1>3, <1>10, <1>11, <2>1
  <1>12. CASE c.op = "dirprop" /\ dirOps' = Put(dirOps, c.path, PropOp(dirOps, c))
              /\ UNCHANGED <<fileOps, deletes, copies>>
    <2>1. PropOp(dirOps, c).action # "copy"
      BY <1>5, <1>6, OpFields DEF PropOp
    <2> QED BY <1>3, <1>10, <1>12, <2>1
  <1>13. CASE c.op = "delete" /\ deletes' = deletes \cup {c.path}
              /\ UNCHANGED <<fileOps, dirOps, copies>>
    <2>1. DeleteFrom(c.path)
      BY <1>3, <1>13 DEF DeleteFrom
    <2> QED BY <1>3, <1>13, <2>1
  <1>14. CASE c.op = "copy" /\ copies' = Append(copies, c)
              /\ UNCHANGED <<fileOps, dirOps, deletes>>
    <2>1. Range(copies') = Range(copies) \cup {c}
      <3>1. copies \in Seq(Changes) /\ <<c>> \in Seq(Changes) /\ copies' = copies \o <<c>>
        <4>1. CopyChanges \subseteq Changes
          BY DEF CopyChanges
        <4> QED BY <1>2, <1>5, <1>14, <4>1
      <3>2. Range(<<c>>) = {c}
        BY RangeOne
      <3>3. Range(copies \o <<c>>) = Range(copies) \cup Range(<<c>>)
        BY <3>1, RangeCat
      <3> QED BY <3>1, <3>2, <3>3
    <2> QED BY <1>3, <1>14, <2>1
  <1> QED BY <1>1, <1>8, <1>9, <1>11, <1>12, <1>13, <1>14 DEF Fold

LEMMA GatheredCopy == ASSUME Shape, Gathered, CopiesOne PROVE Gathered'
  <1>0. PICK c : c = Head(copies)
    OBVIOUS
  <1>1. /\ c \in CopyChanges /\ copies' = Tail(copies) /\ pc = "copies" /\ pc' = "copies"
        /\ UNCHANGED <<base, stream, changes, todo, deletes>>
        /\ \/ /\ KindAt(base, c.from) = "file" /\ OpAt(fileOps, c.path).action = "none"
              /\ fileOps' = Put(fileOps, c.path, CopyOp(fileOps, c)) /\ dirOps' = dirOps
           \/ /\ KindAt(base, c.from) = "dir" /\ OpAt(dirOps, c.path).action = "none"
              /\ dirOps' = Put(dirOps, c.path, CopyOp(dirOps, c)) /\ fileOps' = fileOps
    BY <1>0, CopyEffect
  <1>2. Range(copies) = {c} \cup Range(copies') /\ c \in Range(copies)
    <2>1. copies # <<>> /\ copies \in Seq(CopyChanges)
      BY DEF CopiesOne, Shape
    <2> QED BY <1>0, <1>1, <2>1, RangeSplit
  <1>3. /\ \A d \in Asked : stream => d.op = "put"
        /\ c \in Asked /\ Range(todo) \subseteq Asked /\ Range(copies') \subseteq Asked
        /\ \A p \in DOMAIN fileOps : FileFrom(p, fileOps[p])
        /\ \A p \in DOMAIN dirOps : DirFrom(p, dirOps[p])
        /\ \A d \in deletes : DeleteFrom(d)
        /\ \A d \in Asked : d \in Range(todo) \/ Taken(d)
    BY <1>1, <1>2 DEF Gathered, FromAsked, AllTaken
  <1>4. /\ Asked' = Asked
        /\ \A p, op : FileFrom(p, op)' <=> FileFrom(p, op)
        /\ \A p, op : DirFrom(p, op)' <=> DirFrom(p, op)
        /\ \A p : DeleteFrom(p)' <=> DeleteFrom(p)
    BY <1>1, FromKept
  <1>5. OpAt(fileOps, c.path) \in OpType /\ OpAt(dirOps, c.path) \in OpType
    <2>1. Folded0 \in Nat
      BY DEF Shape, Folded0
    <2> QED BY <2>1, OpAtType DEF Shape
  <1>6. c.op = "copy"
    BY <1>1 DEF CopyChanges
  <1>7. /\ CopyOp(fileOps, c).action = "copy" /\ CopyOp(fileOps, c).from = c.from
        /\ CopyOp(dirOps, c).action = "copy" /\ CopyOp(dirOps, c).from = c.from
    BY <1>5, OpFields DEF CopyOp
  <1>8. SUFFICES
          /\ \A p \in DOMAIN fileOps' : FileFrom(p, fileOps'[p])
          /\ \A p \in DOMAIN dirOps' : DirFrom(p, dirOps'[p])
          /\ \A p \in DOMAIN fileOps : p \in DOMAIN fileOps'
                /\ (fileOps[p].action = "copy" => fileOps'[p] = fileOps[p])
          /\ \A p \in DOMAIN dirOps : p \in DOMAIN dirOps'
                /\ (dirOps[p].action = "copy" => dirOps'[p] = dirOps[p])
          /\ CopyTaken(c)'
    <2>1. FromAsked'
      BY <1>1, <1>3, <1>4, <1>8 DEF FromAsked
    <2>2. ASSUME NEW d \in Asked, Taken(d) PROVE Taken(d)'
      <3>1. CopyTaken(d) => CopyTaken(d)'
        BY <1>1, <1>8 DEF CopyTaken, KindAt
      <3> QED BY <1>1, <1>2, <1>8, <2>2, <3>1 DEF Taken
    <2>3. AllTaken'
      BY <1>1, <1>3, <1>4, <2>2 DEF AllTaken
    <2> QED BY <1>1, <2>1, <2>3 DEF Gathered, NoCopiesYet
  <1>9. CASE /\ KindAt(base, c.from) = "file" /\ OpAt(fileOps, c.path).action = "none"
             /\ fileOps' = Put(fileOps, c.path, CopyOp(fileOps, c)) /\ dirOps' = dirOps
    <2>1. IsFileChange(c) /\ IsCopy(c, "file", c.path, CopyOp(fileOps, c).from)
      BY <1>6, <1>7, <1>9 DEF IsFileChange, IsCopy
    <2>2. FileFrom(c.path, CopyOp(fileOps, c))
      BY <1>3, <1>7, <2>1 DEF FileFrom
    <2>3. \A p \in DOMAIN fileOps' : FileFrom(p, fileOps'[p])
      BY <1>3, <1>9, <2>2, FileOpsKept
    <2>4. /\ c.path \in DOMAIN fileOps' /\ fileOps'[c.path] = CopyOp(fileOps, c)
          /\ \A p \in DOMAIN fileOps : p \in DOMAIN fileOps'
                /\ (p # c.path => fileOps'[p] = fileOps[p])
      BY <1>9 DEF Put
    <2>5. c.path \in DOMAIN fileOps => fileOps[c.path].action = "none"
      BY <1>9, OpFrom
    <2>6. CopyTaken(c)'
      BY <1>1, <1>7, <1>9, <2>4 DEF CopyTaken, KindAt
    <2> QED BY <1>3, <1>9, <2>3, <2>4, <2>5, <2>6
  <1>10. CASE /\ KindAt(base, c.from) = "dir" /\ OpAt(dirOps, c.path).action = "none"
              /\ dirOps' = Put(dirOps, c.path, CopyOp(dirOps, c)) /\ fileOps' = fileOps
    <2>1. IsDirChange(c) /\ IsCopy(c, "dir", c.path, CopyOp(dirOps, c).from)
      BY <1>6, <1>7, <1>10 DEF IsDirChange, IsFileChange, IsCopy
    <2>2. DirFrom(c.path, CopyOp(dirOps, c))
      BY <1>1, <1>3, <1>7, <2>1 DEF DirFrom, CopyChanges
    <2>3. \A p \in DOMAIN dirOps' : DirFrom(p, dirOps'[p])
      BY <1>3, <1>10, <2>2, DirOpsKept
    <2>4. /\ c.path \in DOMAIN dirOps' /\ dirOps'[c.path] = CopyOp(dirOps, c)
          /\ \A p \in DOMAIN dirOps : p \in DOMAIN dirOps'
                /\ (p # c.path => dirOps'[p] = dirOps[p])
      BY <1>10 DEF Put
    <2>5. c.path \in DOMAIN dirOps => dirOps[c.path].action = "none"
      BY <1>10, OpFrom
    <2>6. CopyTaken(c)'
      BY <1>1, <1>7, <1>10, <2>4 DEF CopyTaken, KindAt
    <2> QED BY <1>3, <1>10, <2>3, <2>4, <2>5, <2>6
  <1> QED BY <1>1, <1>9, <1>10

LEMMA GatheredStep == ASSUME Shape, Gathered, [Next]_vars PROVE Gathered'
  <1>1. CASE UNCHANGED vars
    <2>1. UNCHANGED <<base, stream, changes, todo, pc, fileOps, dirOps, deletes, copies>>
      BY <1>1 DEF vars, plan
    <2>2. /\ Asked' = Asked
          /\ \A p, op : FileFrom(p, op)' <=> FileFrom(p, op)
          /\ \A p, op : DirFrom(p, op)' <=> DirFrom(p, op)
          /\ \A p : DeleteFrom(p)' <=> DeleteFrom(p)
      BY <2>1, FromKept
    <2>3. \A c : Taken(c)' <=> Taken(c)
      BY <2>1 DEF Taken, CopyTaken, KindAt
    <2> QED BY <2>1, <2>2, <2>3 DEF Gathered, FromAsked, AllTaken, NoCopiesYet
  <1>2. CASE Asks
    <2>1. PICK new \in Seq(Menu) : Ask(new) /\ \A c \in Range(new) : stream => c.op = "put"
      BY <1>2 DEF Asks
    <2>2. /\ pc = "ask" /\ changes' = changes \o new
          /\ UNCHANGED <<base, stream, todo, pc, fileOps, dirOps, deletes, copies>>
      BY <2>1 DEF Ask, plan
    <2>3. Asked' = Asked \cup Range(new)
      <3>1. new \in Seq(Changes) /\ changes \in Seq(Changes)
        BY MenuAssumption DEF Shape
      <3> QED BY <2>2, <3>1, RangeCat DEF Asked
    <2>4. /\ DOMAIN fileOps' = {} /\ DOMAIN dirOps' = {} /\ deletes' = {}
          /\ todo' = <<>> /\ copies' = <<>>
      BY <2>2 DEF Shape
    <2> QED BY <2>1, <2>2, <2>3, <2>4, RangeOne DEF Gathered, FromAsked, AllTaken, NoCopiesYet
  <1>3. CASE Begins
    <2>1. /\ pc = "ask" /\ pc' = "fold" /\ todo' = changes
          /\ UNCHANGED <<base, stream, changes, fileOps, dirOps, deletes, copies>>
      BY <1>3 DEF Begins, plan
    <2>2. /\ DOMAIN fileOps' = {} /\ DOMAIN dirOps' = {} /\ deletes' = {} /\ copies' = <<>>
          /\ Asked' = Asked /\ Range(todo') = Asked /\ Range(copies') = {}
      BY <2>1, RangeOne DEF Shape, Asked
    <2> QED BY <2>1, <2>2 DEF Gathered, FromAsked, AllTaken, NoCopiesYet
  <1>4. CASE Fails \/ FoldEnds \/ ConflictFree \/ Plans \/ Resolves \/ OpenRoot \/ Walk
             \/ CloseAll \/ Apply
    <2>1. /\ UNCHANGED <<base, stream, changes, todo, fileOps, dirOps, deletes, copies>>
          /\ pc' \notin {"ask", "fold"} /\ (pc' # "failed" => pc \notin {"ask", "failed"})
      BY <1>4 DEF Fails, Fail, FoldEnds, ConflictFree, GoOn, Plans, Resolves, OpenRoot, Walk,
                  CloseAll, Apply, plan
    <2>2. /\ Asked' = Asked
          /\ \A p, op : FileFrom(p, op)' <=> FileFrom(p, op)
          /\ \A p, op : DirFrom(p, op)' <=> DirFrom(p, op)
          /\ \A p : DeleteFrom(p)' <=> DeleteFrom(p)
      BY <2>1, FromKept
    <2>3. \A c : Taken(c)' <=> Taken(c)
      BY <2>1 DEF Taken, CopyTaken, KindAt
    <2> QED BY <2>1, <2>2, <2>3 DEF Gathered, FromAsked, AllTaken, NoCopiesYet
  <1>5. CASE FoldsOne
    BY <1>5, GatheredFold
  <1>6. CASE CopiesOne
    BY <1>6, GatheredCopy
  <1> QED BY <1>1, <1>2, <1>3, <1>4, <1>5, <1>6, StepKinds DEF Shape

-----------------------------------------------------------------------------
(* What has been looked at on the way to the walk.                         *)

Ready == {"sort", "walk", "drive", "committed", "rejected"}

Planned ==
    /\ dirPlans = [d \in Required |-> IF KindAt(base, d) = "dir" THEN "open" ELSE "add"]
    /\ \A d \in Required : ~DirRefused(d)

Checked ==
    /\ pc = "copies" => ~stream
    /\ pc \notin {"ask", "fold", "failed"} => todo = <<>>
    /\ pc \notin {"ask", "fold", "copies", "failed"} => copies = <<>> /\ ~Conflict
    /\ pc \in Ready \/ (stream /\ pc = "plan") => ~Unresolved
    /\ pc \in Ready \/ (~stream /\ pc = "resolve") => Planned

Untouched ==
    /\ pc \notin {"drive", "committed", "rejected"} => txn = base /\ held = <<>>
    /\ pc \notin {"walk", "drive", "committed", "rejected"}
       => opened = <<>> /\ tokens = [dir |-> 0, file |-> 0]
    /\ DOMAIN dirPlans \subseteq Paths /\ Range(dirPlans) \subseteq {"open", "add"}

LEMMA TaskIs ==
    ASSUME NEW t \in Tasks
    PROVE  /\ t.kind \in {"dir", "file", "delete"}
           /\ t = [kind |-> t.kind, path |-> t.path]
           /\ t.kind = "dir" <=> t.path \in DOMAIN dirOps /\ t = [kind |-> "dir", path |-> t.path]
           /\ t.kind = "file" => t.path \in DOMAIN fileOps
           /\ t.kind = "delete" => t.path \in deletes
  BY DEF Tasks

LEMMA TaskTypes ==
    ASSUME Shape, NEW t \in Tasks
    PROVE  /\ t.path \in Paths \cup {Root} /\ (t.kind # "dir" => t.path \in Paths)
           /\ Dirs(t.kind, t.path) \in Seq(Paths)
           /\ \A d : d \in Range(Dirs(t.kind, t.path))
                     <=> d \in Paths /\ (Inside(t.path, d) \/ (t.kind = "dir" /\ t.path = d))
  <1>1. t.path \in Paths \cup {Root} /\ (t.kind # "dir" => t.path \in Paths)
    BY TaskIs DEF Shape, OpsOK
  <1>2. CASE t.kind = "dir"
    <2>1. Dirs(t.kind, t.path) = DirPrefixes(t.path)
      BY <1>2 DEF Dirs
    <2> QED BY <1>1, <1>2, <2>1, PrefixesAre DEF AtOrIn
  <1>3. CASE t.kind # "dir"
    <2>1. Dirs(t.kind, t.path) = DirPrefixes(Parent(t.path))
      BY <1>3 DEF Dirs
    <2>2. /\ Parent(t.path) \in Paths \cup {Root}
          /\ \A d \in Seq(Names) : AtOrIn(Parent(t.path), d) <=> Inside(t.path, d)
      BY <1>1, <1>3, ParentIs
    <2>3. /\ DirPrefixes(Parent(t.path)) \in Seq(Paths)
          /\ \A d : d \in Range(DirPrefixes(Parent(t.path)))
                    <=> d \in Paths /\ AtOrIn(Parent(t.path), d)
      BY <2>2, PrefixesAre
    <2>4. \A d \in Paths : d \in Seq(Names)
      BY PathIsSeq
    <2> QED BY <1>1, <1>3, <2>1, <2>2, <2>3, <2>4
  <1> QED BY <1>1, <1>2, <1>3

LEMMA RequiredIs ==
    ASSUME Shape
    PROVE  /\ Required \subseteq Paths
           /\ \A d : d \in Required <=>
                 /\ d \in Paths
                 /\ \E t \in Tasks : Inside(t.path, d) \/ (t.kind = "dir" /\ t.path = d)
  <1>1. \A d : d \in Required <=> \E t \in Tasks : d \in Range(Dirs(t.kind, t.path))
    BY DEF Required
  <1> QED BY <1>1, TaskTypes

LEMMA CheckedInit == Init => Checked /\ Untouched
  <1> SUFFICES ASSUME Init PROVE Checked /\ Untouched
    OBVIOUS
  <1>1. pc = "ask" /\ txn = base /\ held = <<>> /\ opened = <<>> /\ dirPlans = <<>>
        /\ tokens = [dir |-> 0, file |-> 0]
    BY DEF Init
  <1>2. Range(dirPlans) = {} /\ DOMAIN dirPlans = {}
    BY <1>1, RangeOne
  <1> QED BY <1>1, <1>2 DEF Checked, Untouched, Ready

LEMMA StaticKept ==
    ASSUME UNCHANGED <<base, fileOps, dirOps, deletes>>
    PROVE  /\ Conflict' <=> Conflict
           /\ Unresolved' <=> Unresolved
           /\ Tasks' = Tasks /\ Required' = Required
           /\ \A d : DirRefused(d)' <=> DirRefused(d)
           /\ \A t, p : KindAt(t, p)' = KindAt(t, p)
           /\ dirPlans' = dirPlans => (Planned' <=> Planned)
  BY DEF Conflict, Touched, CopiedDirs, Unresolved, FileRefused, Tasks, Required, DirRefused,
         KindAt, OpAt, Planned

\* A stream has files alone: nothing is deleted and nothing is copied.
LEMMA StreamIsPlain ==
    ASSUME Shape, FromAsked, stream
    PROVE  copies = <<>> /\ ~Conflict
  <1>1. deletes = {} /\ DOMAIN dirOps = {}
    <2>1. \A d : ~DeleteFrom(d)
      BY DEF FromAsked, DeleteFrom
    <2>2. \A p : ~DirFrom(p, dirOps[p])
      BY DEF FromAsked, DirFrom, IsDirChange, IsFileChange
    <2> QED BY <2>1, <2>2 DEF FromAsked
  <1>2. Range(copies) = {}
    <2>1. ASSUME NEW c \in Range(copies) PROVE FALSE
      <3>1. c \in CopyChanges
        BY DEF Shape, Range
      <3> QED BY <3>1 DEF FromAsked, CopyChanges
    <2> QED BY <2>1
  <1>3. copies = <<>>
    BY <1>2, RangeOne DEF Shape
  <1> QED BY <1>1, <1>3 DEF Conflict, CopiedDirs

LEMMA CheckedStep == ASSUME Shape, Gathered, Checked, [Next]_vars PROVE Checked'
  <1>0. FromAsked /\ stream \in BOOLEAN
    BY DEF Gathered, Shape
  <1>1. CASE UNCHANGED vars
    <2>1. UNCHANGED <<base, stream, todo, pc, fileOps, dirOps, deletes, copies, dirPlans>>
      BY <1>1 DEF vars, plan, walk
    <2> QED BY <2>1, StaticKept DEF Checked
  <1>2. CASE Asks \/ Begins \/ Fails \/ FoldsOne \/ CopiesOne
    <2>1. pc' \in {"ask", "fold", "failed", "copies"}
          /\ (pc' = "copies" => pc = "copies" /\ UNCHANGED <<todo, stream>>)
      BY <1>2, CopyEffect DEF Asks, Ask, Begins, Fails, Fail, FoldsOne
    <2> QED BY <2>1 DEF Checked, Ready
  <1>3. CASE FoldEnds
    <2>1. /\ UNCHANGED <<base, stream, todo, fileOps, dirOps, deletes, copies, dirPlans>>
          /\ todo = <<>> /\ pc' = IF stream THEN "resolve" ELSE "copies"
      BY <1>3 DEF FoldEnds, GoOn, plan, walk
    <2> QED BY <1>0, <2>1, StaticKept, StreamIsPlain DEF Checked, Ready
  <1>4. CASE ConflictFree
    <2>1. /\ UNCHANGED <<base, stream, todo, fileOps, dirOps, deletes, copies, dirPlans>>
          /\ pc = "copies" /\ copies = <<>> /\ ~Conflict /\ pc' = "plan"
      BY <1>4 DEF ConflictFree, GoOn, plan, walk
    <2>2. ~stream
      BY <2>1 DEF Checked
    <2> QED BY <2>1, <2>2, StaticKept DEF Checked, Ready
  <1>5. CASE Plans
    <2>1. /\ UNCHANGED <<base, stream, todo, fileOps, dirOps, deletes, copies>>
          /\ pc = "plan" /\ pc' = IF stream THEN "sort" ELSE "resolve"
          /\ \A d \in Required : ~DirRefused(d)
          /\ dirPlans' = [d \in Required |-> IF KindAt(base, d) = "dir" THEN "open" ELSE "add"]
      BY <1>5 DEF Plans, plan
    <2>2. /\ Conflict' <=> Conflict
          /\ Unresolved' <=> Unresolved
          /\ Required' = Required
          /\ \A d : DirRefused(d)' <=> DirRefused(d)
      BY <2>1, StaticKept
    <2>3. Planned'
      BY <2>1, <2>2 DEF Planned, KindAt
    <2> QED BY <1>0, <2>1, <2>2, <2>3 DEF Checked, Ready
  <1>6. CASE Resolves
    <2>1. /\ UNCHANGED <<base, stream, todo, fileOps, dirOps, deletes, copies, dirPlans>>
          /\ pc = "resolve" /\ ~Unresolved /\ pc' = IF stream THEN "plan" ELSE "sort"
      BY <1>6 DEF Resolves, GoOn, plan, walk
    <2> QED BY <1>0, <2>1, StaticKept DEF Checked, Ready
  <1>7. CASE OpenRoot \/ Walk \/ CloseAll \/ Apply
    <2>1. /\ UNCHANGED <<base, stream, todo, fileOps, dirOps, deletes, copies, dirPlans>>
          /\ pc \in Ready /\ pc' \in Ready
      BY <1>7 DEF OpenRoot, Walk, CloseAll, Apply, plan, Ready
    <2> QED BY <2>1, StaticKept DEF Checked, Ready
  <1> QED BY <1>0, <1>1, <1>2, <1>3, <1>4, <1>5, <1>6, <1>7, StepKinds

LEMMA UntouchedStep == ASSUME Shape, Untouched, [Next]_vars PROVE Untouched'
  <1>1. CASE UNCHANGED vars
    <2>1. UNCHANGED <<base, pc, dirPlans, tokens, opened, txn, held>>
      BY <1>1 DEF vars, walk, server
    <2> QED BY <2>1 DEF Untouched
  <1>2. CASE Asks \/ Begins \/ Fails \/ FoldsOne \/ FoldEnds \/ CopiesOne \/ ConflictFree \/ Resolves
    <2>1. UNCHANGED <<base, dirPlans, tokens, opened, txn, held>>
          /\ pc \notin {"walk", "drive", "committed", "rejected"}
          /\ pc' \notin {"walk", "drive", "committed", "rejected"}
      BY <1>2, CopyEffect DEF Asks, Ask, Begins, Fails, Fail, FoldsOne, FoldEnds, ConflictFree,
                               Resolves, GoOn, walk, server
    <2> QED BY <2>1 DEF Untouched
  <1>3. CASE Plans
    <2>1. /\ UNCHANGED <<base, tokens, opened, txn, held>> /\ pc = "plan"
          /\ pc' \in {"sort", "resolve"}
          /\ dirPlans' = [d \in Required |-> IF KindAt(base, d) = "dir" THEN "open" ELSE "add"]
      BY <1>3 DEF Plans, server
    <2>2. DOMAIN dirPlans' \subseteq Paths /\ Range(dirPlans') \subseteq {"open", "add"}
      BY <2>1, RequiredIs DEF Range
    <2> QED BY <2>1, <2>2 DEF Untouched
  <1>4. CASE OpenRoot \/ Walk \/ CloseAll
    <2>1. /\ UNCHANGED <<base, dirPlans, txn, held>> /\ pc \in {"sort", "walk"}
          /\ pc' \in {"walk", "drive"}
      BY <1>4 DEF OpenRoot, Walk, CloseAll, server
    <2> QED BY <2>1 DEF Untouched
  <1>5. CASE Apply
    <2>1. UNCHANGED dirPlans /\ pc' \in {"drive", "committed", "rejected"}
      BY <1>5 DEF Apply
    <2> QED BY <2>1 DEF Untouched
  <1> QED BY <1>1, <1>2, <1>3, <1>4, <1>5, StepKinds DEF Shape

-----------------------------------------------------------------------------
(* What the changes say of the tree.                                       *)

\* Every change has been folded, and what was looked at allows the drive.
AllSet == Shape /\ Gathered /\ Checked /\ pc \in Ready

OpOf(t) == IF t.kind = "file" THEN fileOps[t.path] ELSE dirOps[t.path]
IsCopyTask(t) == t.kind # "delete" /\ OpOf(t).action = "copy"

LEMMA AskedTypes ==
    ASSUME Shape, NEW c \in Asked
    PROVE  /\ c \in Changes /\ c.op \in Ops /\ c.path \in Paths \cup {Root}
           /\ c.path \in Seq(Names) /\ c.from \in Paths
  <1>1. c \in Changes
    BY DEF Shape, Asked, Range
  <1> QED BY <1>1, PathIsSeq DEF Changes

LEMMA AllFolded ==
    ASSUME AllSet
    PROVE  /\ FromAsked /\ ~Conflict /\ ~Unresolved /\ Planned
           /\ \A c \in Asked : Taken(c) /\ (c.op = "copy" => CopyTaken(c))
  <1>1. todo = <<>> /\ copies = <<>> /\ ~Conflict /\ ~Unresolved /\ Planned
    BY DEF AllSet, Checked, Ready
  <1>2. Range(todo) = {} /\ Range(copies) = {}
    BY <1>1, RangeOne
  <1> QED BY <1>1, <1>2 DEF AllSet, Gathered, AllTaken, Taken, Ready

LEMMA TaskFromChange ==
    ASSUME AllSet, NEW t \in Tasks
    PROVE  \E c \in Asked :
              /\ c.path = t.path
              /\ t.kind = "file" => IsFileChange(c)
              /\ t.kind = "dir" => IsDirChange(c)
              /\ t.kind = "delete" => c.op = "delete"
  <1>1. FromAsked
    BY AllFolded
  <1>2. CASE t.kind = "file"
    BY <1>1, <1>2, TaskIs DEF FromAsked, FileFrom
  <1>3. CASE t.kind = "dir"
    BY <1>1, <1>3, TaskIs DEF FromAsked, DirFrom
  <1>4. CASE t.kind = "delete"
    BY <1>1, <1>4, TaskIs DEF FromAsked, DeleteFrom
  <1> QED BY <1>2, <1>3, <1>4, TaskIs

LEMMA ChangeHasTask ==
    ASSUME AllSet, NEW c \in Asked
    PROVE  \E t \in Tasks :
              /\ t.path = c.path
              /\ IsFileChange(c) => t.kind = "file"
              /\ IsDirChange(c) => t.kind = "dir"
              /\ c.op = "delete" => t.kind = "delete"
              /\ c.op = "copy" => IsCopyTask(t) /\ OpOf(t).from = c.from
  <1>1. Taken(c) /\ (c.op = "copy" => CopyTaken(c)) /\ c.op \in Ops
    BY AllFolded, AskedTypes DEF AllSet
  <1>2. ASSUME c.path \in DOMAIN fileOps
        PROVE  \E t \in Tasks : t.path = c.path /\ t.kind = "file" /\ OpOf(t) = fileOps[c.path]
    <2> DEFINE t == [kind |-> "file", path |-> c.path]
    <2>1. t \in Tasks /\ t.path = c.path /\ t.kind = "file"
      BY <1>2 DEF Tasks
    <2> QED BY <2>1 DEF OpOf
  <1>3. ASSUME c.path \in DOMAIN dirOps
        PROVE  \E t \in Tasks : t.path = c.path /\ t.kind = "dir" /\ OpOf(t) = dirOps[c.path]
    <2> DEFINE t == [kind |-> "dir", path |-> c.path]
    <2>1. t \in Tasks /\ t.path = c.path /\ t.kind = "dir"
      BY <1>3 DEF Tasks
    <2> QED BY <2>1 DEF OpOf
  <1>4. ASSUME c.path \in deletes
        PROVE  \E t \in Tasks : t.path = c.path /\ t.kind = "delete"
    <2> DEFINE t == [kind |-> "delete", path |-> c.path]
    <2>1. t \in Tasks /\ t.path = c.path /\ t.kind = "delete"
      BY <1>4 DEF Tasks
    <2> QED BY <2>1
  <1>5. CASE c.op \in {"put", "fileprop"}
    <2>1. ~IsDirChange(c)
      BY <1>5 DEF IsDirChange, IsFileChange
    <2> QED BY <1>1, <1>2, <1>5, <2>1 DEF Taken
  <1>6. CASE c.op \in {"mkdir", "dirprop"}
    <2>1. ~IsFileChange(c)
      BY <1>6 DEF IsFileChange
    <2> QED BY <1>1, <1>3, <1>6, <2>1 DEF Taken
  <1>7. CASE c.op = "delete"
    <2>1. ~IsFileChange(c) /\ ~IsDirChange(c)
      BY <1>7 DEF IsDirChange, IsFileChange
    <2> QED BY <1>1, <1>4, <1>7, <2>1 DEF Taken
  <1>8. CASE c.op = "copy" /\ KindAt(base, c.from) = "file"
    <2>1. ~IsDirChange(c) /\ c.path \in DOMAIN fileOps
          /\ fileOps[c.path].action = "copy" /\ fileOps[c.path].from = c.from
      BY <1>1, <1>8 DEF IsDirChange, IsFileChange, CopyTaken
    <2> QED BY <1>2, <1>8, <2>1 DEF IsCopyTask
  <1>9. CASE c.op = "copy" /\ KindAt(base, c.from) # "file"
    <2>1. ~IsFileChange(c) /\ c.path \in DOMAIN dirOps
          /\ dirOps[c.path].action = "copy" /\ dirOps[c.path].from = c.from
      BY <1>1, <1>9 DEF IsDirChange, IsFileChange, CopyTaken
    <2> QED BY <1>3, <1>9, <2>1 DEF IsCopyTask
  <1> QED BY <1>1, <1>5, <1>6, <1>7, <1>8, <1>9 DEF Ops

\* Nothing is done below a file, a deleted path or a copied directory, and nothing
\* else is done at a file or a deleted path.
LEMMA Apart ==
    ASSUME AllSet, Consistent, NEW t \in Tasks, NEW u \in Tasks
    PROVE  /\ u.kind # "dir" => ~Inside(t.path, u.path)
           /\ IsCopyTask(u) => ~Inside(t.path, u.path)
           /\ u.kind # "dir" /\ t.path = u.path => t = u
  <1>1. PICK c \in Asked :
           /\ c.path = t.path
           /\ t.kind = "file" => IsFileChange(c)
           /\ t.kind = "dir" => IsDirChange(c)
           /\ t.kind = "delete" => c.op = "delete"
    BY TaskFromChange
  <1>2. PICK d \in Asked :
           /\ d.path = u.path
           /\ u.kind = "file" => IsFileChange(d)
           /\ u.kind = "dir" => IsDirChange(d)
           /\ u.kind = "delete" => d.op = "delete"
    BY TaskFromChange
  <1>3. /\ t.kind \in {"dir", "file", "delete"} /\ u.kind \in {"dir", "file", "delete"}
        /\ t = [kind |-> t.kind, path |-> t.path] /\ u = [kind |-> u.kind, path |-> u.path]
    BY TaskIs
  <1>4. u.kind # "dir" => ~Inside(t.path, u.path)
    BY <1>1, <1>2, <1>3 DEF Consistent
  <1>5. ~Conflict
    BY AllFolded
  <1>6. ASSUME t.kind # "delete" PROVE t.path \in Touched
    BY <1>3, <1>6, TaskIs DEF Touched
  <1>7. ASSUME t.kind = "delete" PROVE t.path \in deletes
    BY <1>7, TaskIs
  <1>8. ASSUME IsCopyTask(u), u.kind = "dir" PROVE ~Inside(t.path, u.path)
    <2>1. u.path \in CopiedDirs
      BY <1>8, TaskIs DEF IsCopyTask, OpOf, CopiedDirs
    <2>2. t.path \in Touched \cup deletes
      BY <1>6, <1>7
    <2> QED BY <1>5, <2>1, <2>2 DEF Conflict
  <1>9. ASSUME u.kind # "dir", t.path = u.path PROVE t.kind = u.kind
    <2>1. CASE u.kind = "file"
      <3>1. t.kind # "dir"
        BY <1>1, <1>2, <1>9, <2>1 DEF Consistent
      <3>2. u.path \in Touched
        BY <2>1, TaskIs DEF Touched
      <3>3. t.kind # "delete"
        BY <1>5, <1>7, <1>9, <3>2 DEF Conflict
      <3> QED BY <1>3, <2>1, <3>1, <3>3
    <2>2. CASE u.kind = "delete"
      <3>1. u.path \in deletes
        BY <2>2, TaskIs
      <3> QED BY <1>5, <1>6, <1>9, <2>2, <3>1 DEF Conflict
    <2> QED BY <1>3, <1>9, <2>1, <2>2
  <1> QED BY <1>3, <1>4, <1>8, <1>9

LEMMA DeleteTask ==
    ASSUME NEW e \in deletes
    PROVE  \E u \in Tasks : u.kind = "delete" /\ u.path = e
  <1> DEFINE u == [kind |-> "delete", path |-> e]
  <1>1. u \in Tasks /\ u.path = e /\ u.kind = "delete"
    BY DEF Tasks
  <1> QED BY <1>1

LEMMA DeletedByTask ==
    ASSUME AllSet, NEW c \in Asked, c.op = "delete"
    PROVE  \E u \in Tasks : u.kind = "delete" /\ u.path = c.path
  BY ChangeHasTask

LEMMA TaskSeq ==
    ASSUME AllSet, NEW t \in Tasks
    PROVE  t.path \in Seq(Names)
  BY TaskTypes, PathIsSeq DEF AllSet

\* What is at or below a deleted path is to be gone.
LEMMA WantedGone ==
    ASSUME AllSet, NEW p \in Paths, NEW e \in deletes, AtOrIn(p, e)
    PROVE  Wanted(p) = "none"
  <1>1. DeleteFrom(e)
    BY AllFolded DEF FromAsked
  <1> QED BY <1>1 DEF DeleteFrom, Wanted, AtOrIn

\* A path with an operation on a file is to be a file.
LEMMA WantedFile ==
    ASSUME AllSet, Consistent, NEW t \in Tasks, t.kind = "file"
    PROVE  Wanted(t.path) = "file"
  <1>1. ASSUME NEW c \in Asked, c.op = "delete" PROVE ~(t.path = c.path \/ Inside(t.path, c.path))
    <2>1. PICK u \in Tasks : u.kind = "delete" /\ u.path = c.path
      BY <1>1, DeletedByTask
    <2> QED BY <2>1, Apart
  <1>2. \E c \in Asked : IsFileChange(c) /\ c.path = t.path
    BY TaskFromChange
  <1> QED BY <1>1, <1>2 DEF Wanted

\* A directory that a task walks through is to be a directory.
LEMMA WantedDir ==
    ASSUME AllSet, Consistent, NEW d \in Required
    PROVE  Wanted(d) = "dir" /\ d \notin DOMAIN fileOps
  <1>1. d \in Paths /\ d \in Seq(Names)
    BY RequiredIs, PathIsSeq DEF AllSet
  <1>2. PICK t \in Tasks : Inside(t.path, d) \/ (t.kind = "dir" /\ t.path = d)
    BY RequiredIs DEF AllSet
  <1>3. ASSUME NEW u \in Tasks, u.kind # "dir" PROVE ~(d = u.path \/ Inside(d, u.path))
    <2>1. t.path \in Seq(Names) /\ u.path \in Seq(Names)
      BY TaskSeq
    <2>2. ~Inside(t.path, u.path) /\ (t.path = u.path => t = u)
      BY <1>3, Apart
    <2>3. ASSUME Inside(t.path, d), d = u.path \/ Inside(d, u.path) PROVE FALSE
      BY <1>1, <2>1, <2>2, <2>3, InsideTransitive DEF AtOrIn
    <2>4. ASSUME t.kind = "dir", t.path = d, d = u.path \/ Inside(d, u.path) PROVE FALSE
      BY <1>3, <2>2, <2>4
    <2> QED BY <1>2, <2>3, <2>4
  <1>4. ASSUME NEW c \in Asked, c.op = "delete" PROVE ~(d = c.path \/ Inside(d, c.path))
    <2>1. PICK u \in Tasks : u.kind = "delete" /\ u.path = c.path
      BY <1>4, DeletedByTask
    <2> QED BY <1>3, <2>1
  <1>5. ASSUME NEW c \in Asked, IsFileChange(c) PROVE c.path # d
    <2>1. PICK u \in Tasks : u.kind = "file" /\ u.path = c.path
      BY <1>5, ChangeHasTask
    <2> QED BY <1>3, <2>1
  <1>6. \E c \in Asked : Inside(c.path, d) \/ (IsDirChange(c) /\ c.path = d)
    BY <1>2, TaskFromChange
  <1>7. d \notin DOMAIN fileOps
    <2>1. ASSUME d \in DOMAIN fileOps PROVE FALSE
      <3>1. FileFrom(d, fileOps[d])
        BY <2>1, AllFolded DEF FromAsked
      <3> QED BY <1>5, <3>1 DEF FileFrom
    <2> QED BY <2>1
  <1> QED BY <1>4, <1>5, <1>6, <1>7 DEF Wanted

\* Where p of a copy to d comes from.
CopiedFrom(from, p, d) == KindAt(base, from \o SubSeq(p, Len(d) + 1, Len(p)))

\* What lies inside a copy is to be what lies inside its source.
LEMMA WantedCopied ==
    ASSUME AllSet, Consistent, NEW t \in Tasks, IsCopyTask(t), NEW p \in Paths, Inside(p, t.path)
    PROVE  Wanted(p) = CopiedFrom(OpOf(t).from, p, t.path)
  <1>1. p \in Seq(Names) /\ t.path \in Seq(Names) /\ t.kind # "delete"
    BY PathIsSeq, TaskSeq DEF IsCopyTask
  <1>2. ASSUME NEW u \in Tasks PROVE ~Inside(u.path, p) /\ u.path # p
    <2>1. u.path \in Seq(Names) /\ ~Inside(u.path, t.path)
      BY Apart, TaskSeq
    <2> QED BY <1>1, <2>1, InsideTransitive DEF AtOrIn
  <1>3. ASSUME NEW u \in Tasks, Inside(p, u.path), u.kind # "dir" \/ IsCopyTask(u) PROVE u = t
    <2>1. /\ u.path \in Seq(Names) /\ ~Inside(u.path, t.path) /\ ~Inside(t.path, u.path)
          /\ (u.kind # "dir" /\ t.path = u.path => t = u)
          /\ (t.kind # "dir" /\ u.path = t.path => u = t)
      BY <1>3, Apart, TaskSeq
    <2>2. u.path = t.path
      BY <1>1, <1>3, <2>1, InsideTransitive DEF AtOrIn
    <2> QED BY <2>1, <2>2, TaskIs
  <1>4. ASSUME NEW c \in Asked, c.op = "delete" PROVE ~(p = c.path \/ Inside(p, c.path))
    <2>1. PICK u \in Tasks : u.kind = "delete" /\ u.path = c.path
      BY <1>4, DeletedByTask
    <2> QED BY <1>1, <1>2, <1>3, <2>1
  <1>5. ASSUME NEW c \in Asked PROVE c.path # p /\ ~Inside(c.path, p)
    <2>1. PICK u \in Tasks : u.path = c.path
      BY ChangeHasTask
    <2> QED BY <1>2, <2>1
  <1>6. \E c \in Asked : c.op = "copy" /\ Inside(p, c.path)
    <2>1. CASE t.kind = "file"
      <3>1. FileFrom(t.path, fileOps[t.path]) /\ fileOps[t.path].action = "copy"
        BY <2>1, AllFolded, TaskIs DEF FromAsked, IsCopyTask, OpOf
      <3> QED BY <3>1 DEF FileFrom, IsCopy
    <2>2. CASE t.kind = "dir"
      <3>1. DirFrom(t.path, dirOps[t.path]) /\ dirOps[t.path].action = "copy"
        BY <2>2, AllFolded, TaskIs DEF FromAsked, IsCopyTask, OpOf
      <3> QED BY <3>1 DEF DirFrom, IsCopy
    <2> QED BY <1>1, <2>1, <2>2, TaskIs
  <1>7. PICK c \in Asked :
           /\ c = CHOOSE x \in Asked : x.op = "copy" /\ Inside(p, x.path)
           /\ c.op = "copy" /\ Inside(p, c.path)
    BY <1>6
  <1>8. c.path = t.path /\ c.from = OpOf(t).from
    <2>1. PICK u \in Tasks : u.path = c.path /\ IsCopyTask(u) /\ OpOf(u).from = c.from
      BY <1>7, ChangeHasTask
    <2> QED BY <1>3, <1>7, <2>1
  <1>9. Wanted(p) = KindAt(base, c.from \o SubSeq(p, Len(c.path) + 1, Len(p)))
    BY <1>4, <1>5, <1>6, <1>7 DEF Wanted
  <1> QED BY <1>8, <1>9 DEF CopiedFrom

\* Everything else is to stay as it is.
LEMMA WantedElse ==
    ASSUME AllSet, NEW p \in Paths, p \notin Required, p \notin DOMAIN fileOps,
           \A e \in deletes : ~AtOrIn(p, e),
           \A u \in Tasks : IsCopyTask(u) => ~Inside(p, u.path)
    PROVE  Wanted(p) = base[p]
  <1>1. ASSUME NEW c \in Asked, c.op = "delete" PROVE ~(p = c.path \/ Inside(p, c.path))
    <2>1. c.path \in deletes
      BY <1>1, AllFolded DEF Taken
    <2> QED BY <2>1 DEF AtOrIn
  <1>2. ASSUME NEW c \in Asked
        PROVE  /\ ~(IsFileChange(c) /\ c.path = p)
               /\ ~(Inside(c.path, p) \/ (IsDirChange(c) /\ c.path = p))
               /\ ~(c.op = "copy" /\ Inside(p, c.path))
    <2>1. PICK u \in Tasks :
              /\ u.path = c.path
              /\ IsFileChange(c) => u.kind = "file"
              /\ IsDirChange(c) => u.kind = "dir"
              /\ c.op = "copy" => IsCopyTask(u)
      BY ChangeHasTask
    <2>2. ~Inside(u.path, p) /\ ~(u.kind = "dir" /\ u.path = p)
      BY RequiredIs DEF AllSet
    <2> QED BY <2>1, <2>2, TaskIs
  <1> QED BY <1>1, <1>2 DEF Wanted

-----------------------------------------------------------------------------
(* The server: what a command does to what is held and to a tree.          *)

HoldsAt(h, token, p) == token \in DOMAIN h /\ h[token] = p

\* Acceptable, of any held tokens and any tree.
Fine(c, h, x) ==
    /\ c.cmd \in Opens => /\ HoldsAt(h, c.parent, Parent(c.path)) /\ c.token \notin DOMAIN h
                          /\ x[c.path] = Expected(c.cmd)
    /\ c.cmd = "delete-entry" => HoldsAt(h, c.parent, Parent(c.path)) /\ x[c.path] # "none"
    /\ c.cmd \in Closes => /\ HoldsAt(h, c.token, c.path)
                           /\ \A t \in DOMAIN h : ~Inside(h[t], c.path)
    /\ c.cmd = "close-edit" => DOMAIN h = {}
    /\ c.cmd \notin Opens \cup Closes \cup {"open-root", "delete-entry", "close-edit"}
       => HoldsAt(h, c.token, c.path)

HeldAfter(c, h) ==
    IF c.cmd \in Opens \cup {"open-root"} THEN Put(h, c.token, c.path)
    ELSE IF c.cmd \in Closes THEN [t \in DOMAIN h \ {c.token} |-> h[t]]
    ELSE h

\* Entry, for the base revision b.
EntryIn(b, x, p, kind, from) ==
    [q \in Paths |->
       IF q = p THEN kind
       ELSE IF Inside(q, p) /\ from # Root
       THEN KindAt(b, from \o SubSeq(q, Len(p) + 1, Len(q)))
       ELSE x[q]]

TxnAfter(b, c, x) ==
    CASE c.cmd = "add-dir" -> EntryIn(b, x, c.path, "dir", c.from)
      [] c.cmd = "add-file" -> EntryIn(b, x, c.path, "file", c.from)
      [] c.cmd = "delete-entry" -> Without(x, c.path)
      [] OTHER -> x

LEMMA ServerIs ==
    ASSUME NEW c
    PROVE  /\ Acceptable(c) <=> Fine(c, held, txn)
           /\ Effect(c) <=> held' = HeldAfter(c, held) /\ txn' = TxnAfter(base, c, txn)
  <1>1. Acceptable(c) <=> Fine(c, held, txn)
    BY DEF Acceptable, Fine, HeldAt, HoldsAt, Free, Opens, Closes
  <1>2. Effect(c) <=> held' = HeldAfter(c, held) /\ txn' = TxnAfter(base, c, txn)
    BY DEF Effect, HeldAfter, TxnAfter, Entry, EntryIn
  <1> QED BY <1>1, <1>2

\* What is held and the tree go through hs and xs while the server applies cmds.
Runs(b, h, x, cmds, h1, x1, hs, xs) ==
    /\ hs[0] = h /\ xs[0] = x
    /\ hs[Len(cmds)] = h1 /\ xs[Len(cmds)] = x1
    /\ \A i \in 1 .. Len(cmds) :
          /\ Fine(cmds[i], hs[i - 1], xs[i - 1])
          /\ hs[i] = HeldAfter(cmds[i], hs[i - 1])
          /\ xs[i] = TxnAfter(b, cmds[i], xs[i - 1])

\* The commands cmds are accepted one after the other, from h and x to h1 and x1.
Accepts(b, h, x, cmds, h1, x1) == \E hs, xs : Runs(b, h, x, cmds, h1, x1, hs, xs)

LEMMA AcceptsNone ==
    ASSUME NEW b, NEW h, NEW x, NEW h1, NEW x1
    PROVE  Accepts(b, h, x, <<>>, h1, x1) <=> h1 = h /\ x1 = x
  <1>1. ASSUME Accepts(b, h, x, <<>>, h1, x1) PROVE h1 = h /\ x1 = x
    BY <1>1 DEF Accepts, Runs
  <1>2. Accepts(b, h, x, <<>>, h, x)
    <2> DEFINE hs == [i \in {0} |-> h]
               xs == [i \in {0} |-> x]
    <2>1. hs[0] = h /\ xs[0] = x /\ Len(<<>>) = 0
      OBVIOUS
    <2>2. \A i \in 1 .. Len(<<>>) : FALSE
      OBVIOUS
    <2> HIDE DEF hs, xs
    <2>3. Runs(b, h, x, <<>>, h, x, hs, xs)
      BY <2>1, <2>2 DEF Runs
    <2> QED BY <2>3 DEF Accepts
  <1> QED BY <1>1, <1>2

LEMMA AcceptsOne ==
    ASSUME NEW b, NEW h, NEW x, NEW c, Fine(c, h, x)
    PROVE  Accepts(b, h, x, <<c>>, HeldAfter(c, h), TxnAfter(b, c, x))
  <1> DEFINE hs == [i \in {0, 1} |-> IF i = 0 THEN h ELSE HeldAfter(c, h)]
             xs == [i \in {0, 1} |-> IF i = 0 THEN x ELSE TxnAfter(b, c, x)]
  <1>1. /\ hs[0] = h /\ hs[1] = HeldAfter(c, h) /\ xs[0] = x /\ xs[1] = TxnAfter(b, c, x)
        /\ Len(<<c>>) = 1 /\ <<c>>[1] = c
    OBVIOUS
  <1> HIDE DEF hs, xs
  <1>2. \A i \in 1 .. 1 : i = 1 /\ i - 1 = 0
    OBVIOUS
  <1>3. Runs(b, h, x, <<c>>, HeldAfter(c, h), TxnAfter(b, c, x), hs, xs)
    BY <1>1, <1>2 DEF Runs
  <1> QED BY <1>3 DEF Accepts

LEMMA AcceptsThen ==
    ASSUME NEW b, NEW h, NEW x, NEW h1, NEW x1, NEW h2, NEW x2,
           NEW S, NEW s \in Seq(S), NEW t \in Seq(S),
           Accepts(b, h, x, s, h1, x1), Accepts(b, h1, x1, t, h2, x2)
    PROVE  Accepts(b, h, x, s \o t, h2, x2)
  <1>1. PICK hs, xs :
           /\ hs[0] = h /\ xs[0] = x
           /\ hs[Len(s)] = h1 /\ xs[Len(s)] = x1
           /\ \A i \in 1 .. Len(s) :
                 /\ Fine(s[i], hs[i - 1], xs[i - 1])
                 /\ hs[i] = HeldAfter(s[i], hs[i - 1])
                 /\ xs[i] = TxnAfter(b, s[i], xs[i - 1])
    BY DEF Accepts, Runs
  <1>2. PICK gs, ys :
           /\ gs[0] = h1 /\ ys[0] = x1
           /\ gs[Len(t)] = h2 /\ ys[Len(t)] = x2
           /\ \A i \in 1 .. Len(t) :
                 /\ Fine(t[i], gs[i - 1], ys[i - 1])
                 /\ gs[i] = HeldAfter(t[i], gs[i - 1])
                 /\ ys[i] = TxnAfter(b, t[i], ys[i - 1])
    BY DEF Accepts, Runs
  <1>3. PICK n \in Nat, m \in Nat : n = Len(s) /\ m = Len(t)
    OBVIOUS
  <1>4. /\ Len(s \o t) = n + m
        /\ \A i \in 1 .. n : (s \o t)[i] = s[i]
        /\ \A i \in n + 1 .. n + m : (s \o t)[i] = t[i - n]
    BY <1>3
  <1> DEFINE ks == [i \in 0 .. n + m |-> IF i <= n THEN hs[i] ELSE gs[i - n]]
             zs == [i \in 0 .. n + m |-> IF i <= n THEN xs[i] ELSE ys[i - n]]
  <1>5. /\ \A i \in 0 .. n : ks[i] = hs[i] /\ zs[i] = xs[i]
        /\ \A i \in n .. n + m : ks[i] = gs[i - n] /\ zs[i] = ys[i - n]
    <2>1. ASSUME NEW i \in 0 .. n PROVE ks[i] = hs[i] /\ zs[i] = xs[i]
      OBVIOUS
    <2>2. ASSUME NEW i \in n .. n + m PROVE ks[i] = gs[i - n] /\ zs[i] = ys[i - n]
      <3>1. CASE i = n
        BY <1>1, <1>2, <1>3, <3>1
      <3>2. CASE i # n
        BY <3>2
      <3> QED BY <3>1, <3>2
    <2> QED BY <2>1, <2>2
  <1> HIDE DEF ks, zs
  <1>6. ks[0] = h /\ zs[0] = x /\ ks[n + m] = h2 /\ zs[n + m] = x2
    <2>1. 0 \in 0 .. n /\ n + m \in n .. n + m /\ (n + m) - n = m
      OBVIOUS
    <2> QED BY <1>1, <1>2, <1>3, <1>5, <2>1
  <1>7. ASSUME NEW i \in 1 .. n + m
        PROVE  /\ Fine((s \o t)[i], ks[i - 1], zs[i - 1])
               /\ ks[i] = HeldAfter((s \o t)[i], ks[i - 1])
               /\ zs[i] = TxnAfter(b, (s \o t)[i], zs[i - 1])
    <2>1. CASE i <= n
      <3>1. i \in 1 .. n /\ i \in 0 .. n /\ i - 1 \in 0 .. n
        BY <2>1
      <3>2. (s \o t)[i] = s[i] /\ ks[i] = hs[i] /\ ks[i - 1] = hs[i - 1]
            /\ zs[i] = xs[i] /\ zs[i - 1] = xs[i - 1]
        BY <1>4, <1>5, <3>1
      <3> QED BY <1>1, <1>3, <3>1, <3>2
    <2>2. CASE i > n
      <3>1. PICK j \in 1 .. m : j = i - n /\ i \in n + 1 .. n + m /\ i \in n .. n + m
                                /\ i - 1 \in n .. n + m /\ (i - 1) - n = j - 1
        BY <2>2
      <3>2. (s \o t)[i] = t[j] /\ ks[i] = gs[j] /\ ks[i - 1] = gs[j - 1]
            /\ zs[i] = ys[j] /\ zs[i - 1] = ys[j - 1]
        BY <1>4, <1>5, <3>1
      <3> QED BY <1>2, <1>3, <3>1, <3>2
    <2>3. i <= n \/ i > n
      BY <1>3
    <2> QED BY <2>1, <2>2, <2>3
  <1>8. Len(s \o t) = n + m
    BY <1>4
  <1>9. Runs(b, h, x, s \o t, h2, x2, ks, zs)
    BY <1>6, <1>7, <1>8 DEF Runs
  <1> QED BY <1>9 DEF Accepts

LEMMA AcceptsFirst ==
    ASSUME NEW b, NEW h, NEW x, NEW h2, NEW x2, NEW S, NEW s \in Seq(S), s # <<>>,
           Accepts(b, h, x, s, h2, x2)
    PROVE  /\ Fine(Head(s), h, x)
           /\ Accepts(b, HeldAfter(Head(s), h), TxnAfter(b, Head(s), x), Tail(s), h2, x2)
  <1>1. PICK hs, xs :
           /\ hs[0] = h /\ xs[0] = x
           /\ hs[Len(s)] = h2 /\ xs[Len(s)] = x2
           /\ \A i \in 1 .. Len(s) :
                 /\ Fine(s[i], hs[i - 1], xs[i - 1])
                 /\ hs[i] = HeldAfter(s[i], hs[i - 1])
                 /\ xs[i] = TxnAfter(b, s[i], xs[i - 1])
    BY DEF Accepts, Runs
  <1>2. PICK n \in Nat : n + 1 = Len(s)
    <2>1. Len(s) \in Nat /\ Len(s) # 0
      OBVIOUS
    <2> QED BY <2>1
  <1>3. /\ Head(s) = s[1] /\ Len(Tail(s)) = n
        /\ \A i \in 1 .. n : Tail(s)[i] = s[i + 1]
    BY <1>2
  <1>4. /\ Fine(s[1], h, x) /\ hs[1] = HeldAfter(s[1], h) /\ xs[1] = TxnAfter(b, s[1], x)
    <2>1. 1 \in 1 .. Len(s) /\ 1 - 1 = 0
      BY <1>2
    <2> QED BY <1>1, <2>1
  <1> DEFINE gs == [i \in 0 .. n |-> hs[i + 1]]
             ys == [i \in 0 .. n |-> xs[i + 1]]
  <1>5. \A i \in 0 .. n : gs[i] = hs[i + 1] /\ ys[i] = xs[i + 1]
    OBVIOUS
  <1> HIDE DEF gs, ys
  <1>6. gs[0] = hs[1] /\ ys[0] = xs[1] /\ gs[n] = h2 /\ ys[n] = x2
    <2>1. 0 \in 0 .. n /\ n \in 0 .. n /\ 0 + 1 = 1
      OBVIOUS
    <2> QED BY <1>1, <1>2, <1>5, <2>1
  <1>7. ASSUME NEW i \in 1 .. n
        PROVE  /\ Fine(Tail(s)[i], gs[i - 1], ys[i - 1])
               /\ gs[i] = HeldAfter(Tail(s)[i], gs[i - 1])
               /\ ys[i] = TxnAfter(b, Tail(s)[i], ys[i - 1])
    <2>1. PICK j \in 1 .. Len(s) : j = i + 1 /\ j - 1 = i /\ i \in 0 .. n /\ i - 1 \in 0 .. n
                                   /\ (i - 1) + 1 = i
      BY <1>2
    <2>2. Tail(s)[i] = s[j] /\ gs[i] = hs[j] /\ ys[i] = xs[j] /\ gs[i - 1] = hs[j - 1]
          /\ ys[i - 1] = xs[j - 1]
      BY <1>3, <1>5, <2>1
    <2> QED BY <1>1, <2>1, <2>2
  <1>8. Accepts(b, hs[1], xs[1], Tail(s), h2, x2)
    <2>1. Runs(b, hs[1], xs[1], Tail(s), h2, x2, gs, ys)
      BY <1>3, <1>6, <1>7 DEF Runs
    <2> QED BY <2>1 DEF Accepts
  <1> QED BY <1>3, <1>4, <1>8

\* Commands that change neither what is held nor the tree.
LEMMA AcceptsIdle ==
    ASSUME NEW b, NEW h, NEW x, NEW S, NEW s \in Seq(S),
           \A i \in 1 .. Len(s) : /\ Fine(s[i], h, x) /\ HeldAfter(s[i], h) = h
                                  /\ TxnAfter(b, s[i], x) = x
    PROVE  Accepts(b, h, x, s, h, x)
  <1> DEFINE hs == [i \in 0 .. Len(s) |-> h]
             xs == [i \in 0 .. Len(s) |-> x]
  <1>1. \A i \in 0 .. Len(s) : hs[i] = h /\ xs[i] = x
    OBVIOUS
  <1>2. Len(s) \in Nat
    OBVIOUS
  <1> HIDE DEF hs, xs
  <1>3. hs[0] = h /\ xs[0] = x /\ hs[Len(s)] = h /\ xs[Len(s)] = x
    BY <1>1, <1>2
  <1>4. \A i \in 1 .. Len(s) : hs[i] = h /\ xs[i] = x /\ hs[i - 1] = h /\ xs[i - 1] = x
    BY <1>1, <1>2
  <1>5. Runs(b, h, x, s, h, x, hs, xs)
    BY <1>3, <1>4 DEF Runs
  <1> QED BY <1>5 DEF Accepts

-----------------------------------------------------------------------------
(* Stacks of entries that are open.                                        *)

Tokens == {"r", "d", "f"} \X Nat
Entries == [path : Paths \cup {Root}, token : Tokens]

\* Open entries with different tokens, each one a name below the one before it.
Nested(s) ==
    /\ s \in Seq(Entries)
    /\ \A i, j \in 1 .. Len(s) : s[i].token = s[j].token => i = j
    /\ \A i \in 1 .. Len(s) : Len(s[i].path) = i - 1

TokensOf(s) == {s[i].token : i \in 1 .. Len(s)}

\* What the server holds for the entries of s.
HeldBy(s) ==
    [t \in TokensOf(s) |-> s[CHOOSE i \in 1 .. Len(s) : s[i].token = t].path]

LEMMA HeldByIs ==
    ASSUME NEW s, Nested(s)
    PROVE  /\ DOMAIN HeldBy(s) = TokensOf(s)
           /\ \A i \in 1 .. Len(s) : s[i].token \in TokensOf(s) /\ HeldBy(s)[s[i].token] = s[i].path
           /\ \A t \in TokensOf(s) : \E i \in 1 .. Len(s) : t = s[i].token /\ HeldBy(s)[t] = s[i].path
  <1>1. ASSUME NEW i \in 1 .. Len(s)
        PROVE  s[i].token \in TokensOf(s) /\ HeldBy(s)[s[i].token] = s[i].path
    <2>1. s[i].token \in TokensOf(s)
      BY DEF TokensOf
    <2>2. (CHOOSE j \in 1 .. Len(s) : s[j].token = s[i].token) = i
      BY DEF Nested
    <2> QED BY <2>1, <2>2 DEF HeldBy
  <1>2. \A t \in TokensOf(s) : \E i \in 1 .. Len(s) : t = s[i].token
    BY DEF TokensOf
  <1>3. DOMAIN HeldBy(s) = TokensOf(s)
    BY DEF HeldBy
  <1> QED BY <1>1, <1>2, <1>3

\* A function with those tokens and those paths is what is held.
LEMMA HeldByOnly ==
    ASSUME NEW s, Nested(s), NEW h, h = [t \in TokensOf(s) |-> h[t]],
           \A i \in 1 .. Len(s) : h[s[i].token] = s[i].path
    PROVE  h = HeldBy(s)
  <1>1. \A t \in TokensOf(s) : h[t] = HeldBy(s)[t]
    BY HeldByIs
  <1>2. HeldBy(s) = [t \in TokensOf(s) |-> HeldBy(s)[t]]
    BY DEF HeldBy
  <1> QED BY <1>1, <1>2

LEMMA NestedCut ==
    ASSUME NEW s, Nested(s), NEW n \in 0 .. Len(s)
    PROVE  /\ Nested(SubSeq(s, 1, n)) /\ Len(SubSeq(s, 1, n)) = n
           /\ \A i \in 1 .. n : SubSeq(s, 1, n)[i] = s[i]
           /\ TokensOf(SubSeq(s, 1, n)) = {s[i].token : i \in 1 .. n}
  <1>1. s \in Seq(Entries)
    BY DEF Nested
  <1>2. /\ SubSeq(s, 1, n) \in Seq(Entries) /\ Len(SubSeq(s, 1, n)) = n
        /\ \A i \in 1 .. n : SubSeq(s, 1, n)[i] = s[i]
    BY <1>1, Cut
  <1>3. \A i \in 1 .. n : i \in 1 .. Len(s)
    BY <1>1
  <1>4. Nested(SubSeq(s, 1, n))
    BY <1>2, <1>3 DEF Nested
  <1>5. TokensOf(SubSeq(s, 1, n)) = {s[i].token : i \in 1 .. n}
    BY <1>2 DEF TokensOf
  <1> QED BY <1>2, <1>4, <1>5

\* The innermost entry is closed.
LEMMA LastCloses ==
    ASSUME NEW s, Nested(s), NEW n \in Nat, Len(s) = n + 1, NEW c, c.cmd \in Closes,
           c.path = s[n + 1].path, c.token = s[n + 1].token, NEW x
    PROVE  /\ Fine(c, HeldBy(s), x)
           /\ HeldAfter(c, HeldBy(s)) = HeldBy(SubSeq(s, 1, n))
  <1>1. /\ s[n + 1].token \in TokensOf(s) /\ HeldBy(s)[s[n + 1].token] = s[n + 1].path
        /\ DOMAIN HeldBy(s) = TokensOf(s)
        /\ n + 1 \in 1 .. Len(s)
    <2>1. n + 1 \in 1 .. Len(s)
      OBVIOUS
    <2> QED BY <2>1, HeldByIs
  <1>2. HoldsAt(HeldBy(s), c.token, c.path)
    BY <1>1 DEF HoldsAt
  <1>3. ASSUME NEW t \in DOMAIN HeldBy(s) PROVE ~Inside(HeldBy(s)[t], c.path)
    <2>1. PICK i \in 1 .. Len(s) : HeldBy(s)[t] = s[i].path
      BY <1>1, HeldByIs
    <2>2. Len(s[i].path) = i - 1 /\ Len(c.path) = n
      BY <1>1 DEF Nested
    <2>3. ~(i - 1 > n)
      OBVIOUS
    <2> QED BY <2>1, <2>2, <2>3 DEF Inside
  <1>4. c.cmd \notin Opens \cup {"open-root"} /\ c.cmd \notin {"open-root", "delete-entry"}
    BY DEF Closes, Opens
  <1>5. Fine(c, HeldBy(s), x)
    BY <1>2, <1>3 DEF Fine, Closes, Opens
  <1>7. HeldAfter(c, HeldBy(s)) = [t \in TokensOf(s) \ {c.token} |-> HeldBy(s)[t]]
    BY <1>1, <1>4 DEF HeldAfter
  <1>8. n \in 0 .. Len(s)
    OBVIOUS
  <1>9. /\ Nested(SubSeq(s, 1, n)) /\ Len(SubSeq(s, 1, n)) = n
        /\ \A i \in 1 .. n : SubSeq(s, 1, n)[i] = s[i]
        /\ TokensOf(SubSeq(s, 1, n)) = {s[i].token : i \in 1 .. n}
    BY <1>8, NestedCut
  <1>10. TokensOf(s) \ {c.token} = TokensOf(SubSeq(s, 1, n))
    <2>1. \A i \in 1 .. n : i \in 1 .. Len(s) /\ i # n + 1
      OBVIOUS
    <2>2. \A i \in 1 .. n : s[i].token # s[n + 1].token
      BY <1>1, <2>1 DEF Nested
    <2>3. \A i \in 1 .. Len(s) : i \in 1 .. n \/ i = n + 1
      OBVIOUS
    <2> QED BY <1>9, <2>1, <2>2, <2>3 DEF TokensOf
  <1> DEFINE h == [t \in TokensOf(s) \ {c.token} |-> HeldBy(s)[t]]
  <1>11. \A i \in 1 .. n : h[s[i].token] = s[i].path
    <2>1. ASSUME NEW i \in 1 .. n PROVE h[s[i].token] = s[i].path
      <3>1. i \in 1 .. Len(s)
        OBVIOUS
      <3>2. HeldBy(s)[s[i].token] = s[i].path
        BY <3>1, HeldByIs
      <3>3. s[i].token \in TokensOf(SubSeq(s, 1, n))
        BY <1>9
      <3> QED BY <1>10, <3>2, <3>3
    <2> QED BY <2>1
  <1>12. h = HeldBy(SubSeq(s, 1, n))
    <2>1. h = [t \in TokensOf(SubSeq(s, 1, n)) |-> h[t]]
      BY <1>10
    <2>2. \A i \in 1 .. Len(SubSeq(s, 1, n)) : h[SubSeq(s, 1, n)[i].token] = SubSeq(s, 1, n)[i].path
      BY <1>9, <1>11
    <2> HIDE DEF h
    <2>3. Nested(SubSeq(s, 1, n))
      BY <1>9
    <2> QED BY <2>1, <2>2, <2>3, HeldByOnly, Zenon
  <1> QED BY <1>5, <1>7, <1>12

\* An entry is opened or added below the innermost one.
LEMMA NextOpens ==
    ASSUME NEW s, Nested(s), NEW n \in Nat, Len(s) = n + 1, NEW c, c.cmd \in Opens,
           c.path = s[n + 1].path, c.token = s[n + 1].token, n > 0,
           c.parent = s[n].token, Parent(c.path) = s[n].path,
           NEW x, x[c.path] = Expected(c.cmd)
    PROVE  /\ Fine(c, HeldBy(SubSeq(s, 1, n)), x)
           /\ HeldAfter(c, HeldBy(SubSeq(s, 1, n))) = HeldBy(s)
  <1> DEFINE r == SubSeq(s, 1, n)
  <1>1. n \in 0 .. Len(s) /\ n \in 1 .. n /\ n + 1 \in 1 .. Len(s)
        /\ \A i \in 1 .. Len(s) : i \in 1 .. n \/ i = n + 1
    OBVIOUS
  <1>2. /\ Nested(r) /\ Len(r) = n
        /\ \A i \in 1 .. n : r[i] = s[i]
        /\ TokensOf(r) = {s[i].token : i \in 1 .. n}
    BY <1>1, NestedCut
  <1> HIDE DEF r
  <1>3. /\ DOMAIN HeldBy(r) = TokensOf(r)
        /\ \A i \in 1 .. n : s[i].token \in TokensOf(r) /\ HeldBy(r)[s[i].token] = s[i].path
    <2>1. /\ DOMAIN HeldBy(r) = TokensOf(r)
          /\ \A i \in 1 .. Len(r) : r[i].token \in TokensOf(r) /\ HeldBy(r)[r[i].token] = r[i].path
      BY <1>2, HeldByIs
    <2> QED BY <1>2, <2>1
  <1>4. HoldsAt(HeldBy(r), c.parent, Parent(c.path))
    BY <1>1, <1>3 DEF HoldsAt
  <1>5. c.token \notin TokensOf(r)
    <2>1. \A i \in 1 .. n : i \in 1 .. Len(s) /\ i # n + 1
      OBVIOUS
    <2>2. \A i \in 1 .. n : s[i].token # s[n + 1].token
      BY <1>1, <2>1 DEF Nested
    <2> QED BY <1>2, <2>2
  <1>6. Fine(c, HeldBy(r), x)
    BY <1>3, <1>4, <1>5 DEF Fine, Opens, Closes
  <1>7. HeldAfter(c, HeldBy(r)) = Put(HeldBy(r), c.token, c.path)
    BY DEF HeldAfter
  <1> DEFINE h == Put(HeldBy(r), c.token, c.path)
  <1>8. h = [t \in TokensOf(r) \cup {c.token} |-> IF t = c.token THEN c.path ELSE HeldBy(r)[t]]
    BY <1>3 DEF Put
  <1>9. TokensOf(r) \cup {c.token} = TokensOf(s)
    BY <1>1, <1>2 DEF TokensOf
  <1>10. h = [t \in TokensOf(s) |-> h[t]]
    BY <1>8, <1>9
  <1>11. ASSUME NEW i \in 1 .. Len(s) PROVE h[s[i].token] = s[i].path
    <2>1. CASE i = n + 1
      BY <1>8, <2>1
    <2>2. CASE i \in 1 .. n
      <3>1. s[i].token \in TokensOf(r) /\ s[i].token # c.token
        BY <1>3, <1>5, <2>2
      <3> QED BY <1>3, <1>8, <2>2, <3>1
    <2> QED BY <1>1, <2>1, <2>2
  <1> HIDE DEF h
  <1>12. h = HeldBy(s)
    BY <1>10, <1>11, HeldByOnly
  <1> QED BY <1>6, <1>7, <1>12 DEF h, r

LEMMA CutTwice ==
    ASSUME NEW S, NEW s \in Seq(S), NEW n \in 0 .. Len(s), NEW m \in 0 .. n
    PROVE  SubSeq(SubSeq(s, 1, n), 1, m) = SubSeq(s, 1, m)
  <1>1. m \in 0 .. Len(s) /\ \A i \in 1 .. m : i \in 1 .. n
    OBVIOUS
  <1>2. /\ SubSeq(s, 1, n) \in Seq(S) /\ Len(SubSeq(s, 1, n)) = n
        /\ \A i \in 1 .. n : SubSeq(s, 1, n)[i] = s[i]
    BY Cut
  <1>3. /\ SubSeq(s, 1, m) \in Seq(S) /\ Len(SubSeq(s, 1, m)) = m
        /\ \A i \in 1 .. m : SubSeq(s, 1, m)[i] = s[i]
    BY <1>1, Cut
  <1>4. PICK r \in Seq(S) : r = SubSeq(s, 1, n)
    BY <1>2
  <1>5. /\ SubSeq(r, 1, m) \in Seq(S) /\ Len(SubSeq(r, 1, m)) = m
        /\ \A i \in 1 .. m : SubSeq(r, 1, m)[i] = r[i]
    BY <1>2, <1>4, Cut
  <1>6. \A i \in 1 .. m : SubSeq(r, 1, m)[i] = SubSeq(s, 1, m)[i]
    BY <1>1, <1>2, <1>3, <1>4, <1>5
  <1>7. SubSeq(r, 1, m) = SubSeq(s, 1, m)
    BY <1>3, <1>5, <1>6, SameSeq
  <1> QED BY <1>4, <1>7

\* The entries above the first k are closed, innermost first.
LEMMA ClosesAccepted ==
    ASSUME NEW s, Nested(s), NEW n \in Nat, n = Len(s), NEW k \in 0 .. n,
           NEW cmds, Len(cmds) = n - k,
           \A i \in 1 .. n - k : /\ cmds[i].cmd \in Closes
                                 /\ cmds[i].path = s[n + 1 - i].path
                                 /\ cmds[i].token = s[n + 1 - i].token,
           NEW b, NEW x
    PROVE  Accepts(b, HeldBy(s), x, cmds, HeldBy(SubSeq(s, 1, k)), x)
  <1> DEFINE hs == [i \in 0 .. n - k |-> HeldBy(SubSeq(s, 1, n - i))]
             xs == [i \in 0 .. n - k |-> x]
  <1>1. \A i \in 0 .. n - k : hs[i] = HeldBy(SubSeq(s, 1, n - i)) /\ xs[i] = x
    OBVIOUS
  <1> HIDE DEF hs, xs
  <1>2. s \in Seq(Entries) /\ SubSeq(s, 1, n) = s
    BY DEF Nested
  <1>3. hs[0] = HeldBy(s) /\ xs[0] = x /\ hs[n - k] = HeldBy(SubSeq(s, 1, k)) /\ xs[n - k] = x
    <2>1. 0 \in 0 .. n - k /\ n - k \in 0 .. n - k /\ n - 0 = n /\ n - (n - k) = k
      OBVIOUS
    <2> QED BY <1>1, <1>2, <2>1
  <1>4. ASSUME NEW i \in 1 .. n - k
        PROVE  /\ Fine(cmds[i], hs[i - 1], xs[i - 1])
               /\ hs[i] = HeldAfter(cmds[i], hs[i - 1])
               /\ xs[i] = TxnAfter(b, cmds[i], xs[i - 1])
    <2>0. n - i \in Nat
      OBVIOUS
    <2>a. PICK m \in Nat : m = n - i
      BY <2>0
    <2>1. m \in Nat /\ m = n - i /\ m + 1 = n + 1 - i /\ n - (i - 1) = m + 1
      BY <2>a
    <2>2. m + 1 \in 0 .. n /\ m + 1 \in 1 .. m + 1 /\ m \in 0 .. m + 1 /\ i - 1 \in 0 .. n - k
          /\ i \in 0 .. n - k
      BY <2>1
    <2>3. PICK r : r = SubSeq(s, 1, m + 1)
      OBVIOUS
    <2>4. Nested(r) /\ Len(r) = m + 1 /\ r[m + 1] = s[m + 1]
      BY <2>2, <2>3, NestedCut
    <2>5. SubSeq(r, 1, m) = SubSeq(s, 1, m)
      BY <1>2, <2>2, <2>3, CutTwice
    <2>c. PICK c : c = cmds[i]
      OBVIOUS
    <2>6. c.cmd \in Closes /\ c.path = r[m + 1].path /\ c.token = r[m + 1].token
      BY <2>1, <2>4, <2>c
    <2>7. /\ Fine(c, HeldBy(r), x)
          /\ HeldAfter(c, HeldBy(r)) = HeldBy(SubSeq(r, 1, m))
      BY <2>1, <2>4, <2>6, LastCloses
    <2>9. TxnAfter(b, c, x) = x
      BY <2>6 DEF TxnAfter, Closes
    <2>8. hs[i - 1] = HeldBy(r) /\ hs[i] = HeldBy(SubSeq(r, 1, m)) /\ xs[i - 1] = x /\ xs[i] = x
      BY <1>1, <2>1, <2>2, <2>3, <2>5
    <2> QED BY <2>7, <2>8, <2>9, <2>c
  <1>5. Runs(b, HeldBy(s), x, cmds, HeldBy(SubSeq(s, 1, k)), x, hs, xs)
    BY <1>3, <1>4 DEF Runs
  <1> QED BY <1>5 DEF Accepts

\* The entries above the first k are opened or added, outermost first.
LEMMA OpensAccepted ==
    ASSUME NEW s, Nested(s), NEW n \in Nat, n = Len(s), NEW k \in 1 .. n,
           NEW cmds, Len(cmds) = n - k, NEW xs, NEW b,
           \A i \in 1 .. n - k : /\ cmds[i].cmd \in Opens
                                 /\ cmds[i].path = s[k + i].path
                                 /\ cmds[i].token = s[k + i].token
                                 /\ cmds[i].parent = s[k + i - 1].token
                                 /\ Parent(cmds[i].path) = s[k + i - 1].path
                                 /\ xs[i - 1][cmds[i].path] = Expected(cmds[i].cmd)
                                 /\ xs[i] = TxnAfter(b, cmds[i], xs[i - 1])
    PROVE  Accepts(b, HeldBy(SubSeq(s, 1, k)), xs[0], cmds, HeldBy(s), xs[n - k])
  <1> DEFINE hs == [i \in 0 .. n - k |-> HeldBy(SubSeq(s, 1, k + i))]
  <1>1. \A i \in 0 .. n - k : hs[i] = HeldBy(SubSeq(s, 1, k + i))
    OBVIOUS
  <1> HIDE DEF hs
  <1>2. s \in Seq(Entries) /\ SubSeq(s, 1, n) = s
    BY DEF Nested
  <1>3. hs[0] = HeldBy(SubSeq(s, 1, k)) /\ hs[n - k] = HeldBy(s)
    <2>1. 0 \in 0 .. n - k /\ n - k \in 0 .. n - k /\ k + 0 = k /\ k + (n - k) = n
      OBVIOUS
    <2> QED BY <1>1, <1>2, <2>1
  <1>4. ASSUME NEW i \in 1 .. n - k
        PROVE  /\ Fine(cmds[i], hs[i - 1], xs[i - 1])
               /\ hs[i] = HeldAfter(cmds[i], hs[i - 1])
               /\ xs[i] = TxnAfter(b, cmds[i], xs[i - 1])
    <2>1. PICK m \in Nat : m = k + i - 1 /\ m > 0 /\ m + 1 = k + i /\ k + (i - 1) = m
      OBVIOUS
    <2>2. m + 1 \in 0 .. n /\ m + 1 \in 1 .. m + 1 /\ m \in 0 .. m + 1 /\ i - 1 \in 0 .. n - k
          /\ i \in 0 .. n - k /\ m \in 1 .. m + 1
      BY <2>1
    <2>3. PICK r : r = SubSeq(s, 1, m + 1)
      OBVIOUS
    <2>4. Nested(r) /\ Len(r) = m + 1 /\ r[m + 1] = s[m + 1] /\ r[m] = s[m]
      BY <2>2, <2>3, NestedCut
    <2>5. SubSeq(r, 1, m) = SubSeq(s, 1, m)
      BY <1>2, <2>2, <2>3, CutTwice
    <2>6. /\ cmds[i].cmd \in Opens
          /\ cmds[i].path = r[m + 1].path /\ cmds[i].token = r[m + 1].token
          /\ cmds[i].parent = r[m].token /\ Parent(cmds[i].path) = r[m].path
          /\ xs[i - 1][cmds[i].path] = Expected(cmds[i].cmd)
          /\ xs[i] = TxnAfter(b, cmds[i], xs[i - 1])
      BY <2>1, <2>4
    <2>7. /\ Fine(cmds[i], HeldBy(SubSeq(r, 1, m)), xs[i - 1])
          /\ HeldAfter(cmds[i], HeldBy(SubSeq(r, 1, m))) = HeldBy(r)
      BY <2>1, <2>4, <2>6, NextOpens
    <2>8. hs[i - 1] = HeldBy(SubSeq(r, 1, m)) /\ hs[i] = HeldBy(r)
      BY <1>1, <2>1, <2>2, <2>3, <2>5
    <2> QED BY <2>6, <2>7, <2>8
  <1>5. Runs(b, HeldBy(SubSeq(s, 1, k)), xs[0], cmds, HeldBy(s), xs[n - k], hs, xs)
    BY <1>3, <1>4 DEF Runs
  <1> QED BY <1>5 DEF Accepts

-----------------------------------------------------------------------------
(* The tree after a part of the drive.                                     *)

CopiesDir(d) == d \in DOMAIN dirOps /\ dirOps[d].action = "copy"

\* p is as it is to be once the directories of D have been opened or added and the
\* tasks of W are done.
SettledBy(D, W, p) ==
    \/ p \in D
    \/ \E d \in D : CopiesDir(d) /\ Inside(p, d)
    \/ \E u \in W : u.kind = "file" /\ (p = u.path \/ (IsCopyTask(u) /\ Inside(p, u.path)))
    \/ \E u \in W : u.kind = "delete" /\ AtOrIn(p, u.path)

TreeOf(D, W) == [p \in Paths |-> IF SettledBy(D, W, p) THEN Wanted(p) ELSE base[p]]

LEMMA DirOpIs ==
    ASSUME AllSet, NEW d, CopiesDir(d)
    PROVE  /\ d \in Required /\ dirOps[d].from \in Paths
           /\ \E t \in Tasks : t.path = d /\ t.kind = "dir" /\ IsCopyTask(t)
                               /\ OpOf(t).from = dirOps[d].from
  <1>1. DirFrom(d, dirOps[d]) /\ d \in DOMAIN dirOps /\ dirOps[d].action = "copy"
    BY AllFolded DEF CopiesDir, FromAsked
  <1>2. d \in Paths /\ dirOps[d].from \in Paths
    <2>1. PICK c \in Asked : c.from = dirOps[d].from
      BY <1>1 DEF DirFrom, IsCopy
    <2> QED BY <1>1, <2>1, AskedTypes DEF DirFrom, AllSet
  <1>3. PICK t \in Tasks : t = [kind |-> "dir", path |-> d]
    BY <1>1 DEF Tasks
  <1>4. t.path = d /\ t.kind = "dir" /\ IsCopyTask(t) /\ OpOf(t) = dirOps[d]
    BY <1>1, <1>3 DEF IsCopyTask, OpOf
  <1>5. d \in Required
    BY <1>2, <1>4, RequiredIs DEF AllSet
  <1> QED BY <1>2, <1>4, <1>5

LEMMA FileOpIs ==
    ASSUME AllSet, NEW t \in Tasks, t.kind = "file"
    PROVE  /\ t.path \in DOMAIN fileOps /\ t.path \in Paths /\ OpOf(t) = fileOps[t.path]
           /\ IsCopyTask(t) <=> fileOps[t.path].action = "copy"
           /\ IsCopyTask(t) => fileOps[t.path].from \in Paths /\ base[t.path] = "none"
           /\ ~IsCopyTask(t) => fileOps[t.path].from = Root
           /\ base[t.path] \in {"none", "file"} /\ KindAt(base, t.path) = base[t.path]
  <1>1. t.path \in DOMAIN fileOps /\ t.path \in Paths /\ OpOf(t) = fileOps[t.path]
    BY TaskIs, TaskTypes DEF OpOf, AllSet
  <1>2. IsCopyTask(t) <=> fileOps[t.path].action = "copy"
    BY <1>1 DEF IsCopyTask
  <1>3. FileFrom(t.path, fileOps[t.path])
    BY <1>1, AllFolded DEF FromAsked
  <1>4. IsCopyTask(t) => fileOps[t.path].from \in Paths
    BY <1>2, <1>3, AskedTypes DEF FileFrom, IsCopy, AllSet
  <1>5. KindAt(base, t.path) = base[t.path] /\ base[t.path] \in Kinds
    BY <1>1, RootIs DEF KindAt, AllSet, Shape
  <1>6. ~FileRefused(t.path)
    BY <1>1, AllFolded DEF Unresolved
  <1>7. base[t.path] \in {"none", "file"} /\ (IsCopyTask(t) => base[t.path] = "none")
    BY <1>2, <1>5, <1>6 DEF FileRefused, Kinds
  <1> QED BY <1>1, <1>2, <1>3, <1>4, <1>5, <1>7 DEF FileFrom

LEMMA RequiredPlans ==
    ASSUME AllSet, NEW d \in Required
    PROVE  /\ d \in Paths /\ dirPlans[d] \in {"open", "add"}
           /\ dirPlans[d] = "open" => base[d] = "dir" /\ ~CopiesDir(d)
           /\ dirPlans[d] = "add" => base[d] = "none"
  <1>1. d \in Paths
    BY RequiredIs DEF AllSet
  <1>2. KindAt(base, d) = base[d] /\ base[d] \in Kinds
    BY <1>1, RootIs DEF KindAt, AllSet, Shape
  <1>3. ~DirRefused(d) /\ dirPlans[d] = IF KindAt(base, d) = "dir" THEN "open" ELSE "add"
    BY AllFolded DEF Planned
  <1>4. CopiesDir(d) => OpAt(dirOps, d).action = "copy"
    BY DEF CopiesDir, OpAt
  <1> QED BY <1>1, <1>2, <1>3, <1>4 DEF DirRefused, Kinds

LEMMA TreeStarts ==
    ASSUME AllSet
    PROVE  TreeOf({}, {}) = base
  <1>1. \A p : ~SettledBy({}, {}, p)
    BY DEF SettledBy
  <1>2. base = [p \in Paths |-> base[p]]
    BY DEF AllSet, Shape
  <1> QED BY <1>1, <1>2 DEF TreeOf

\* A directory that exists is opened.
LEMMA TreeOpens ==
    ASSUME AllSet, Consistent, NEW D, NEW W, NEW d \in Required, dirPlans[d] = "open"
    PROVE  TreeOf(D, W)[d] = "dir" /\ TreeOf(D \cup {d}, W) = TreeOf(D, W)
  <1>1. d \in Paths /\ base[d] = "dir" /\ ~CopiesDir(d)
    BY RequiredPlans
  <1>2. Wanted(d) = "dir"
    BY WantedDir
  <1>3. \A p : SettledBy(D \cup {d}, W, p) <=> SettledBy(D, W, p) \/ p = d
    BY <1>1 DEF SettledBy
  <1> QED BY <1>1, <1>2, <1>3 DEF TreeOf

\* A directory that does not exist is added, or copied.
LEMMA TreeAdds ==
    ASSUME AllSet, Consistent, NEW D, NEW W, NEW d \in Required, dirPlans[d] = "add",
           ~SettledBy(D, W, d), NEW from,
           from = IF OpAt(dirOps, d).action = "copy" THEN dirOps[d].from ELSE Root
    PROVE  /\ TreeOf(D, W)[d] = "none"
           /\ EntryIn(base, TreeOf(D, W), d, "dir", from) = TreeOf(D \cup {d}, W)
  <1>1. d \in Paths /\ base[d] = "none"
    BY RequiredPlans
  <1>2. Wanted(d) = "dir"
    BY WantedDir
  <1>3. OpAt(dirOps, d).action = "copy" <=> CopiesDir(d)
    BY OpFrom DEF CopiesDir
  <1>4. \A p : SettledBy(D \cup {d}, W, p)
               <=> SettledBy(D, W, p) \/ p = d \/ (CopiesDir(d) /\ Inside(p, d))
    BY DEF SettledBy
  <1>5. ASSUME CopiesDir(d), NEW p \in Paths, Inside(p, d)
        PROVE  from # Root /\ Wanted(p) = KindAt(base, from \o SubSeq(p, Len(d) + 1, Len(p)))
    <2>1. PICK t \in Tasks : t.path = d /\ IsCopyTask(t) /\ OpOf(t).from = dirOps[d].from
      BY <1>5, DirOpIs
    <2>2. from = OpOf(t).from /\ from \in Paths
      BY <1>3, <1>5, <2>1, DirOpIs
    <2>3. Wanted(p) = CopiedFrom(from, p, d)
      BY <1>5, <2>1, <2>2, WantedCopied
    <2> QED BY <2>2, <2>3, RootIs DEF CopiedFrom
  <1>6. ~CopiesDir(d) => from = Root
    BY <1>3
  <1>7. ASSUME NEW p \in Paths
        PROVE  EntryIn(base, TreeOf(D, W), d, "dir", from)[p] = TreeOf(D \cup {d}, W)[p]
    <2>1. CASE p = d
      BY <1>2, <1>4, <2>1 DEF EntryIn, TreeOf
    <2>2. CASE p # d /\ CopiesDir(d) /\ Inside(p, d)
      BY <1>4, <1>5, <2>2 DEF EntryIn, TreeOf
    <2>3. CASE p # d /\ ~(CopiesDir(d) /\ Inside(p, d))
      BY <1>4, <1>6, <2>3 DEF EntryIn, TreeOf
    <2> QED BY <2>1, <2>2, <2>3
  <1>8. /\ EntryIn(base, TreeOf(D, W), d, "dir", from)
             = [p \in Paths |-> EntryIn(base, TreeOf(D, W), d, "dir", from)[p]]
        /\ TreeOf(D \cup {d}, W) = [p \in Paths |-> TreeOf(D \cup {d}, W)[p]]
    BY DEF EntryIn, TreeOf
  <1>9. TreeOf(D, W)[d] = "none"
    BY <1>1 DEF TreeOf
  <1> QED BY <1>7, <1>8, <1>9

\* A file is added, copied or opened.
LEMMA TreeFile ==
    ASSUME AllSet, Consistent, NEW D, NEW W, NEW t \in Tasks, t.kind = "file",
           ~SettledBy(D, W, t.path)
    PROVE  /\ base[t.path] = "none"
              => /\ TreeOf(D, W)[t.path] = "none"
                 /\ EntryIn(base, TreeOf(D, W), t.path, "file", fileOps[t.path].from)
                       = TreeOf(D, W \cup {t})
           /\ base[t.path] # "none"
              => TreeOf(D, W)[t.path] = "file" /\ TreeOf(D, W \cup {t}) = TreeOf(D, W)
  <1> DEFINE from == fileOps[t.path].from
             d == t.path
  <1>1. /\ d \in Paths /\ OpOf(t).from = from
        /\ IsCopyTask(t) => from \in Paths /\ base[d] = "none"
        /\ ~IsCopyTask(t) => from = Root
        /\ base[d] \in {"none", "file"}
    BY FileOpIs
  <1>2. Wanted(d) = "file"
    BY WantedFile
  <1>3. \A p : SettledBy(D, W \cup {t}, p)
               <=> SettledBy(D, W, p) \/ p = d \/ (IsCopyTask(t) /\ Inside(p, d))
    BY DEF SettledBy
  <1>4. TreeOf(D, W)[d] = base[d]
    BY <1>1 DEF TreeOf
  <1> HIDE DEF from, d
  <1>5. ASSUME IsCopyTask(t), NEW p \in Paths, Inside(p, d)
        PROVE  from # Root /\ Wanted(p) = KindAt(base, from \o SubSeq(p, Len(d) + 1, Len(p)))
    <2>1. Wanted(p) = CopiedFrom(from, p, d)
      BY <1>1, <1>5, WantedCopied DEF d
    <2> QED BY <1>1, <1>5, <2>1, RootIs DEF CopiedFrom
  <1>6. ASSUME NEW p \in Paths, base[d] = "none"
        PROVE  EntryIn(base, TreeOf(D, W), d, "file", from)[p] = TreeOf(D, W \cup {t})[p]
    <2>1. CASE p = d
      BY <1>2, <1>3, <2>1 DEF EntryIn, TreeOf
    <2>2. CASE p # d /\ IsCopyTask(t) /\ Inside(p, d)
      BY <1>3, <1>5, <2>2 DEF EntryIn, TreeOf
    <2>3. CASE p # d /\ ~(IsCopyTask(t) /\ Inside(p, d))
      BY <1>1, <1>3, <1>6, <2>3 DEF EntryIn, TreeOf
    <2> QED BY <2>1, <2>2, <2>3
  <1>7. ASSUME base[d] # "none" PROVE TreeOf(D, W \cup {t}) = TreeOf(D, W)
    <2>1. base[d] = Wanted(d) /\ ~IsCopyTask(t)
      BY <1>1, <1>2, <1>7
    <2> QED BY <1>3, <2>1 DEF TreeOf
  <1>8. /\ EntryIn(base, TreeOf(D, W), d, "file", from)
             = [p \in Paths |-> EntryIn(base, TreeOf(D, W), d, "file", from)[p]]
        /\ TreeOf(D, W \cup {t}) = [p \in Paths |-> TreeOf(D, W \cup {t})[p]]
    BY DEF EntryIn, TreeOf
  <1> QED BY <1>1, <1>4, <1>6, <1>7, <1>8 DEF d, from

\* A path is deleted, with what is inside.
LEMMA TreeDeletes ==
    ASSUME AllSet, Consistent, NEW D, NEW W, NEW t \in Tasks, t.kind = "delete",
           ~SettledBy(D, W, t.path)
    PROVE  /\ TreeOf(D, W)[t.path] # "none"
           /\ Without(TreeOf(D, W), t.path) = TreeOf(D, W \cup {t})
  <1>1. t.path \in deletes /\ t.path \in Paths
    BY TaskIs, TaskTypes DEF AllSet
  <1>2. base[t.path] # "none"
    <2>1. KindAt(base, t.path) = base[t.path]
      BY <1>1, RootIs DEF KindAt, AllSet, Shape
    <2> QED BY <1>1, <2>1, AllFolded DEF Unresolved
  <1>3. \A p : SettledBy(D, W \cup {t}, p) <=> SettledBy(D, W, p) \/ AtOrIn(p, t.path)
    BY DEF SettledBy
  <1>4. \A p \in Paths : AtOrIn(p, t.path) => Wanted(p) = "none"
    BY <1>1, WantedGone
  <1>5. TreeOf(D, W)[t.path] # "none"
    BY <1>1, <1>2 DEF TreeOf
  <1>6. ASSUME NEW p \in Paths
        PROVE  Without(TreeOf(D, W), t.path)[p] = TreeOf(D, W \cup {t})[p]
    BY <1>3, <1>4 DEF Without, TreeOf, AtOrIn
  <1>7. /\ Without(TreeOf(D, W), t.path) = [p \in Paths |-> Without(TreeOf(D, W), t.path)[p]]
        /\ TreeOf(D, W \cup {t}) = [p \in Paths |-> TreeOf(D, W \cup {t})[p]]
    BY DEF Without, TreeOf
  <1> QED BY <1>5, <1>6, <1>7

LEMMA TreeOfDirTask ==
    ASSUME NEW D, NEW W, NEW t, t.kind = "dir"
    PROVE  TreeOf(D, W \cup {t}) = TreeOf(D, W)
  <1>1. \A p : SettledBy(D, W \cup {t}, p) <=> SettledBy(D, W, p)
    BY DEF SettledBy
  <1> QED BY <1>1 DEF TreeOf

\* In the end every path is as it is to be.
LEMMA TreeEnds ==
    ASSUME AllSet, Consistent, NEW D, Required \subseteq D
    PROVE  TreeOf(D, Tasks) = [p \in Paths |-> Wanted(p)]
  <1>1. ASSUME NEW p \in Paths, ~SettledBy(D, Tasks, p) PROVE Wanted(p) = base[p]
    <2>1. p \notin Required
      BY <1>1 DEF SettledBy
    <2>2. ASSUME p \in DOMAIN fileOps PROVE FALSE
      <3>1. PICK t \in Tasks : t = [kind |-> "file", path |-> p]
        BY <2>2 DEF Tasks
      <3>2. t.kind = "file" /\ t.path = p
        BY <3>1
      <3> QED BY <1>1, <3>2 DEF SettledBy
    <2>3. ASSUME NEW e \in deletes PROVE ~AtOrIn(p, e)
      <3>1. PICK u \in Tasks : u.kind = "delete" /\ u.path = e
        BY DeleteTask
      <3> QED BY <1>1, <3>1 DEF SettledBy
    <2>4. ASSUME NEW u \in Tasks, IsCopyTask(u) PROVE ~Inside(p, u.path)
      <3>1. CASE u.kind = "file"
        BY <1>1, <2>4, <3>1 DEF SettledBy
      <3>2. CASE u.kind = "dir"
        <4>1. CopiesDir(u.path)
          BY <2>4, <3>2, TaskIs DEF CopiesDir, IsCopyTask, OpOf
        <4>2. u.path \in D
          BY <4>1, DirOpIs
        <4> QED BY <1>1, <4>1, <4>2 DEF SettledBy
      <3> QED BY <2>4, <3>1, <3>2, TaskIs DEF IsCopyTask
    <2> QED BY <2>1, <2>2, <2>3, <2>4, WantedElse
  <1> QED BY <1>1 DEF TreeOf

-----------------------------------------------------------------------------
(* The order of the tasks.                                                 *)

\* No change is about what lies inside a name while another one is about that name
\* continued by a byte below the slash (a/x and a.txt), or about what lies in there.
NoNeighbours == \A c, d \in Asked : Plain(c.path, d.path)

NotAfter(p, q) == p = q \/ Less(p, q)

LEMMA SeqGrows ==
    ASSUME NEW S, NEW T, S \subseteq T, NEW p \in Seq(S)
    PROVE  p \in Seq(T)
  <1>1. PICK n \in Nat : p \in [1 .. n -> S]
    BY SeqDef
  <1>2. p \in [1 .. n -> T]
    BY <1>1
  <1> QED BY <1>2, SeqDef

LEMMA PathOrder ==
    ASSUME AllSet, NoNeighbours, NEW t \in Tasks, NEW u \in Tasks
    PROVE  /\ Before(t.path, u.path) <=> Less(t.path, u.path)
           /\ t.path \in Seq(Names) /\ t.path \in Seq(Nat)
  <1>1. t.path \in Seq(Names) /\ u.path \in Seq(Names) /\ t.path \in Seq(Nat)
    BY TaskSeq, NameAssumption, SeqGrows
  <1>2. Plain(t.path, u.path)
    BY TaskFromChange DEF NoNeighbours
  <1> QED BY <1>1, <1>2, BeforeIsLess

\* InOrder, with the order of paths as sequences.
LEMMA InOrderIs ==
    ASSUME AllSet, NoNeighbours, NEW t \in Tasks, NEW u \in Tasks
    PROVE  InOrder(t, u) <=> \/ Less(t.path, u.path)
                             \/ t.path = u.path /\ TaskRank(t.kind) < TaskRank(u.kind)
  BY PathOrder DEF InOrder

LEMMA RankIs ==
    ASSUME NEW t \in Tasks, NEW u \in Tasks
    PROVE  TaskRank(t.kind) \in Nat /\ (TaskRank(t.kind) = TaskRank(u.kind) => t.kind = u.kind)
  BY TaskIs DEF TaskRank

LEMMA OrderIsTotal ==
    ASSUME AllSet, NoNeighbours
    PROVE  /\ \A t \in Tasks : ~InOrder(t, t)
           /\ \A t, u, v \in Tasks : InOrder(t, u) /\ InOrder(u, v) => InOrder(t, v)
           /\ \A t, u \in Tasks : t = u \/ InOrder(t, u) \/ InOrder(u, t)
  <1>1. ASSUME NEW t \in Tasks PROVE ~InOrder(t, t)
    <2>1. ~Less(t.path, t.path)
      BY PathOrder, LessIrreflexive
    <2>2. ~(TaskRank(t.kind) < TaskRank(t.kind))
      BY RankIs
    <2> QED BY <2>1, <2>2, InOrderIs
  <1>2. ASSUME NEW t \in Tasks, NEW u \in Tasks, NEW v \in Tasks, InOrder(t, u), InOrder(u, v)
        PROVE  InOrder(t, v)
    <2>1. t.path \in Seq(Nat) /\ u.path \in Seq(Nat) /\ v.path \in Seq(Nat)
      BY PathOrder
    <2>2. TaskRank(t.kind) \in Nat /\ TaskRank(u.kind) \in Nat /\ TaskRank(v.kind) \in Nat
      BY RankIs
    <2>3. /\ Less(t.path, u.path) \/ (t.path = u.path /\ TaskRank(t.kind) < TaskRank(u.kind))
          /\ Less(u.path, v.path) \/ (u.path = v.path /\ TaskRank(u.kind) < TaskRank(v.kind))
      BY <1>2, InOrderIs
    <2>4. Less(t.path, u.path) /\ Less(u.path, v.path) => Less(t.path, v.path)
      BY <2>1, LessTransitive
    <2>5. TaskRank(t.kind) < TaskRank(u.kind) /\ TaskRank(u.kind) < TaskRank(v.kind)
          => TaskRank(t.kind) < TaskRank(v.kind)
      BY <2>2
    <2>6. Less(t.path, v.path) \/ (t.path = v.path /\ TaskRank(t.kind) < TaskRank(v.kind))
      BY <2>3, <2>4, <2>5
    <2> QED BY <2>6, InOrderIs
  <1>3. ASSUME NEW t \in Tasks, NEW u \in Tasks PROVE t = u \/ InOrder(t, u) \/ InOrder(u, t)
    <2>1. t.path = u.path \/ Less(t.path, u.path) \/ Less(u.path, t.path)
      BY PathOrder, LessTotal
    <2>2. \/ TaskRank(t.kind) = TaskRank(u.kind)
          \/ TaskRank(t.kind) < TaskRank(u.kind) \/ TaskRank(u.kind) < TaskRank(t.kind)
      BY RankIs
    <2>3. t.path = u.path /\ TaskRank(t.kind) = TaskRank(u.kind) => t = u
      BY RankIs, TaskIs
    <2> QED BY <2>1, <2>2, <2>3, InOrderIs
  <1> QED BY <1>1, <1>2, <1>3

LEMMA TasksFinite == ASSUME Shape PROVE IsFiniteSet(Tasks)
  <1> DEFINE A == {[kind |-> "dir", path |-> p] : p \in DOMAIN dirOps}
             B == {[kind |-> "file", path |-> p] : p \in DOMAIN fileOps}
             C == {[kind |-> "delete", path |-> p] : p \in deletes}
             Of(k, D) == [p \in D |-> [kind |-> k, path |-> p]]
  <1>1. Of("dir", DOMAIN dirOps) \in Surjection(DOMAIN dirOps, A)
    BY DEF Surjection
  <1>2. Of("file", DOMAIN fileOps) \in Surjection(DOMAIN fileOps, B)
    BY DEF Surjection
  <1>3. Of("delete", deletes) \in Surjection(deletes, C)
    BY DEF Surjection
  <1> HIDE DEF A, B, C, Of
  <1>4. IsFiniteSet(A) /\ IsFiniteSet(B) /\ IsFiniteSet(C)
    BY <1>1, <1>2, <1>3, FS_Surjection DEF Shape, OpsOK
  <1>5. IsFiniteSet(A \cup B \cup C)
    BY <1>4, FS_Union
  <1> QED BY <1>5 DEF Tasks, A, B, C

Strictly(s) == \A i, j \in 1 .. Len(s) : i < j => InOrder(s[i], s[j])

\* Every task is walked, once, in order.
LEMMA SortedIs ==
    ASSUME AllSet, NoNeighbours
    PROVE  Sorted \in Seq(Tasks) /\ Strictly(Sorted) /\ Range(Sorted) = Tasks
  <1> DEFINE n == Cardinality(Tasks)
             R == {r \in Tasks \X Tasks : InOrder(r[1], r[2])}
  <1>1. IsFiniteSet(Tasks) /\ n \in Nat
    BY TasksFinite, FS_CardinalityType DEF AllSet
  <1>2. \A t, u \in Tasks : <<t, u>> \in R <=> InOrder(t, u)
    OBVIOUS
  <1> HIDE DEF R
  <1>3. /\ \A t \in Tasks : <<t, t>> \notin R
        /\ \A t, u, v \in Tasks : <<t, u>> \in R /\ <<u, v>> \in R => <<t, v>> \in R
        /\ \A t, u \in Tasks : t = u \/ <<t, u>> \in R \/ <<u, t>> \in R
    BY <1>2, OrderIsTotal
  <1>4. PICK e \in [1 .. n -> Tasks] : \A i, j \in 1 .. n : i < j => <<e[i], e[j]>> \in R
    BY <1>1, <1>3, SortedEnumeration
  <1>5. \A i, j \in DOMAIN e : i < j => InOrder(e[i], e[j])
    BY <1>2, <1>4
  <1> HIDE DEF n
  <1>6. /\ Sorted \in [1 .. n -> Tasks]
        /\ \A i, j \in DOMAIN Sorted : i < j => InOrder(Sorted[i], Sorted[j])
    BY <1>4, <1>5 DEF Sorted, n
  <1>7. PICK s : s = Sorted
    OBVIOUS
  <1>8. s \in [1 .. n -> Tasks] /\ \A i, j \in 1 .. n : i < j => InOrder(s[i], s[j])
    BY <1>6, <1>7
  <1>9. s \in Seq(Tasks) /\ Len(s) = n
    BY <1>1, <1>8
  <1>10. s \in Injection(1 .. n, Tasks)
    <2>1. ASSUME NEW i \in 1 .. n, NEW j \in 1 .. n, s[i] = s[j] PROVE i = j
      <3>1. s[i] \in Tasks
        BY <1>8
      <3>2. ~(i < j) /\ ~(j < i)
        BY <1>8, <2>1, <3>1, OrderIsTotal
      <3> QED BY <1>1, <3>2
    <2> QED BY <1>8, <2>1 DEF Injection, IsInjective
  <1>11. s \in Surjection(1 .. n, Tasks)
    <2>1. IsFiniteSet(1 .. n) /\ Cardinality(1 .. n) = n
      BY <1>1, FS_Interval
    <2> QED BY <1>1, <1>10, <2>1, FS_Injection DEF n
  <1>12. Range(s) = Tasks
    BY <1>8, <1>11 DEF Surjection, Range
  <1> QED BY <1>7, <1>8, <1>9, <1>12 DEF Strictly

-----------------------------------------------------------------------------
(* The stack of open directories.                                          *)

\* The directories from the root to q are open.
StackOf(s, q) ==
    /\ s \in Seq(Entries) /\ Len(s) = Len(q) + 1
    /\ \A i \in 1 .. Len(s) : s[i].path = SubSeq(q, 1, i - 1)
    /\ \A i, j \in 1 .. Len(s) : s[i].token = s[j].token => i = j

\* The tokens are the first n that the generator gives out.
TokensUpTo(s, n) ==
    /\ s[1].token = RootToken
    /\ \A i \in 2 .. Len(s) : \E m \in 1 .. n : s[i].token = <<"d", m>>

LEMMA StackIsNested ==
    ASSUME NEW q \in Paths \cup {Root}, NEW s, StackOf(s, q)
    PROVE  Nested(s)
  <1>1. q \in Seq(Names) /\ Len(q) \in Nat
    BY PathIsSeq
  <1>2. ASSUME NEW i \in 1 .. Len(s) PROVE Len(s[i].path) = i - 1
    <2>1. i - 1 \in 0 .. Len(q)
      BY <1>1 DEF StackOf
    <2>2. Len(SubSeq(q, 1, i - 1)) = i - 1
      BY <1>1, <2>1, Cut
    <2> QED BY <2>2 DEF StackOf
  <1> QED BY <1>2 DEF StackOf, Nested

LEMMA CommonIs ==
    ASSUME NEW q \in Paths \cup {Root}, NEW w \in Paths \cup {Root}, StackOf(stack, q)
    PROVE  /\ Common(DirPrefixes(w)) \in 0 .. Len(w) /\ Common(DirPrefixes(w)) <= Len(q)
           /\ SubSeq(q, 1, Common(DirPrefixes(w))) = SubSeq(w, 1, Common(DirPrefixes(w)))
           /\ \A i \in 1 .. Len(w) :
                 i <= Len(q) /\ SubSeq(q, 1, i) = SubSeq(w, 1, i) => i <= Common(DirPrefixes(w))
  <1> DEFINE T == {i \in DOMAIN DirPrefixes(w) :
                     /\ i + 1 <= Len(stack)
                     /\ \A j \in 1 .. i : stack[j + 1].path = DirPrefixes(w)[j]}
  <1>1. /\ q \in Seq(Names) /\ w \in Seq(Names) /\ Len(q) \in Nat /\ Len(w) \in Nat
        /\ Len(stack) = Len(q) + 1
    BY PathIsSeq DEF StackOf
  <1>2. DOMAIN DirPrefixes(w) = 1 .. Len(w) /\ \A j \in 1 .. Len(w) : DirPrefixes(w)[j] = SubSeq(w, 1, j)
    BY DEF DirPrefixes
  <1>3. \A j \in 1 .. Len(q) : stack[j + 1].path = SubSeq(q, 1, j)
    <2>1. ASSUME NEW j \in 1 .. Len(q) PROVE stack[j + 1].path = SubSeq(q, 1, j)
      <3>1. j + 1 \in 1 .. Len(stack) /\ (j + 1) - 1 = j
        BY <1>1
      <3> QED BY <3>1 DEF StackOf
    <2> QED BY <2>1
  <1>4. \A i : i \in T <=> /\ i \in 1 .. Len(w) /\ i <= Len(q)
                           /\ \A j \in 1 .. i : SubSeq(q, 1, j) = SubSeq(w, 1, j)
    <2>1. ASSUME NEW i \in 1 .. Len(w), i <= Len(q), NEW j \in 1 .. i
          PROVE  stack[j + 1].path = SubSeq(q, 1, j) /\ DirPrefixes(w)[j] = SubSeq(w, 1, j)
      <3>1. j \in 1 .. Len(q) /\ j \in 1 .. Len(w)
        BY <1>1, <2>1
      <3> QED BY <1>2, <1>3, <3>1
    <2>2. \A i \in 1 .. Len(w) : i + 1 <= Len(stack) <=> i <= Len(q)
      BY <1>1
    <2> QED BY <1>2, <2>1, <2>2
  <1> HIDE DEF T
  <1>5. T \subseteq 1 .. Len(w) /\ \A i \in T : \A j \in 1 .. i : j \in T
    <2>1. ASSUME NEW i \in T, NEW j \in 1 .. i PROVE j \in T
      <3>1. /\ i \in 1 .. Len(w) /\ i <= Len(q)
            /\ \A m \in 1 .. i : SubSeq(q, 1, m) = SubSeq(w, 1, m)
        BY <1>4
      <3>2. j \in 1 .. Len(w) /\ j <= Len(q) /\ \A m \in 1 .. j : m \in 1 .. i
        BY <1>1, <3>1
      <3> QED BY <1>4, <3>1, <3>2
    <2> QED BY <1>4, <2>1
  <1>6. PICK k : k = Cardinality(T)
    OBVIOUS
  <1>7. k \in 0 .. Len(w) /\ T = 1 .. k
    BY <1>1, <1>5, <1>6, DownClosed
  <1>8. k <= Len(q) /\ SubSeq(q, 1, k) = SubSeq(w, 1, k)
    <2>1. CASE k = 0
      <3>1. SubSeq(q, 1, 0) = <<>> /\ SubSeq(w, 1, 0) = <<>>
        BY <1>1
      <3> QED BY <1>1, <2>1, <3>1
    <2>2. CASE k # 0
      <3>1. k \in T /\ k \in 1 .. k
        BY <1>7, <2>2
      <3> QED BY <1>4, <3>1
    <2> QED BY <2>1, <2>2
  <1>9. ASSUME NEW i \in 1 .. Len(w), i <= Len(q), SubSeq(q, 1, i) = SubSeq(w, 1, i)
        PROVE  i <= k
    <2>1. ASSUME NEW j \in 1 .. i PROVE SubSeq(q, 1, j) = SubSeq(w, 1, j)
      <3>1. i \in Nat /\ i <= Len(w) /\ j \in Nat /\ j <= Len(q) /\ j <= Len(w)
            /\ \A m \in 1 .. j : m \in 1 .. i
        BY <1>1, <1>9
      <3>2. \A m \in 1 .. i : q[m] = w[m]
        BY <1>1, <1>9, <3>1, SameStart
      <3>3. \A m \in 1 .. j : q[m] = w[m]
        BY <3>1, <3>2
      <3> QED BY <1>1, <3>1, <3>3, SameStart
    <2>2. i \in T
      BY <1>4, <1>9, <2>1
    <2> QED BY <1>7, <2>2
  <1>10. Common(DirPrefixes(w)) = k
    BY <1>6 DEF Common, T
  <1> QED BY <1>7, <1>8, <1>9, <1>10

LEMMA EnteredIs ==
    ASSUME NEW q \in Paths \cup {Root}, NEW w \in Paths \cup {Root}, StackOf(stack, q),
           tokens.dir \in Nat, TokensUpTo(stack, tokens.dir),
           NEW k \in 0 .. Len(w), k <= Len(q), SubSeq(q, 1, k) = SubSeq(w, 1, k),
           NEW e, e = Entered(DirPrefixes(w), k)
    PROVE  /\ StackOf(e, w) /\ TokensUpTo(e, tokens.dir + Len(w) - k)
           /\ SubSeq(e, 1, k + 1) = SubSeq(stack, 1, k + 1)
           /\ \A i \in 1 .. k + 1 : e[i] = stack[i]
           /\ \A i \in 1 .. Len(w) - k :
                 e[k + 1 + i] = [path |-> SubSeq(w, 1, k + i), token |-> <<"d", tokens.dir + i>>]
  <1>1. /\ q \in Seq(Names) /\ w \in Seq(Names) /\ Len(q) \in Nat /\ Len(w) \in Nat
        /\ Len(stack) = Len(q) + 1 /\ stack \in Seq(Entries)
    BY PathIsSeq DEF StackOf
  <1>2. PICK n \in Nat : n = Len(w) - k
    BY <1>1
  <1>3. PICK a : a = SubSeq(stack, 1, k + 1)
    OBVIOUS
  <1>4. k + 1 \in 0 .. Len(stack)
    BY <1>1
  <1>5. a \in Seq(Entries) /\ Len(a) = k + 1 /\ \A i \in 1 .. k + 1 : a[i] = stack[i]
    BY <1>1, <1>3, <1>4, Cut
  <1>6. PICK b : b = [i \in 1 .. n |-> [path |-> SubSeq(w, 1, k + i), token |-> <<"d", tokens.dir + i>>]]
    OBVIOUS
  <1>7. ASSUME NEW i \in 1 .. n
        PROVE  /\ b[i] = [path |-> SubSeq(w, 1, k + i), token |-> <<"d", tokens.dir + i>>]
               /\ b[i] \in Entries /\ k + i \in 1 .. Len(w)
    <2>1. k + i \in 0 .. Len(w) /\ k + i \in 1 .. Len(w)
      BY <1>1, <1>2
    <2>2. SubSeq(w, 1, k + i) \in Paths \cup {Root}
      BY <2>1, AboveIsPath
    <2>3. <<"d", tokens.dir + i>> \in Tokens
      BY DEF Tokens
    <2> QED BY <1>6, <2>1, <2>2, <2>3 DEF Entries
  <1>f. \A i \in 1 .. n : b[i].path = SubSeq(w, 1, k + i) /\ b[i].token = <<"d", tokens.dir + i>>
    BY <1>6
  <1>8. b \in Seq(Entries) /\ Len(b) = n
    <2>1. b \in [1 .. n -> Entries]
      BY <1>6, <1>7
    <2> QED BY <2>1
  <1>9. e = a \o b
    <2>1. Len(DirPrefixes(w)) = Len(w) /\ \A i \in 1 .. Len(w) : DirPrefixes(w)[i] = SubSeq(w, 1, i)
      BY PrefixesAre
    <2>2. \A i \in 1 .. n : DirPrefixes(w)[k + i] = SubSeq(w, 1, k + i)
      BY <1>7, <2>1
    <2> QED BY <1>2, <1>3, <1>6, <2>1, <2>2 DEF Entered
  <1>10. /\ e \in Seq(Entries) /\ Len(e) = k + 1 + n
         /\ \A i \in 1 .. k + 1 : e[i] = stack[i]
         /\ \A i \in 1 .. n : e[k + 1 + i] = b[i]
    <2>1. a \o b \in Seq(Entries) /\ Len(a \o b) = k + 1 + n
      BY <1>5, <1>8
    <2>2. \A i \in 1 .. k + 1 : (a \o b)[i] = a[i]
      BY <1>5, <1>8
    <2>3. \A i \in 1 .. n : (a \o b)[k + 1 + i] = b[i]
      BY <1>5, <1>8
    <2> QED BY <1>5, <1>9, <2>1, <2>2, <2>3
  <1>11. \A i \in 1 .. Len(e) : i \in 1 .. k + 1 \/ \E j \in 1 .. n : i = k + 1 + j
    <2>1. ASSUME NEW i \in 1 .. Len(e), i \notin 1 .. k + 1
          PROVE  i - (k + 1) \in 1 .. n /\ i = k + 1 + (i - (k + 1))
      BY <1>10, <2>1
    <2> QED BY <2>1
  <1>12. \A i \in 1 .. k + 1 : i \in 1 .. Len(stack)
    BY <1>1
  <1>13. ASSUME NEW i \in 1 .. Len(e) PROVE e[i].path = SubSeq(w, 1, i - 1)
    <2>1. CASE i \in 1 .. k + 1
      <3>1. e[i].path = SubSeq(q, 1, i - 1)
        BY <1>10, <1>12, <2>1 DEF StackOf
      <3>2. k \in Nat /\ k <= Len(w) /\ i - 1 \in Nat /\ i - 1 <= Len(q) /\ i - 1 <= Len(w)
            /\ \A m \in 1 .. i - 1 : m \in 1 .. k
        BY <1>1, <2>1
      <3>3. \A m \in 1 .. k : q[m] = w[m]
        BY <1>1, <3>2, SameStart
      <3>4. \A m \in 1 .. i - 1 : q[m] = w[m]
        BY <3>2, <3>3
      <3>a. PICK m \in Nat : m = i - 1
        BY <3>2
      <3>b. SubSeq(q, 1, m) = SubSeq(w, 1, m)
        BY <1>1, <3>2, <3>4, <3>a, SameStart
      <3>5. SubSeq(q, 1, i - 1) = SubSeq(w, 1, i - 1)
        BY <3>a, <3>b
      <3> QED BY <3>1, <3>5
    <2>2. CASE \E j \in 1 .. n : i = k + 1 + j
      <3>1. PICK j \in 1 .. n : i = k + 1 + j
        BY <2>2
      <3>2. i - 1 = k + j
        BY <3>1
      <3>3. e[i] = b[j]
        BY <1>10, <3>1
      <3>4. b[j].path = SubSeq(w, 1, k + j)
        BY <1>f
      <3> QED BY <3>2, <3>3, <3>4
    <2> QED BY <1>11, <2>1, <2>2
  <1>14. \A i \in 1 .. n : e[k + 1 + i].token = <<"d", tokens.dir + i>>
    BY <1>f, <1>10
  <1>15. ASSUME NEW i \in 1 .. k + 1
         PROVE  \/ i = 1 /\ e[i].token = RootToken
                \/ \E m \in 1 .. tokens.dir : e[i].token = <<"d", m>>
    <2>1. i = 1 \/ i \in 2 .. Len(stack)
      BY <1>12
    <2> QED BY <1>10, <2>1 DEF TokensUpTo
  <1>16. ASSUME NEW i \in 1 .. k + 1, NEW j \in 1 .. n PROVE e[i].token # e[k + 1 + j].token
    <2>1. \A m \in 1 .. tokens.dir : m # tokens.dir + j
      OBVIOUS
    <2> QED BY <1>14, <1>15, <2>1 DEF RootToken
  <1>17. ASSUME NEW i \in 1 .. Len(e), NEW j \in 1 .. Len(e), e[i].token = e[j].token
         PROVE  i = j
    <2>1. CASE i \in 1 .. k + 1 /\ j \in 1 .. k + 1
      BY <1>10, <1>12, <1>17, <2>1 DEF StackOf
    <2>2. CASE i \in 1 .. k + 1 /\ j \notin 1 .. k + 1
      BY <1>11, <1>16, <1>17, <2>2
    <2>3. CASE i \notin 1 .. k + 1 /\ j \in 1 .. k + 1
      BY <1>11, <1>16, <1>17, <2>3
    <2>4. CASE i \notin 1 .. k + 1 /\ j \notin 1 .. k + 1
      <3>1. PICK i1 \in 1 .. n, j1 \in 1 .. n : i = k + 1 + i1 /\ j = k + 1 + j1
        BY <1>11, <2>4
      <3>2. <<"d", tokens.dir + i1>> = <<"d", tokens.dir + j1>>
        BY <1>14, <1>17, <3>1
      <3>3. tokens.dir + i1 = tokens.dir + j1
        BY <3>2
      <3> QED BY <3>1, <3>3
    <2> QED BY <2>1, <2>2, <2>3, <2>4
  <1>18. Len(e) = Len(w) + 1
    BY <1>1, <1>2, <1>10
  <1>19. StackOf(e, w)
    BY <1>10, <1>13, <1>17, <1>18 DEF StackOf
  <1>20. TokensUpTo(e, tokens.dir + Len(w) - k)
    <2>1. PICK M : M = tokens.dir + n /\ M \in Nat
      BY <1>2
    <2>2. e[1].token = RootToken
      <3>1. 1 \in 1 .. k + 1
        OBVIOUS
      <3> QED BY <1>10, <3>1 DEF TokensUpTo
    <2>3. ASSUME NEW i \in 2 .. Len(e) PROVE \E m \in 1 .. M : e[i].token = <<"d", m>>
      <3>1. i \in 1 .. Len(e) /\ i # 1
        BY <1>10
      <3>2. CASE i \in 1 .. k + 1
        <4>1. PICK m \in 1 .. tokens.dir : e[i].token = <<"d", m>>
          BY <1>15, <3>1, <3>2
        <4>2. m \in 1 .. M
          BY <2>1
        <4> QED BY <4>1, <4>2
      <3>3. CASE i \notin 1 .. k + 1
        <4>1. PICK j \in 1 .. n : i = k + 1 + j
          BY <1>11, <3>1, <3>3
        <4>2. tokens.dir + j \in 1 .. M
          BY <2>1
        <4> QED BY <1>14, <4>1, <4>2
      <3> QED BY <3>2, <3>3
    <2>4. tokens.dir + Len(w) - k = M
      BY <1>1, <1>2, <2>1
    <2> QED BY <2>2, <2>3, <2>4 DEF TokensUpTo
  <1>21. SubSeq(e, 1, k + 1) = SubSeq(stack, 1, k + 1)
    <2>1. k + 1 \in 0 .. Len(e)
      BY <1>10
    <2>2. PICK c : c = SubSeq(e, 1, k + 1)
      OBVIOUS
    <2>3. c \in Seq(Entries) /\ Len(c) = k + 1 /\ \A i \in 1 .. k + 1 : c[i] = e[i]
      BY <1>10, <2>1, <2>2, Cut
    <2>4. \A i \in 1 .. k + 1 : c[i] = a[i]
      BY <1>5, <1>10, <2>3
    <2> QED BY <1>3, <1>5, <2>2, <2>3, <2>4, SameSeq
  <1> QED BY <1>2, <1>7, <1>10, <1>19, <1>20, <1>21

\* What a task is to work on has not been touched by the ones before it.
LEMMA FreshDir ==
    ASSUME AllSet, Consistent, NEW D, NEW W, W \subseteq Tasks, NEW t \in Tasks, t \notin W,
           NEW d \in Range(Dirs(t.kind, t.path)), d \notin D
    PROVE  ~SettledBy(D, W, d)
  <1>1. d \in Paths /\ (Inside(t.path, d) \/ (t.kind = "dir" /\ t.path = d))
    BY TaskTypes DEF AllSet
  <1>2. d \in Seq(Names) /\ t.path \in Seq(Names) /\ AtOrIn(t.path, d)
    BY <1>1, PathIsSeq, TaskSeq DEF AtOrIn
  <1>3. ASSUME NEW u \in Tasks, Inside(d, u.path) PROVE Inside(t.path, u.path)
    <2>1. u.path \in Seq(Names)
      BY TaskSeq
    <2> QED BY <1>2, <1>3, <2>1, InsideTransitive
  <1>4. ASSUME NEW c, CopiesDir(c) PROVE ~Inside(d, c)
    <2>1. PICK u \in Tasks : u.path = c /\ IsCopyTask(u)
      BY <1>4, DirOpIs
    <2> QED BY <1>3, <2>1, Apart
  <1>5. ASSUME NEW u \in W, u.kind # "dir" PROVE ~AtOrIn(d, u.path)
    <2>1. u \in Tasks /\ ~Inside(t.path, u.path) /\ t.path # u.path
      BY <1>5, Apart
    <2>2. ASSUME d = u.path PROVE FALSE
      BY <1>2, <2>1, <2>2 DEF AtOrIn
    <2> QED BY <1>3, <2>1, <2>2 DEF AtOrIn
  <1> QED BY <1>4, <1>5 DEF SettledBy, AtOrIn

LEMMA FreshTarget ==
    ASSUME AllSet, Consistent, NEW D, D \subseteq Required, NEW W, W \subseteq Tasks,
           NEW t \in Tasks, t \notin W, t.kind # "dir"
    PROVE  ~SettledBy(D, W, t.path)
  <1>1. t.path \notin D
    <2>1. ASSUME NEW v \in Tasks, Inside(v.path, t.path) \/ (v.kind = "dir" /\ v.path = t.path)
          PROVE  FALSE
      BY <2>1, Apart
    <2> QED BY <2>1, RequiredIs DEF AllSet
  <1>2. ASSUME NEW c, CopiesDir(c) PROVE ~Inside(t.path, c)
    <2>1. PICK u \in Tasks : u.path = c /\ IsCopyTask(u)
      BY <1>2, DirOpIs
    <2> QED BY <2>1, Apart
  <1>3. ASSUME NEW u \in W, u.kind # "dir" PROVE ~AtOrIn(t.path, u.path)
    BY <1>3, Apart DEF AtOrIn
  <1> QED BY <1>1, <1>2, <1>3 DEF SettledBy, AtOrIn

-----------------------------------------------------------------------------
(* The commands of the drive.                                              *)

CmdNames == Opens \cup Closes \cup {"open-root", "delete-entry", "change-dir-prop",
               "change-file-prop", "apply-textdelta", "textdelta-chunk", "textdelta-end",
               "close-edit"}

Cmds == [cmd : CmdNames, path : Paths \cup {Root}, token : Tokens, parent : Tokens,
         from : Paths \cup {Root}]

LEMMA CommandIs ==
    ASSUME NEW cmd \in CmdNames, NEW p \in Paths \cup {Root}, NEW t \in Tokens, NEW u \in Tokens
    PROVE  /\ Command(cmd, p, t, u) \in Cmds
           /\ Command(cmd, p, t, u).cmd = cmd /\ Command(cmd, p, t, u).path = p
           /\ Command(cmd, p, t, u).token = t /\ Command(cmd, p, t, u).parent = u
  BY DEF Command, Cmds

\* A command that may copy.
CommandFrom(cmd, p, t, u, f) == [Command(cmd, p, t, u) EXCEPT !.from = f]

LEMMA CommandFromIs ==
    ASSUME NEW cmd \in CmdNames, NEW p \in Paths \cup {Root}, NEW t \in Tokens, NEW u \in Tokens,
           NEW f \in Paths \cup {Root}
    PROVE  /\ CommandFrom(cmd, p, t, u, f) \in Cmds
           /\ CommandFrom(cmd, p, t, u, f).cmd = cmd /\ CommandFrom(cmd, p, t, u, f).path = p
           /\ CommandFrom(cmd, p, t, u, f).token = t /\ CommandFrom(cmd, p, t, u, f).parent = u
           /\ CommandFrom(cmd, p, t, u, f).from = f
  BY DEF CommandFrom, Command, Cmds

LEMMA ClosingIs ==
    ASSUME NEW q \in Paths \cup {Root}, StackOf(stack, q), NEW k \in 0 .. Len(stack)
    PROVE  /\ Closing(k) \in Seq(Cmds) /\ Len(Closing(k)) = Len(stack) - k
           /\ \A i \in 1 .. Len(stack) - k :
                 /\ Closing(k)[i].cmd = "close-dir"
                 /\ Closing(k)[i].path = stack[Len(stack) + 1 - i].path
                 /\ Closing(k)[i].token = stack[Len(stack) + 1 - i].token
  <1>1. stack \in Seq(Entries) /\ Len(stack) - k \in Nat
    BY DEF StackOf
  <1>2. ASSUME NEW i \in 1 .. Len(stack) - k
        PROVE  /\ Closing(k)[i] \in Cmds
               /\ Closing(k)[i].cmd = "close-dir"
               /\ Closing(k)[i].path = stack[Len(stack) + 1 - i].path
               /\ Closing(k)[i].token = stack[Len(stack) + 1 - i].token
    <2>1. Len(stack) + 1 - i \in 1 .. Len(stack)
      BY <1>1
    <2>2. stack[Len(stack) + 1 - i] \in Entries
      BY <1>1, <2>1
    <2>3. PICK e \in Entries : e = stack[Len(stack) + 1 - i]
      BY <2>2
    <2>4. Closing(k)[i] = Command("close-dir", e.path, e.token, RootToken)
      BY <2>3 DEF Closing, CloseDir
    <2>5. e.path \in Paths \cup {Root} /\ e.token \in Tokens /\ RootToken \in Tokens
      BY DEF Entries, RootToken, Tokens
    <2>6. "close-dir" \in CmdNames
      BY DEF CmdNames, Closes
    <2>7. PICK c : c = Closing(k)[i]
      OBVIOUS
    <2>8. c \in Cmds /\ c.cmd = "close-dir" /\ c.path = e.path /\ c.token = e.token
      BY <2>4, <2>5, <2>6, <2>7, CommandIs, SMTT(30)
    <2> QED BY <2>3, <2>7, <2>8
  <1>3. Closing(k) \in [1 .. Len(stack) - k -> Cmds]
    BY <1>2 DEF Closing
  <1> QED BY <1>1, <1>2, <1>3

LEMMA OpeningIs ==
    ASSUME Shape, NEW w \in Paths \cup {Root}, NEW k \in 0 .. Len(w), NEW e, StackOf(e, w),
           e = Entered(DirPrefixes(w), k), tokens.dir \in Nat,
           \A i \in 1 .. Len(w) - k :
              e[k + 1 + i] = [path |-> SubSeq(w, 1, k + i), token |-> <<"d", tokens.dir + i>>]
    PROVE  /\ Opening(DirPrefixes(w), k) \in Seq(Cmds)
           /\ Len(Opening(DirPrefixes(w), k)) = Len(w) - k
           /\ \A i \in 1 .. Len(w) - k :
                 LET c == Opening(DirPrefixes(w), k)[i]
                     d == SubSeq(w, 1, k + i) IN
                 /\ c.cmd = IF dirPlans[d] = "open" THEN "open-dir" ELSE "add-dir"
                 /\ c.path = d /\ c.path = e[k + 1 + i].path /\ c.token = e[k + 1 + i].token
                 /\ c.parent = e[k + 1 + i - 1].token /\ Parent(c.path) = e[k + 1 + i - 1].path
                 /\ c.from = IF OpAt(dirOps, d).action = "copy" THEN dirOps[d].from ELSE Root
  <1>1. w \in Seq(Names) /\ Len(w) \in Nat /\ Len(w) - k \in Nat
    BY PathIsSeq
  <1>2. Len(DirPrefixes(w)) = Len(w) /\ \A i \in 1 .. Len(w) : DirPrefixes(w)[i] = SubSeq(w, 1, i)
    BY PrefixesAre
  <1>3. ASSUME NEW i \in 1 .. Len(w) - k
        PROVE  LET c == Opening(DirPrefixes(w), k)[i]
                   d == SubSeq(w, 1, k + i) IN
               /\ c \in Cmds
               /\ c.cmd = IF dirPlans[d] = "open" THEN "open-dir" ELSE "add-dir"
               /\ c.path = d /\ c.path = e[k + 1 + i].path /\ c.token = e[k + 1 + i].token
               /\ c.parent = e[k + 1 + i - 1].token /\ Parent(c.path) = e[k + 1 + i - 1].path
               /\ c.from = IF OpAt(dirOps, d).action = "copy" THEN dirOps[d].from ELSE Root
    <2>1. PICK m \in 1 .. Len(w) : m = k + i /\ k + 1 + i = m + 1 /\ k + 1 + i - 1 = m
      BY <1>1
    <2>2. PICK d : d = SubSeq(w, 1, m)
      OBVIOUS
    <2>3. PICK f : f = IF OpAt(dirOps, d).action = "copy" THEN dirOps[d].from ELSE Root
      OBVIOUS
    <2>4. f \in Paths \cup {Root}
      <3>1. OpAt(dirOps, d) \in OpType
        <4>1. Folded0 \in Nat
          BY DEF Shape, Folded0
        <4> QED BY <4>1, OpAtType DEF Shape
      <3>2. OpAt(dirOps, d).action = "copy" => OpAt(dirOps, d) = dirOps[d]
        BY OpFrom
      <3> QED BY <2>3, <3>1, <3>2 DEF OpType
    <2>5. PICK t : t = <<"d", tokens.dir + i>>
      OBVIOUS
    <2>6. PICK u : u = e[m].token
      OBVIOUS
    <2>7. t \in Tokens /\ u \in Tokens
      <3>1. e \in Seq(Entries) /\ m \in 1 .. Len(e)
        BY <1>1 DEF StackOf
      <3>2. e[m] \in Entries
        BY <3>1
      <3> QED BY <2>5, <2>6, <3>2 DEF Entries, Tokens
    <2>8. d \in Paths \cup {Root}
      <3>1. m \in 0 .. Len(w)
        BY <1>1
      <3> QED BY <2>2, <3>1, AboveIsPath
    <2>9. PICK cmd \in CmdNames : cmd = IF dirPlans[d] = "open" THEN "open-dir" ELSE "add-dir"
      <3>1. "open-dir" \in CmdNames /\ "add-dir" \in CmdNames
        BY DEF CmdNames, Opens
      <3> QED BY <3>1, Zenon
    <2>10. Opening(DirPrefixes(w), k)[i] = CommandFrom(cmd, d, t, u, f)
      <3>1. DirPrefixes(w)[k + i] = d
        BY <1>2, <2>1, <2>2
      <3>2. Entered(DirPrefixes(w), k)[k + i].token = u
        BY <2>1, <2>6
      <3> QED BY <1>2, <2>3, <2>5, <2>9, <3>1, <3>2 DEF Opening, CommandFrom
    <2>11. e[m + 1].path = d /\ e[m + 1].token = t
      <3>1. e[m + 1] = [path |-> SubSeq(w, 1, k + i), token |-> <<"d", tokens.dir + i>>]
        BY <2>1
      <3> QED BY <2>1, <2>2, <2>5, <3>1
    <2>12. Parent(d) = e[m].path
      <3>1. m \in 1 .. Len(e) /\ m \in 0 .. Len(w) /\ m - 1 \in 0 .. m
        BY <1>1 DEF StackOf
      <3>2. e[m].path = SubSeq(w, 1, m - 1)
        BY <3>1 DEF StackOf
      <3>3. Len(d) = m
        BY <1>1, <2>2, <3>1, Cut
      <3>4. SubSeq(SubSeq(w, 1, m), 1, m - 1) = SubSeq(w, 1, m - 1)
        BY <1>1, <3>1, CutTwice
      <3> QED BY <2>2, <3>2, <3>3, <3>4 DEF Parent
    <2>13. PICK c : c = Opening(DirPrefixes(w), k)[i]
      OBVIOUS
    <2>14. /\ c \in Cmds /\ c.cmd = cmd /\ c.path = d /\ c.token = t /\ c.parent = u /\ c.from = f
      <3>1. c = CommandFrom(cmd, d, t, u, f)
        BY <2>10, <2>13
      <3>2. /\ CommandFrom(cmd, d, t, u, f) \in Cmds
            /\ CommandFrom(cmd, d, t, u, f).cmd = cmd /\ CommandFrom(cmd, d, t, u, f).path = d
            /\ CommandFrom(cmd, d, t, u, f).token = t /\ CommandFrom(cmd, d, t, u, f).parent = u
            /\ CommandFrom(cmd, d, t, u, f).from = f
        BY ONLY <2>4, <2>7, <2>8, cmd \in CmdNames, CommandFromIs
      <3> QED BY <3>1, <3>2
    <2> QED BY <2>1, <2>2, <2>3, <2>6, <2>9, <2>11, <2>12, <2>13, <2>14
  <1>4. /\ Opening(DirPrefixes(w), k) \in [1 .. Len(w) - k -> Cmds]
    BY <1>2, <1>3 DEF Opening
  <1> QED BY <1>1, <1>3, <1>4

\* Commands that edit what is held.
Edits == {"change-dir-prop", "change-file-prop", "apply-textdelta", "textdelta-chunk",
          "textdelta-end"}

LEMMA EditsAccepted ==
    ASSUME NEW s \in Seq(Cmds), NEW h,
           \A i \in 1 .. Len(s) : s[i].cmd \in Edits /\ HoldsAt(h, s[i].token, s[i].path),
           NEW b, NEW x
    PROVE  Accepts(b, h, x, s, h, x)
  <1>1. ASSUME NEW i \in 1 .. Len(s)
        PROVE  Fine(s[i], h, x) /\ HeldAfter(s[i], h) = h /\ TxnAfter(b, s[i], x) = x
    <2>1. PICK c : c = s[i]
      OBVIOUS
    <2>2. c.cmd \in Edits /\ HoldsAt(h, c.token, c.path)
      BY <2>1
    <2>3. Fine(c, h, x) /\ HeldAfter(c, h) = h
      BY <2>2 DEF Edits, Fine, HeldAfter, Opens, Closes
    <2>4. TxnAfter(b, c, x) = x
      BY <2>2 DEF Edits, TxnAfter
    <2> QED BY <2>1, <2>3, <2>4
  <1> QED BY <1>1, AcceptsIdle

LEMMA RepeatIs ==
    ASSUME NEW n \in Nat, NEW S, NEW c \in S
    PROVE  /\ Repeat(n, c) \in Seq(S) /\ Len(Repeat(n, c)) = n
           /\ \A i \in 1 .. n : Repeat(n, c)[i] = c
  BY DEF Repeat

\* Of the last entry of a stack.
LEMMA TopIs ==
    ASSUME NEW w \in Paths \cup {Root}, NEW e, StackOf(e, w)
    PROVE  /\ e[Len(e)].path = w /\ e[Len(e)].token \in Tokens
           /\ HoldsAt(HeldBy(e), e[Len(e)].token, w)
  <1>1. w \in Seq(Names) /\ Len(w) \in Nat /\ Len(e) = Len(w) + 1 /\ e \in Seq(Entries)
    BY PathIsSeq DEF StackOf
  <1>2. Len(e) \in 1 .. Len(e) /\ Len(e) - 1 = Len(w)
    BY <1>1
  <1>3. e[Len(e)].path = SubSeq(w, 1, Len(w))
    BY <1>2 DEF StackOf
  <1>4. e[Len(e)].path = w
    BY <1>1, <1>3
  <1>5. e[Len(e)] \in Entries
    BY <1>1, <1>2
  <1>6. Nested(e)
    BY StackIsNested
  <1>7. e[Len(e)].token \in DOMAIN HeldBy(e) /\ HeldBy(e)[e[Len(e)].token] = e[Len(e)].path
    BY <1>2, <1>6, HeldByIs
  <1> QED BY <1>4, <1>5, <1>7 DEF HoldsAt, Entries

LEMMA DirCommandsAre ==
    ASSUME Shape, NEW t \in Tasks, t.kind = "dir", NEW e, StackOf(e, t.path)
    PROVE  LET cmds == TaskCommands(t, e[Len(e)].token) IN
           /\ cmds \in Seq(Cmds) /\ \A i \in 1 .. Len(cmds) : cmds[i].cmd # "close-edit"
           /\ \A b, x : Accepts(b, HeldBy(e), x, cmds, HeldBy(e), x)
  <1>1. PICK p : p = t.path
    OBVIOUS
  <1>2. p \in DOMAIN dirOps /\ p \in Paths \cup {Root} /\ dirOps[p].props \in Nat
    <2>1. p \in DOMAIN dirOps
      BY <1>1, TaskIs
    <2>2. dirOps[p] \in OpType
      BY <2>1 DEF Shape, OpsOK
    <2> QED BY <1>1, <2>1, <2>2, TaskTypes, BoundAssumption DEF OpType
  <1>3. PICK u \in Tokens : u = e[Len(e)].token /\ HoldsAt(HeldBy(e), u, p)
    BY <1>1, <1>2, TopIs
  <1>4. PICK c : c = Command("change-dir-prop", p, u, RootToken)
    OBVIOUS
  <1>5. c \in Cmds /\ c.cmd = "change-dir-prop" /\ c.path = p /\ c.token = u
    <2>1. "change-dir-prop" \in CmdNames /\ RootToken \in Tokens
      BY DEF CmdNames, RootToken, Tokens
    <2> QED BY <1>2, <1>3, <1>4, <2>1, CommandIs, SMTT(30)
  <1>6. PICK cmds : cmds = TaskCommands(t, u)
    OBVIOUS
  <1>7. cmds = Repeat(dirOps[p].props, c)
    BY <1>1, <1>4, <1>6 DEF TaskCommands, DirCommands
  <1>8. cmds \in Seq(Cmds) /\ Len(cmds) = dirOps[p].props /\ \A i \in 1 .. Len(cmds) : cmds[i] = c
    <2>1. PICK n \in Nat : n = dirOps[p].props
      BY <1>2
    <2>2. cmds = Repeat(n, c)
      BY <1>7, <2>1
    <2>3. Repeat(n, c) \in Seq(Cmds) /\ Len(Repeat(n, c)) = n /\ \A i \in 1 .. n : Repeat(n, c)[i] = c
      BY <1>5, RepeatIs
    <2> QED BY <2>1, <2>2, <2>3
  <1>9. c.cmd \in Edits /\ c.cmd # "close-edit"
    BY <1>5 DEF Edits
  <1>10. ASSUME NEW b, NEW x PROVE Accepts(b, HeldBy(e), x, cmds, HeldBy(e), x)
    BY <1>3, <1>5, <1>8, <1>9, EditsAccepted
  <1> QED BY <1>3, <1>6, <1>8, <1>9, <1>10

LEMMA DeleteCommandsAre ==
    ASSUME Shape, NEW t \in Tasks, t.kind = "delete", NEW e, StackOf(e, Parent(t.path))
    PROVE  LET cmds == TaskCommands(t, e[Len(e)].token) IN
           /\ cmds \in Seq(Cmds) /\ \A i \in 1 .. Len(cmds) : cmds[i].cmd # "close-edit"
           /\ \A b, x : x[t.path] # "none"
                        => Accepts(b, HeldBy(e), x, cmds, HeldBy(e), Without(x, t.path))
  <1>1. PICK p \in Paths : p = t.path
    BY TaskTypes
  <1>2. Parent(p) \in Paths \cup {Root}
    BY ParentIs
  <1>3. PICK u \in Tokens : u = e[Len(e)].token /\ HoldsAt(HeldBy(e), u, Parent(p))
    BY <1>1, <1>2, TopIs
  <1>4. PICK c : c = Command("delete-entry", p, RootToken, u)
    OBVIOUS
  <1>5. c \in Cmds /\ c.cmd = "delete-entry" /\ c.path = p /\ c.parent = u
    <2>1. "delete-entry" \in CmdNames /\ RootToken \in Tokens
      BY DEF CmdNames, RootToken, Tokens
    <2> QED BY <1>3, <1>4, <2>1, CommandIs
  <1>6. TaskCommands(t, u) = <<c>>
    BY <1>1, <1>4 DEF TaskCommands
  <1>7. ASSUME NEW b, NEW x, x[p] # "none"
        PROVE  Accepts(b, HeldBy(e), x, <<c>>, HeldBy(e), Without(x, p))
    <2>1. Fine(c, HeldBy(e), x)
      BY <1>3, <1>5, <1>7 DEF Fine, Opens, Closes
    <2>2. HeldAfter(c, HeldBy(e)) = HeldBy(e) /\ TxnAfter(b, c, x) = Without(x, p)
      BY <1>5 DEF HeldAfter, TxnAfter, Opens, Closes
    <2>3. Accepts(b, HeldBy(e), x, <<c>>, HeldAfter(c, HeldBy(e)), TxnAfter(b, c, x))
      BY <2>1, AcceptsOne
    <2> QED BY <2>2, <2>3
  <1>8. <<c>> \in Seq(Cmds) /\ \A i \in 1 .. Len(<<c>>) : <<c>>[i].cmd # "close-edit"
    BY <1>5
  <1> QED BY <1>1, <1>3, <1>6, <1>7, <1>8

\* The entries of e with one more on top.
LEMMA OneMore ==
    ASSUME NEW w \in Paths \cup {Root}, NEW e, StackOf(e, w), NEW n \in Nat, TokensUpTo(e, n),
           NEW g \in Entries, g.path \in Paths, Parent(g.path) = w,
           g.token # RootToken, \A j : g.token # <<"d", j>>
    PROVE  /\ Nested(Append(e, g)) /\ Len(Append(e, g)) = Len(e) + 1
           /\ Append(e, g)[Len(e) + 1] = g /\ Append(e, g)[Len(e)] = e[Len(e)]
           /\ SubSeq(Append(e, g), 1, Len(e)) = e
  <1>1. /\ e \in Seq(Entries) /\ Len(e) = Len(w) + 1 /\ Nested(e) /\ Len(w) \in Nat
        /\ Len(e) \in 1 .. Len(e) /\ w \in Seq(Names)
    <2>1. w \in Seq(Names) /\ Len(w) \in Nat
      BY PathIsSeq
    <2>2. Nested(e)
      BY StackIsNested
    <2> QED BY <2>1, <2>2 DEF StackOf
  <1>2. PICK s : s = Append(e, g)
    OBVIOUS
  <1>3. /\ s \in Seq(Entries) /\ Len(s) = Len(e) + 1 /\ s[Len(e) + 1] = g
        /\ \A i \in 1 .. Len(e) : s[i] = e[i]
    BY <1>1, <1>2
  <1>4. \A i \in 1 .. Len(s) : i \in 1 .. Len(e) \/ i = Len(e) + 1
    BY <1>1, <1>3
  <1>5. Len(g.path) = Len(e)
    <2>1. Len(w) = Len(g.path) - 1 /\ Len(g.path) \in Nat
      BY ParentIs, PathIsSeq
    <2> QED BY <1>1, <2>1
  <1>6. ASSUME NEW i \in 1 .. Len(s) PROVE Len(s[i].path) = i - 1
    <2>1. CASE i \in 1 .. Len(e)
      BY <1>1, <1>3, <2>1 DEF Nested
    <2>2. CASE i = Len(e) + 1
      BY <1>1, <1>3, <1>5, <2>2
    <2> QED BY <1>4, <2>1, <2>2
  <1>7. ASSUME NEW i \in 1 .. Len(e) PROVE s[i].token # g.token
    <2>1. i = 1 \/ i \in 2 .. Len(e)
      OBVIOUS
    <2>2. e[i].token = RootToken \/ \E j \in 1 .. n : e[i].token = <<"d", j>>
      BY <2>1 DEF TokensUpTo
    <2> QED BY <1>3, <2>2
  <1>8. ASSUME NEW i \in 1 .. Len(s), NEW j \in 1 .. Len(s), s[i].token = s[j].token
        PROVE  i = j
    <2>1. CASE i \in 1 .. Len(e) /\ j \in 1 .. Len(e)
      BY <1>1, <1>3, <1>8, <2>1 DEF Nested
    <2>2. CASE i \in 1 .. Len(e) /\ j = Len(e) + 1
      BY <1>3, <1>7, <1>8, <2>2
    <2>3. CASE i = Len(e) + 1 /\ j \in 1 .. Len(e)
      BY <1>3, <1>7, <1>8, <2>3
    <2>4. CASE i = Len(e) + 1 /\ j = Len(e) + 1
      BY <2>4
    <2> QED BY <1>4, <2>1, <2>2, <2>3, <2>4
  <1>9. Nested(s)
    BY <1>3, <1>6, <1>8 DEF Nested
  <1>10. SubSeq(s, 1, Len(e)) = e
    <2>1. Len(e) \in 0 .. Len(s)
      BY <1>1, <1>3
    <2>2. PICK r : r = SubSeq(s, 1, Len(e))
      OBVIOUS
    <2>3. r \in Seq(Entries) /\ Len(r) = Len(e) /\ \A i \in 1 .. Len(e) : r[i] = s[i]
      BY <1>3, <2>1, <2>2, Cut
    <2> QED BY <1>1, <1>3, <2>2, <2>3, SameSeq
  <1> QED BY <1>1, <1>2, <1>3, <1>9, <1>10

\* The command that opens or adds the file of a task.
FileAdded(p) == fileOps[p].action = "copy" \/ KindAt(base, p) = "none"
FileOpened(p, u) ==
    CommandFrom(IF FileAdded(p) THEN "add-file" ELSE "open-file", p, <<"f", tokens.file + 1>>, u,
                fileOps[p].from)

LEMMA FileCommandsAre ==
    ASSUME AllSet, NEW t \in Tasks, t.kind = "file", NEW e, StackOf(e, Parent(t.path)),
           NEW n \in Nat, TokensUpTo(e, n), tokens.file \in Nat
    PROVE  LET cmds == TaskCommands(t, e[Len(e)].token)
               c == FileOpened(t.path, e[Len(e)].token) IN
           /\ cmds \in Seq(Cmds) /\ \A i \in 1 .. Len(cmds) : cmds[i].cmd # "close-edit"
           /\ c.cmd = (IF FileAdded(t.path) THEN "add-file" ELSE "open-file")
           /\ c.path = t.path /\ c.from = fileOps[t.path].from
           /\ \A b, x : x[t.path] = Expected(c.cmd)
                        => Accepts(b, HeldBy(e), x, cmds, HeldBy(e), TxnAfter(b, c, x))
  <1>1. PICK p \in Paths : p = t.path
    BY TaskTypes DEF AllSet
  <1>2. PICK w \in Paths \cup {Root} : w = Parent(p)
    BY ParentIs
  <1>3. PICK u \in Tokens : u = e[Len(e)].token /\ e[Len(e)].path = w
    BY <1>1, <1>2, TopIs
  <1>4. PICK f \in Paths \cup {Root} : f = fileOps[p].from
    BY <1>1, FileOpIs
  <1>5. PICK props \in Nat : props = fileOps[p].props
    <2>1. p \in DOMAIN fileOps
      BY <1>1, FileOpIs
    <2>2. fileOps[p] \in OpType
      BY <2>1 DEF AllSet, Shape, OpsOK
    <2> QED BY <2>2, BoundAssumption DEF OpType
  <1>6. PICK k \in Tokens : k = <<"f", tokens.file + 1>>
    <2>1. tokens.file + 1 \in Nat
      OBVIOUS
    <2>2. <<"f", tokens.file + 1>> \in Tokens
      BY <2>1 DEF Tokens
    <2> QED BY <2>2
  <1>7. PICK cmd \in CmdNames : cmd = (IF FileAdded(p) THEN "add-file" ELSE "open-file")
    <2>1. "add-file" \in CmdNames /\ "open-file" \in CmdNames
      BY DEF CmdNames, Opens
    <2> QED BY <2>1, Zenon
  <1>8. PICK c : c = FileOpened(p, u)
    OBVIOUS
  <1>9. c = CommandFrom(cmd, p, k, u, f)
    BY <1>4, <1>6, <1>7, <1>8 DEF FileOpened
  <1>10. c \in Cmds /\ c.cmd = cmd /\ c.path = p /\ c.token = k /\ c.parent = u /\ c.from = f
    BY ONLY <1>9, cmd \in CmdNames, p \in Paths, k \in Tokens, u \in Tokens,
            f \in Paths \cup {Root}, CommandFromIs
  <1> DEFINE On(name) == Command(name, p, k, RootToken)
  <1>11. ASSUME NEW name \in CmdNames
         PROVE  On(name) \in Cmds /\ On(name).cmd = name /\ On(name).path = p /\ On(name).token = k
    <2>1. RootToken \in Tokens /\ p \in Paths \cup {Root}
      BY DEF RootToken, Tokens
    <2> QED BY <2>1, CommandIs
  <1> HIDE DEF On
  <1>12. PICK es : es = IF fileOps[p].action = "put"
                        THEN <<On("apply-textdelta"), On("textdelta-chunk"), On("textdelta-end")>>
                        ELSE <<>>
    OBVIOUS
  <1>13. /\ es \in Seq(Cmds)
         /\ \A i \in 1 .. Len(es) : es[i].cmd \in Edits /\ es[i].path = p /\ es[i].token = k
    <2>1. /\ {"apply-textdelta", "textdelta-chunk", "textdelta-end"} \subseteq CmdNames
          /\ {"apply-textdelta", "textdelta-chunk", "textdelta-end"} \subseteq Edits
      BY DEF CmdNames, Edits
    <2>2. PICK c1, c2, c3 : c1 = On("apply-textdelta") /\ c2 = On("textdelta-chunk")
                            /\ c3 = On("textdelta-end")
      OBVIOUS
    <2>3. \A d \in {c1, c2, c3} : d \in Cmds /\ d.cmd \in Edits /\ d.path = p /\ d.token = k
      BY <1>11, <2>1, <2>2
    <2>4. <<c1, c2, c3>> \in Seq(Cmds) /\ Len(<<c1, c2, c3>>) = 3
          /\ \A i \in 1 .. 3 : <<c1, c2, c3>>[i] \in {c1, c2, c3}
      BY <2>3
    <2>5. CASE fileOps[p].action = "put"
      BY <1>12, <2>2, <2>3, <2>4, <2>5
    <2>6. CASE fileOps[p].action # "put"
      <3>1. es = <<>>
        BY <1>12, <2>6
      <3> QED BY <3>1
    <2> QED BY <2>5, <2>6
  <1>14. PICK rs : rs = Repeat(props, On("change-file-prop"))
    OBVIOUS
  <1>15. /\ rs \in Seq(Cmds)
         /\ \A i \in 1 .. Len(rs) : rs[i].cmd \in Edits /\ rs[i].path = p /\ rs[i].token = k
    <2>1. "change-file-prop" \in CmdNames /\ "change-file-prop" \in Edits
      BY DEF CmdNames, Edits
    <2>2. PICK d \in Cmds : /\ d = On("change-file-prop")
                            /\ d.cmd \in Edits /\ d.path = p /\ d.token = k
      BY <1>11, <2>1
    <2>3. Repeat(props, d) \in Seq(Cmds) /\ Len(Repeat(props, d)) = props
          /\ \A i \in 1 .. props : Repeat(props, d)[i] = d
      BY RepeatIs
    <2> QED BY <1>14, <2>2, <2>3
  <1>16. PICK z \in Cmds : /\ z = On("close-file")
                           /\ z.cmd = "close-file" /\ z.path = p /\ z.token = k
    <2>1. "close-file" \in CmdNames
      BY DEF CmdNames, Closes
    <2> QED BY <1>11, <2>1
  <1>17. PICK cmds : cmds = TaskCommands(t, u)
    OBVIOUS
  <1>18. cmds = <<c>> \o es \o rs \o <<z>>
    <2>1. TaskCommands(t, u) = FileCommands(p, u)
      BY <1>1 DEF TaskCommands
    <2> QED BY <1>5, <1>6, <1>8, <1>12, <1>14, <1>16, <1>17, <2>1
            DEF FileCommands, FileOpened, FileAdded, CommandFrom, On
  <1>a. PICK a1 : a1 = <<c>> \o es
    OBVIOUS
  <1>b. PICK a2 : a2 = a1 \o rs
    OBVIOUS
  <1>c. <<c>> \in Seq(Cmds) /\ <<z>> \in Seq(Cmds)
    BY <1>10
  <1>d. a1 \in Seq(Cmds)
    BY <1>13, <1>a, <1>c
  <1>e. a2 \in Seq(Cmds)
    BY <1>15, <1>b, <1>d
  <1>f. cmds = a2 \o <<z>> /\ cmds \in Seq(Cmds)
    BY <1>18, <1>a, <1>b, <1>c, <1>e
  <1>19. PICK g \in Entries : g = [path |-> p, token |-> k]
    BY DEF Entries
  <1>20. PICK s : s = Append(e, g)
    OBVIOUS
  <1>21. PICK m \in Nat : m = Len(e) /\ m > 0
    <2>1. w \in Seq(Names) /\ Len(w) \in Nat
      BY PathIsSeq
    <2> QED BY <1>1, <1>2, <2>1 DEF StackOf
  <1>22. /\ Nested(s) /\ Len(s) = m + 1 /\ s[m + 1].path = p /\ s[m + 1].token = k
         /\ s[m].token = u /\ s[m].path = w /\ SubSeq(s, 1, m) = e
    <2>1. g.path = p /\ g.token = k /\ k # RootToken /\ \A j : k # <<"d", j>>
      BY <1>6, <1>19 DEF RootToken
    <2>2. /\ Nested(s) /\ Len(s) = Len(e) + 1
          /\ s[Len(e) + 1] = g /\ s[Len(e)] = e[Len(e)]
          /\ SubSeq(s, 1, Len(e)) = e
      <3>1. StackOf(e, w) /\ Parent(p) = w
        BY <1>1, <1>2
      <3>2. /\ Nested(Append(e, g)) /\ Len(Append(e, g)) = Len(e) + 1
            /\ Append(e, g)[Len(e) + 1] = g /\ Append(e, g)[Len(e)] = e[Len(e)]
            /\ SubSeq(Append(e, g), 1, Len(e)) = e
        BY <2>1, <3>1, OneMore
      <3> QED BY <1>20, <3>2
    <2>3. s[m + 1] = g /\ s[m] = e[Len(e)]
      BY <1>21, <2>2
    <2>4. g.token = k /\ g.path = p
      BY <1>19
    <2> QED BY <1>3, <1>21, <2>2, <2>3, <2>4
  <1>23. HoldsAt(HeldBy(s), k, p)
    <2>1. m + 1 \in 1 .. Len(s)
      BY <1>22
    <2>2. s[m + 1].token \in DOMAIN HeldBy(s) /\ HeldBy(s)[s[m + 1].token] = s[m + 1].path
      BY <1>22, <2>1, HeldByIs
    <2> QED BY <1>22, <2>2 DEF HoldsAt
  <1>24. ASSUME NEW b, NEW x, x[p] = Expected(c.cmd)
         PROVE  Accepts(b, HeldBy(e), x, cmds, HeldBy(e), TxnAfter(b, c, x))
    <2>1. PICK y : y = TxnAfter(b, c, x)
      OBVIOUS
    <2>2. Accepts(b, HeldBy(e), x, <<c>>, HeldBy(s), y)
      <3>1. c.cmd \in Opens
        BY <1>7, <1>10 DEF Opens
      <3>2. Fine(c, HeldBy(e), x) /\ HeldAfter(c, HeldBy(e)) = HeldBy(s)
        BY <1>2, <1>10, <1>21, <1>22, <1>24, <3>1, NextOpens, ZenonT(40)
      <3> QED BY <2>1, <3>2, AcceptsOne
    <2>3. Accepts(b, HeldBy(s), y, es, HeldBy(s), y)
      BY <1>13, <1>23, EditsAccepted
    <2>4. Accepts(b, HeldBy(s), y, rs, HeldBy(s), y)
      BY <1>15, <1>23, EditsAccepted
    <2>5. Accepts(b, HeldBy(s), y, <<z>>, HeldBy(e), y)
      <3>1. z.cmd \in Closes
        BY <1>16 DEF Closes
      <3>2. Fine(z, HeldBy(s), y) /\ HeldAfter(z, HeldBy(s)) = HeldBy(e)
        BY <1>16, <1>21, <1>22, <3>1, LastCloses
      <3>3. TxnAfter(b, z, y) = y
        BY <1>16 DEF TxnAfter
      <3>4. Accepts(b, HeldBy(s), y, <<z>>, HeldAfter(z, HeldBy(s)), TxnAfter(b, z, y))
        BY <3>2, AcceptsOne
      <3> QED BY <3>2, <3>3, <3>4
    <2>6. Accepts(b, HeldBy(e), x, a1, HeldBy(s), y)
      BY <1>13, <1>a, <1>c, <2>2, <2>3, AcceptsThen
    <2>7. Accepts(b, HeldBy(e), x, a2, HeldBy(s), y)
      BY <1>15, <1>b, <1>d, <2>4, <2>6, AcceptsThen
    <2>8. Accepts(b, HeldBy(e), x, a2 \o <<z>>, HeldBy(e), y)
      BY <1>c, <1>e, <2>5, <2>7, AcceptsThen
    <2> QED BY <1>f, <2>1, <2>8
  <1>25. \A i \in 1 .. Len(cmds) : cmds[i].cmd # "close-edit"
    <2>1. c.cmd # "close-edit" /\ z.cmd # "close-edit"
      BY <1>7, <1>10, <1>16
    <2>2. Range(<<c>>) = {c} /\ Range(<<z>>) = {z}
      BY RangeOne
    <2>3. Range(a1) = {c} \cup Range(es)
      <3>1. Range(<<c>> \o es) = Range(<<c>>) \cup Range(es)
        BY <1>13, <1>c, RangeCat
      <3> QED BY <1>a, <2>2, <3>1
    <2>4. Range(a2) = Range(a1) \cup Range(rs)
      BY <1>15, <1>b, <1>d, RangeCat
    <2>5. Range(cmds) = Range(a2) \cup {z}
      <3>1. Range(a2 \o <<z>>) = Range(a2) \cup Range(<<z>>)
        BY <1>c, <1>e, RangeCat
      <3> QED BY <1>f, <2>2, <3>1
    <2>6. ASSUME NEW d \in Range(es) \cup Range(rs) PROVE d.cmd # "close-edit"
      <3>1. d.cmd \in Edits
        BY <1>13, <1>15 DEF Range
      <3> QED BY <3>1 DEF Edits
    <2>7. \A i \in 1 .. Len(cmds) : cmds[i] \in Range(cmds)
      BY <1>f DEF Range
    <2> QED BY <2>1, <2>3, <2>4, <2>5, <2>6, <2>7
  <1> QED BY <1>1, <1>3, <1>4, <1>7, <1>8, <1>10, <1>17, <1>24, <1>25, <1>f

-----------------------------------------------------------------------------
(* What a step of the walk adds to the drive.                              *)

\* Where a task works: its own path, or its parent's.
Where(t) == IF t.kind = "dir" THEN t.path ELSE Parent(t.path)

LEMMA WhereIs ==
    ASSUME Shape, NEW t \in Tasks
    PROVE  /\ Where(t) \in Paths \cup {Root}
           /\ Dirs(t.kind, t.path) = DirPrefixes(Where(t))
           /\ \A i \in 1 .. Len(Where(t)) :
                 /\ SubSeq(Where(t), 1, i) \in Range(Dirs(t.kind, t.path))
                 /\ SubSeq(Where(t), 1, i) \in Required
                 /\ Len(SubSeq(Where(t), 1, i)) = i
           /\ \A d \in Range(Dirs(t.kind, t.path)) :
                 \E i \in 1 .. Len(Where(t)) : d = SubSeq(Where(t), 1, i)
  <1>1. Where(t) \in Paths \cup {Root}
    BY TaskTypes, ParentIs DEF Where
  <1>2. Dirs(t.kind, t.path) = DirPrefixes(Where(t))
    BY DEF Dirs, Where
  <1>3. PICK w \in Paths \cup {Root} : w = Where(t)
    BY <1>1
  <1>4. /\ DirPrefixes(w) \in Seq(Paths) /\ Len(DirPrefixes(w)) = Len(w)
        /\ \A i \in 1 .. Len(w) : DirPrefixes(w)[i] = SubSeq(w, 1, i)
    BY PrefixesAre
  <1>5. DOMAIN DirPrefixes(w) = 1 .. Len(w)
    BY DEF DirPrefixes
  <1>6. ASSUME NEW i \in 1 .. Len(w)
        PROVE  /\ SubSeq(w, 1, i) \in Range(DirPrefixes(w)) /\ SubSeq(w, 1, i) \in Required
               /\ Len(SubSeq(w, 1, i)) = i
    <2>1. SubSeq(w, 1, i) \in Range(DirPrefixes(w))
      BY <1>4, <1>5 DEF Range
    <2>2. SubSeq(w, 1, i) \in Required
      BY <1>2, <1>3, <2>1 DEF Required
    <2>3. w \in Seq(Names) /\ i \in 0 .. Len(w)
      BY PathIsSeq
    <2>4. Len(SubSeq(w, 1, i)) = i
      BY <2>3, Cut
    <2> QED BY <2>1, <2>2, <2>4
  <1>7. ASSUME NEW d \in Range(DirPrefixes(w)) PROVE \E i \in 1 .. Len(w) : d = SubSeq(w, 1, i)
    BY <1>4, <1>5 DEF Range
  <1> QED BY <1>1, <1>2, <1>3, <1>6, <1>7

\* The directories that a step of the walk opens or adds.
Beyond(w, k, n) == {SubSeq(w, 1, k + i) : i \in 1 .. n}

LEMMA OpeningAccepted ==
    ASSUME AllSet, Consistent, NEW t \in Tasks, NEW w, w = Where(t), NEW k \in 0 .. Len(w),
           NEW e, StackOf(e, w), e = Entered(DirPrefixes(w), k), tokens.dir \in Nat,
           \A i \in 1 .. Len(w) - k :
              e[k + 1 + i] = [path |-> SubSeq(w, 1, k + i), token |-> <<"d", tokens.dir + i>>],
           NEW D, D \subseteq Required, NEW W, W \subseteq Tasks, t \notin W,
           \A i \in 1 .. Len(w) - k : SubSeq(w, 1, k + i) \notin D
    PROVE  Accepts(base, HeldBy(SubSeq(e, 1, k + 1)), TreeOf(D, W), Opening(DirPrefixes(w), k),
                   HeldBy(e), TreeOf(D \cup Beyond(w, k, Len(w) - k), W))
  <1>1. /\ w \in Paths \cup {Root} /\ Dirs(t.kind, t.path) = DirPrefixes(w)
        /\ \A i \in 1 .. Len(w) : /\ SubSeq(w, 1, i) \in Range(Dirs(t.kind, t.path))
                                  /\ SubSeq(w, 1, i) \in Required
                                  /\ Len(SubSeq(w, 1, i)) = i
    BY WhereIs DEF AllSet
  <1>2. w \in Seq(Names) /\ Len(w) \in Nat
    BY <1>1, PathIsSeq
  <1>3. PICK n \in Nat : n = Len(w) - k
    BY <1>2
  <1>4. PICK cmds : cmds = Opening(DirPrefixes(w), k)
    OBVIOUS
  <1>5. /\ Len(cmds) = n
        /\ \A i \in 1 .. n :
              /\ cmds[i].cmd = IF dirPlans[SubSeq(w, 1, k + i)] = "open" THEN "open-dir" ELSE "add-dir"
              /\ cmds[i].path = SubSeq(w, 1, k + i)
              /\ cmds[i].path = e[k + 1 + i].path /\ cmds[i].token = e[k + 1 + i].token
              /\ cmds[i].parent = e[k + 1 + i - 1].token
              /\ Parent(cmds[i].path) = e[k + 1 + i - 1].path
              /\ cmds[i].from = IF OpAt(dirOps, SubSeq(w, 1, k + i)).action = "copy"
                                THEN dirOps[SubSeq(w, 1, k + i)].from ELSE Root
    <2>1. \A i \in 1 .. Len(w) - k :
             LET c == Opening(DirPrefixes(w), k)[i]
                 d == SubSeq(w, 1, k + i) IN
             /\ c.cmd = IF dirPlans[d] = "open" THEN "open-dir" ELSE "add-dir"
             /\ c.path = d /\ c.path = e[k + 1 + i].path /\ c.token = e[k + 1 + i].token
             /\ c.parent = e[k + 1 + i - 1].token /\ Parent(c.path) = e[k + 1 + i - 1].path
             /\ c.from = IF OpAt(dirOps, d).action = "copy" THEN dirOps[d].from ELSE Root
      <3>1. Shape /\ w \in Paths \cup {Root}
        BY <1>1 DEF AllSet
      <3> QED BY ONLY <3>1, k \in 0 .. Len(w), StackOf(e, w), e = Entered(DirPrefixes(w), k),
                      tokens.dir \in Nat,
                      \A i \in 1 .. Len(w) - k :
                         e[k + 1 + i] = [path |-> SubSeq(w, 1, k + i), token |-> <<"d", tokens.dir + i>>],
                      OpeningIs
    <2>2. Len(Opening(DirPrefixes(w), k)) = Len(w) - k
      <3>1. DirPrefixes(w) \in Seq(Paths) /\ Len(DirPrefixes(w)) = Len(w)
        BY <1>1, PrefixesAre
      <3> QED BY <1>3, <3>1 DEF Opening
    <2> QED BY <1>3, <1>4, <2>1, <2>2
  <1> DEFINE xs == [i \in 0 .. n |-> TreeOf(D \cup Beyond(w, k, i), W)]
  <1>6. \A i \in 0 .. n : xs[i] = TreeOf(D \cup Beyond(w, k, i), W)
    OBVIOUS
  <1> HIDE DEF xs
  <1>7. ASSUME NEW i \in 1 .. n
        PROVE  /\ xs[i - 1][cmds[i].path] = Expected(cmds[i].cmd)
               /\ xs[i] = TxnAfter(base, cmds[i], xs[i - 1])
               /\ cmds[i].cmd \in Opens
    <2>1. PICK m \in 1 .. Len(w) : m = k + i
      BY <1>2, <1>3
    <2>2. PICK d : d = SubSeq(w, 1, m)
      OBVIOUS
    <2>3. d \in Required /\ d \in Range(Dirs(t.kind, t.path)) /\ Len(d) = m
      BY <1>1, <2>1, <2>2
    <2>4. PICK E : E = D \cup Beyond(w, k, i - 1)
      OBVIOUS
    <2>5. d \notin E
      <3>1. d \notin D
        BY <1>3, <2>1, <2>2
      <3>2. ASSUME NEW j \in 1 .. i - 1 PROVE SubSeq(w, 1, k + j) # d
        <4>1. k + j \in 1 .. Len(w) /\ k + j # m
          BY <1>2, <1>3, <2>1
        <4>2. Len(SubSeq(w, 1, k + j)) = k + j
          BY <1>1, <4>1
        <4> QED BY <2>3, <4>1, <4>2
      <3> QED BY <2>4, <3>1, <3>2 DEF Beyond
    <2>6. D \cup Beyond(w, k, i) = E \cup {d}
      <3>1. \A j \in 1 .. i : j \in 1 .. i - 1 \/ j = i
        OBVIOUS
      <3>2. i \in 1 .. i /\ \A j \in 1 .. i - 1 : j \in 1 .. i
        OBVIOUS
      <3>3. Beyond(w, k, i) = Beyond(w, k, i - 1) \cup {SubSeq(w, 1, k + i)}
        BY <3>1, <3>2 DEF Beyond
      <3> QED BY <2>1, <2>2, <2>4, <3>3
    <2>7. xs[i - 1] = TreeOf(E, W) /\ xs[i] = TreeOf(E \cup {d}, W)
      <3>1. i - 1 \in 0 .. n /\ i \in 0 .. n
        OBVIOUS
      <3> QED BY <1>6, <2>4, <2>6, <3>1
    <2>8. PICK c : c = cmds[i]
      OBVIOUS
    <2>9. /\ c.cmd = IF dirPlans[d] = "open" THEN "open-dir" ELSE "add-dir"
          /\ c.path = d
          /\ c.from = IF OpAt(dirOps, d).action = "copy" THEN dirOps[d].from ELSE Root
      BY <1>5, <2>1, <2>2, <2>8
    <2>10. CASE dirPlans[d] = "open"
      <3>1. TreeOf(E, W)[d] = "dir" /\ TreeOf(E \cup {d}, W) = TreeOf(E, W)
        BY <2>3, <2>10, TreeOpens
      <3>2. c.cmd = "open-dir"
        BY <2>9, <2>10
      <3>3. Expected(c.cmd) = "dir" /\ c.cmd \in Opens /\ TxnAfter(base, c, TreeOf(E, W)) = TreeOf(E, W)
        BY <3>2 DEF Expected, Opens, TxnAfter
      <3> QED BY <2>7, <2>8, <2>9, <3>1, <3>3
    <2>11. CASE dirPlans[d] # "open"
      <3>1. dirPlans[d] = "add"
        BY <2>3, <2>11, RequiredPlans
      <3>2. ~SettledBy(E, W, d)
        BY <2>3, <2>5, FreshDir
      <3>3. /\ TreeOf(E, W)[d] = "none"
            /\ EntryIn(base, TreeOf(E, W), d, "dir", c.from) = TreeOf(E \cup {d}, W)
        BY <2>3, <2>9, <3>1, <3>2, TreeAdds
      <3>4. c.cmd = "add-dir"
        BY <2>9, <3>1
      <3>5. /\ Expected(c.cmd) = "none" /\ c.cmd \in Opens
            /\ TxnAfter(base, c, TreeOf(E, W)) = EntryIn(base, TreeOf(E, W), d, "dir", c.from)
        BY <2>9, <3>4 DEF Expected, Opens, TxnAfter
      <3> QED BY <2>7, <2>8, <2>9, <3>3, <3>5
    <2> QED BY <2>10, <2>11
  <1>8. PICK l \in Nat : l = Len(e) /\ l = Len(w) + 1 /\ l - (k + 1) = n /\ k + 1 \in 1 .. l
    BY <1>2, <1>3 DEF StackOf
  <1>9. Nested(e)
    BY <1>1, StackIsNested
  <1>10. Accepts(base, HeldBy(SubSeq(e, 1, k + 1)), xs[0], cmds, HeldBy(e), xs[l - (k + 1)])
    BY <1>5, <1>7, <1>8, <1>9, OpensAccepted, ZenonT(40)
  <1>11. xs[0] = TreeOf(D, W) /\ xs[n] = TreeOf(D \cup Beyond(w, k, Len(w) - k), W)
    <2>1. 0 \in 0 .. n /\ n \in 0 .. n
      OBVIOUS
    <2>2. Beyond(w, k, 0) = {}
      BY DEF Beyond
    <2>3. D \cup Beyond(w, k, 0) = D
      BY <2>2
    <2> QED BY <1>3, <1>6, <2>1, <2>3
  <1> QED BY <1>4, <1>8, <1>10, <1>11

-----------------------------------------------------------------------------
(* The walk.                                                               *)

Walked == Tasks \ Range(tasks)

\* The stack leads to q, and no task is left that comes before q.
StackAt(q) ==
    /\ StackOf(stack, q) /\ TokensUpTo(stack, tokens.dir)
    /\ \A i \in 2 .. Len(stack) : stack[i].path \in Range(opened)
    /\ \A t \in Range(tasks) : NotAfter(q, t.path)

\* What the walk has in hand between two tasks.
WalkShape ==
    /\ tasks \in Seq(Tasks) /\ Strictly(tasks)
    /\ tokens.dir \in Nat /\ tokens.file \in Nat
    /\ opened \in Seq(Paths) /\ Range(opened) \subseteq Required
    /\ \E q \in Paths \cup {Root} : StackAt(q)
    /\ \A t \in Walked : Range(Dirs(t.kind, t.path)) \subseteq Range(opened)

Once == \A i, j \in DOMAIN opened : opened[i] = opened[j] => i = j
OnStack(d) == \E i \in 2 .. Len(stack) : stack[i].path = d
DoneWith(d) == \A t \in Range(tasks) : d \notin Range(Dirs(t.kind, t.path))

\* A directory that has been closed is not needed again.
WalkOnce == Once /\ \A d \in Range(opened) : OnStack(d) \/ DoneWith(d)

Plainly == commands \in Seq(Cmds) /\ \A i \in 1 .. Len(commands) : commands[i].cmd # "close-edit"

\* The server accepts what the drive says so far, and is then where the walk is.
WalkDrive == Accepts(base, held, txn, commands, HeldBy(stack), TreeOf(Range(opened), Walked))

\* The first task of an ordered list.
LEMMA TakeTask ==
    ASSUME AllSet, NoNeighbours, NEW s \in Seq(Tasks), Strictly(s), s # <<>>
    PROVE  /\ Head(s) \in Tasks /\ Head(s) \in Range(s)
           /\ Tail(s) \in Seq(Tasks) /\ Strictly(Tail(s))
           /\ Range(Tail(s)) = Range(s) \ {Head(s)}
           /\ \A u \in Range(Tail(s)) : u \in Tasks /\ InOrder(Head(s), u)
  <1>1. PICK n \in Nat : Len(s) = n + 1
    <2>1. Len(s) \in Nat /\ Len(s) # 0
      OBVIOUS
    <2>2. Len(s) - 1 \in Nat /\ Len(s) = (Len(s) - 1) + 1
      BY <2>1
    <2> QED BY <2>2
  <1>2. /\ Tail(s) \in Seq(Tasks) /\ Len(Tail(s)) = n /\ Head(s) = s[1]
        /\ \A i \in 1 .. n : Tail(s)[i] = s[i + 1]
    BY <1>1
  <1>3. Strictly(Tail(s))
    <2>1. ASSUME NEW i \in 1 .. n, NEW j \in 1 .. n, i < j PROVE InOrder(Tail(s)[i], Tail(s)[j])
      <3>1. i + 1 \in 1 .. Len(s) /\ j + 1 \in 1 .. Len(s) /\ i + 1 < j + 1
        BY <1>1, <2>1
      <3>2. InOrder(s[i + 1], s[j + 1])
        BY <3>1 DEF Strictly
      <3> QED BY <1>2, <3>2
    <2> QED BY <1>2, <2>1 DEF Strictly
  <1>4. ASSUME NEW u \in Range(Tail(s)) PROVE u \in Tasks /\ InOrder(Head(s), u)
    <2>1. PICK i \in 1 .. n : u = Tail(s)[i]
      BY <1>2 DEF Range
    <2>2. i + 1 \in 1 .. Len(s) /\ 1 \in 1 .. Len(s) /\ 1 < i + 1
      BY <1>1, <2>1
    <2>3. InOrder(s[1], s[i + 1])
      BY <2>2 DEF Strictly
    <2> QED BY <1>2, <2>1, <2>2, <2>3
  <1>5. /\ Head(s) \in Tasks /\ Head(s) \in Range(s)
        /\ Range(s) = {Head(s)} \cup Range(Tail(s))
    BY RangeSplit
  <1>6. Head(s) \notin Range(Tail(s))
    BY <1>4, OrderIsTotal
  <1> QED BY <1>2, <1>3, <1>4, <1>5, <1>6

\* Its task, where it works, how far the stack leads there and the stack after it.
Meets(q, t, w, k, e) ==
    /\ q \in Paths \cup {Root} /\ StackAt(q)
    /\ t = Head(tasks) /\ t \in Tasks /\ t \in Range(tasks) /\ t \notin Walked
    /\ w = Where(t) /\ w \in Paths \cup {Root} /\ Dirs(t.kind, t.path) = DirPrefixes(w)
    /\ k \in 0 .. Len(w) /\ k <= Len(q) /\ SubSeq(q, 1, k) = SubSeq(w, 1, k)
    /\ \A i \in 1 .. Len(w) : i <= Len(q) /\ SubSeq(q, 1, i) = SubSeq(w, 1, i) => i <= k
    /\ e = Entered(DirPrefixes(w), k)
    /\ StackOf(e, w) /\ TokensUpTo(e, tokens.dir + Len(w) - k)
    /\ SubSeq(e, 1, k + 1) = SubSeq(stack, 1, k + 1)
    /\ \A i \in 1 .. k + 1 : e[i] = stack[i]
    /\ \A i \in 1 .. Len(w) - k :
          e[k + 1 + i] = [path |-> SubSeq(w, 1, k + i), token |-> <<"d", tokens.dir + i>>]

Enters(t, w, k, e) ==
    /\ commands' = commands \o Closing(k + 1) \o Opening(DirPrefixes(w), k)
                     \o TaskCommands(t, e[Len(e)].token)
    /\ stack' = e
    /\ opened' = opened \o SubSeq(DirPrefixes(w), k + 1, Len(w))
    /\ tokens'.dir = tokens.dir + Len(w) - k
    /\ tokens'.file = tokens.file + IF t.kind = "file" THEN 1 ELSE 0
    /\ tasks' = Tail(tasks)
    /\ UNCHANGED <<base, stream, changes, todo, pc, plan, dirPlans, server>>

LEMMA WalkMeets ==
    ASSUME AllSet, NoNeighbours, WalkShape, Walk
    PROVE  \E q, t, w, k, e : Meets(q, t, w, k, e) /\ Enters(t, w, k, e)
  <1>1. PICK q \in Paths \cup {Root} : StackAt(q)
    BY DEF WalkShape
  <1>2. tasks \in Seq(Tasks) /\ Strictly(tasks) /\ tasks # <<>>
    BY DEF WalkShape, Walk
  <1>3. PICK t : t = Head(tasks)
    OBVIOUS
  <1>4. t \in Tasks /\ t \in Range(tasks) /\ t \notin Walked
    BY <1>2, <1>3, TakeTask DEF Walked
  <1>5. PICK w : w = Where(t)
    OBVIOUS
  <1>6. w \in Paths \cup {Root} /\ Dirs(t.kind, t.path) = DirPrefixes(w)
    BY <1>4, <1>5, WhereIs DEF AllSet
  <1>7. PICK k : k = Common(DirPrefixes(w))
    OBVIOUS
  <1>8. StackOf(stack, q) /\ TokensUpTo(stack, tokens.dir) /\ tokens.dir \in Nat
    BY <1>1 DEF StackAt, WalkShape
  <1>9. /\ k \in 0 .. Len(w) /\ k <= Len(q) /\ SubSeq(q, 1, k) = SubSeq(w, 1, k)
        /\ \A i \in 1 .. Len(w) : i <= Len(q) /\ SubSeq(q, 1, i) = SubSeq(w, 1, i) => i <= k
    BY <1>1, <1>6, <1>7, <1>8, CommonIs
  <1>10. PICK e : e = Entered(DirPrefixes(w), k)
    OBVIOUS
  <1>11. /\ StackOf(e, w) /\ TokensUpTo(e, tokens.dir + Len(w) - k)
         /\ SubSeq(e, 1, k + 1) = SubSeq(stack, 1, k + 1)
         /\ \A i \in 1 .. k + 1 : e[i] = stack[i]
         /\ \A i \in 1 .. Len(w) - k :
               e[k + 1 + i] = [path |-> SubSeq(w, 1, k + i), token |-> <<"d", tokens.dir + i>>]
    BY <1>1, <1>6, <1>8, <1>9, <1>10, EnteredIs
  <1>12. Meets(q, t, w, k, e)
    BY <1>1, <1>3, <1>4, <1>5, <1>6, <1>9, <1>10, <1>11 DEF Meets
  <1>13. Len(DirPrefixes(w)) = Len(w) /\ Len(w) \in Nat
    BY <1>6, PrefixesAre, PathIsSeq
  <1>14. Enters(t, w, k, e)
    BY <1>3, <1>6, <1>7, <1>10, <1>13, Zenon DEF Walk, Enters
  <1> QED BY <1>12, <1>14

LEMMA NotAfterIs ==
    ASSUME NEW p \in Seq(Nat), NEW q \in Seq(Nat), NEW r \in Seq(Nat)
    PROVE  /\ NotAfter(p, q) /\ NotAfter(q, r) => NotAfter(p, r)
           /\ AtOrIn(q, p) => NotAfter(p, q)
  <1>1. NotAfter(p, q) /\ NotAfter(q, r) => NotAfter(p, r)
    BY LessTransitive DEF NotAfter
  <1>2. ASSUME Inside(q, p) PROVE Less(p, q)
    <2>1. Len(q) > Len(p) /\ \A j \in 1 .. Len(p) : q[j] = p[j]
      BY <1>2, InsideMeans
    <2>2. Len(p) + 1 \in 1 .. Len(q) /\ \A j \in 1 .. (Len(p) + 1) - 1 : p[j] = q[j]
      BY <2>1
    <2> QED BY <2>2 DEF Less
  <1> QED BY <1>1, <1>2 DEF NotAfter, AtOrIn

\* The directory of a task is not after it, nor the task after those that follow.
LEMMA TasksAhead ==
    ASSUME AllSet, NoNeighbours, NEW q, NEW t, NEW w, NEW k, NEW e, Meets(q, t, w, k, e), WalkShape
    PROVE  /\ w \in Seq(Nat) /\ q \in Seq(Nat) /\ t.path \in Seq(Nat)
           /\ AtOrIn(t.path, w) /\ NotAfter(q, t.path)
           /\ t.kind = "dir" => w = t.path
           /\ \A d \in Seq(Names) : Inside(t.path, d) => AtOrIn(w, d)
           /\ \A u \in Range(Tail(tasks)) :
                 u \in Tasks /\ u \in Range(tasks) /\ u.path \in Seq(Nat)
                 /\ NotAfter(t.path, u.path) /\ NotAfter(w, u.path)
  <1>1. /\ t = Head(tasks) /\ t \in Tasks /\ t \in Range(tasks) /\ w = Where(t)
        /\ w \in Paths \cup {Root} /\ q \in Paths \cup {Root} /\ StackAt(q)
    BY DEF Meets
  <1>2. t.path \in Seq(Names) /\ w \in Seq(Names) /\ q \in Seq(Names)
    BY <1>1, TaskSeq, PathIsSeq
  <1>3. t.path \in Seq(Nat) /\ w \in Seq(Nat) /\ q \in Seq(Nat)
    BY <1>2, NameAssumption, SeqGrows
  <1>4. /\ AtOrIn(t.path, w) /\ (t.kind = "dir" => w = t.path)
        /\ \A d \in Seq(Names) : Inside(t.path, d) => AtOrIn(w, d)
    <2>1. CASE t.kind = "dir"
      BY <1>1, <2>1 DEF Where, AtOrIn
    <2>2. CASE t.kind # "dir"
      <3>1. w = Parent(t.path) /\ t.path \in Paths
        BY <1>1, <2>2, TaskTypes DEF Where, AllSet
      <3> QED BY <2>2, <3>1, ParentIs DEF AtOrIn
    <2> QED BY <2>1, <2>2
  <1>5. NotAfter(q, t.path)
    BY <1>1 DEF StackAt
  <1>6. ASSUME NEW u \in Range(Tail(tasks))
        PROVE  /\ u \in Tasks /\ u \in Range(tasks) /\ u.path \in Seq(Nat)
               /\ NotAfter(t.path, u.path) /\ NotAfter(w, u.path)
    <2>1. tasks # <<>>
      BY <1>1, RangeOne
    <2>2. u \in Tasks /\ u \in Range(tasks) /\ InOrder(t, u)
      BY <1>1, <2>1, TakeTask DEF WalkShape
    <2>3. u.path \in Seq(Nat) /\ NotAfter(t.path, u.path)
      BY <1>1, <2>2, InOrderIs, PathOrder DEF NotAfter
    <2>4. NotAfter(w, t.path)
      BY <1>3, <1>4, NotAfterIs
    <2> QED BY <1>3, <2>2, <2>3, <2>4, NotAfterIs
  <1> QED BY <1>3, <1>4, <1>5, <1>6

\* The directories that a step adds to those that are open.
LEMMA OpenedNow ==
    ASSUME AllSet, NoNeighbours, NEW q, NEW t, NEW w, NEW k, NEW e, Meets(q, t, w, k, e),
           Enters(t, w, k, e), WalkShape
    PROVE  /\ opened' \in Seq(Paths) /\ Len(opened') = Len(opened) + (Len(w) - k)
           /\ \A i \in 1 .. Len(opened) : opened'[i] = opened[i]
           /\ \A i \in 1 .. Len(w) - k : opened'[Len(opened) + i] = SubSeq(w, 1, k + i)
           /\ Range(opened') = Range(opened) \cup Beyond(w, k, Len(w) - k)
           /\ Range(opened') \subseteq Required
           /\ \A i \in 1 .. Len(w) : SubSeq(w, 1, i) \in Range(opened')
  <1>1. PICK ds : ds = DirPrefixes(w)
    OBVIOUS
  <1>2. /\ w \in Paths \cup {Root} /\ k \in 0 .. Len(w) /\ Dirs(t.kind, t.path) = ds
        /\ q \in Paths \cup {Root} /\ StackAt(q) /\ SubSeq(q, 1, k) = SubSeq(w, 1, k)
        /\ k <= Len(q) /\ w = Where(t) /\ t \in Tasks
    BY <1>1 DEF Meets
  <1>3. /\ ds \in Seq(Paths) /\ Len(ds) = Len(w) /\ Len(w) \in Nat
        /\ \A i \in 1 .. Len(w) : ds[i] = SubSeq(w, 1, i)
    <2>1. w \in Seq(Names)
      BY <1>2, PathIsSeq
    <2>2. Len(w) \in Nat
      BY <2>1
    <2> QED BY <1>1, <1>2, <2>2, PrefixesAre
  <1>4. PICK n \in Nat : n = Len(w) - k
    <2>1. k \in 0 .. Len(w) /\ Len(w) \in Nat
      BY <1>2, <1>3
    <2>2. Len(w) - k \in Nat
      BY ONLY <2>1
    <2> QED BY <2>2
  <1>5. PICK new : new = SubSeq(ds, k + 1, Len(w))
    OBVIOUS
  <1>6. new \in Seq(Paths) /\ Len(new) = n /\ \A i \in 1 .. n : new[i] = ds[k + i]
    BY <1>2, <1>3, <1>4, <1>5
  <1>7. opened \in Seq(Paths) /\ Range(opened) \subseteq Required /\ opened' = opened \o new
    BY <1>1, <1>5 DEF WalkShape, Enters
  <1>8. /\ opened' \in Seq(Paths) /\ Len(opened') = Len(opened) + n
        /\ \A i \in 1 .. Len(opened) : opened'[i] = opened[i]
        /\ \A i \in 1 .. n : opened'[Len(opened) + i] = new[i]
    <2>1. PICK o : o = opened \o new
      OBVIOUS
    <2>2. o \in Seq(Paths) /\ Len(o) = Len(opened) + n
      <3>1. opened \in Seq(Paths) /\ new \in Seq(Paths)
        BY <1>6, <1>7
      <3>2. o \in Seq(Paths)
        BY ONLY <2>1, <3>1
      <3>3. Len(o) = Len(opened) + Len(new)
        BY ONLY <2>1, <3>1
      <3> QED BY <1>6, <3>2, <3>3
    <2>3. \A i \in 1 .. Len(opened) : o[i] = opened[i]
      BY <1>6, <1>7, <2>1
    <2>4. \A i \in 1 .. n : o[Len(opened) + i] = new[i]
      BY <1>6, <1>7, <2>1
    <2> QED BY <1>7, <2>1, <2>2, <2>3, <2>4
  <1>9. \A i \in 1 .. n : new[i] = SubSeq(w, 1, k + i)
    <2>1. \A i \in 1 .. n : k + i \in 1 .. Len(w)
      BY <1>2, <1>3, <1>4
    <2> QED BY <1>3, <1>6, <2>1
  <1>10. Range(new) = Beyond(w, k, n)
    <2>1. DOMAIN new = 1 .. n
      BY <1>6
    <2> QED BY <1>9, <2>1 DEF Range, Beyond
  <1>11. Range(opened') = Range(opened) \cup Beyond(w, k, n)
    BY <1>6, <1>7, <1>10, RangeCat
  <1>12. Range(opened') \subseteq Required
    <2>1. ASSUME NEW i \in 1 .. n PROVE SubSeq(w, 1, k + i) \in Required
      <3>1. k + i \in 1 .. Len(w)
        BY <1>2, <1>3, <1>4
      <3> QED BY <1>2, <3>1, WhereIs DEF AllSet
    <2> QED BY <1>7, <1>11, <2>1 DEF Beyond
  <1>13. ASSUME NEW i \in 1 .. Len(w) PROVE SubSeq(w, 1, i) \in Range(opened')
    <2>1. CASE i > k
      <3>1. i - k \in 1 .. n /\ k + (i - k) = i
        BY <1>2, <1>3, <1>4, <2>1
      <3>2. SubSeq(w, 1, i) \in Beyond(w, k, n)
        BY <3>1 DEF Beyond
      <3> QED BY <1>11, <3>2
    <2>2. CASE ~(i > k)
      <3>1. i \in 0 .. k /\ k \in 0 .. Len(w) /\ k \in 0 .. Len(q) /\ Len(q) \in Nat
        BY <1>2, <1>3, <2>2, PathIsSeq
      <3>2. w \in Seq(Names) /\ q \in Seq(Names)
        BY <1>2, PathIsSeq
      <3>3. SubSeq(w, 1, i) = SubSeq(q, 1, i)
        BY <1>2, <3>1, <3>2, CutTwice
      <3>4. StackOf(stack, q) /\ i + 1 \in 2 .. Len(stack) /\ i + 1 \in 1 .. Len(stack)
        BY <1>2, <3>1, <3>2 DEF StackAt, StackOf
      <3>5. stack[i + 1].path = SubSeq(q, 1, (i + 1) - 1) /\ (i + 1) - 1 = i
        BY <3>4 DEF StackOf
      <3>6. stack[i + 1].path \in Range(opened)
        BY <1>2, <3>4 DEF StackAt
      <3> QED BY <1>11, <3>3, <3>5, <3>6
    <2> QED BY <2>1, <2>2
  <1> QED BY <1>4, <1>8, <1>9, <1>11, <1>12, <1>13

LEMMA WalkShapeStep ==
    ASSUME AllSet, NoNeighbours, WalkShape, Walk
    PROVE  WalkShape'
  <1>1. PICK q, t, w, k, e : Meets(q, t, w, k, e) /\ Enters(t, w, k, e)
    BY WalkMeets
  <1>2. /\ t = Head(tasks) /\ t \in Tasks /\ t \in Range(tasks)
        /\ w \in Paths \cup {Root} /\ q \in Paths \cup {Root} /\ StackAt(q)
        /\ k \in 0 .. Len(w) /\ StackOf(e, w) /\ TokensUpTo(e, tokens.dir + Len(w) - k)
        /\ w = Where(t) /\ \A i \in 1 .. k + 1 : e[i] = stack[i]
    BY <1>1 DEF Meets
  <1>3. /\ stack' = e /\ tokens'.dir = tokens.dir + Len(w) - k
        /\ tokens'.file = tokens.file + IF t.kind = "file" THEN 1 ELSE 0
        /\ tasks' = Tail(tasks) /\ UNCHANGED <<base, changes, plan, dirPlans>>
    BY <1>1 DEF Enters
  <1>4. Tasks' = Tasks /\ Required' = Required
    BY <1>3 DEF Tasks, Required, plan
  <1>5. Len(w) \in Nat /\ w \in Seq(Names)
    BY <1>2, PathIsSeq
  <1>6. /\ tasks' \in Seq(Tasks) /\ Strictly(tasks') /\ Range(tasks') = Range(tasks) \ {t}
    <2>1. tasks # <<>>
      BY <1>2, RangeOne
    <2> QED BY <1>2, <1>3, <2>1, TakeTask DEF WalkShape
  <1>7. tokens'.dir \in Nat /\ tokens'.file \in Nat
    BY <1>2, <1>3, <1>5 DEF WalkShape
  <1>8. /\ opened' \in Seq(Paths) /\ Range(opened') \subseteq Required
        /\ Range(opened) \subseteq Range(opened')
        /\ \A i \in 1 .. Len(w) : SubSeq(w, 1, i) \in Range(opened')
    BY <1>1, OpenedNow
  <1>9. StackAt(w)'
    <2>1. StackOf(e, w) /\ TokensUpTo(e, tokens'.dir)
      BY <1>2, <1>3
    <2>2. ASSUME NEW i \in 2 .. Len(e) PROVE e[i].path \in Range(opened')
      <3>1. i - 1 \in 1 .. Len(w) /\ i \in 1 .. Len(e)
        BY <1>2, <1>5 DEF StackOf
      <3> QED BY <1>2, <1>8, <3>1 DEF StackOf
    <2>3. \A u \in Range(tasks') : NotAfter(w, u.path)
      BY <1>1, <1>3, TasksAhead
    <2> QED BY <1>3, <2>1, <2>2, <2>3 DEF StackAt
  <1>10. ASSUME NEW u \in Tasks, u \notin Range(tasks')
         PROVE  Range(Dirs(u.kind, u.path)) \subseteq Range(opened')
    <2>1. CASE u = t
      <3>1. \A d \in Range(Dirs(t.kind, t.path)) : \E i \in 1 .. Len(w) : d = SubSeq(w, 1, i)
        BY <1>2, WhereIs DEF AllSet
      <3> QED BY <1>8, <2>1, <3>1
    <2>2. CASE u # t
      <3>1. u \in Walked
        BY <1>6, <1>10, <2>2 DEF Walked
      <3> QED BY <1>8, <3>1 DEF WalkShape
    <2> QED BY <2>1, <2>2
  <1>11. Strictly(tasks)'
    BY <1>6 DEF Strictly
  <1> QED BY <1>2, <1>4, <1>6, <1>7, <1>8, <1>9, <1>10, <1>11 DEF WalkShape, Walked

\* A directory that is closed for a task is not above the ones after it.
LEMMA LeftBehind ==
    ASSUME AllSet, Consistent, NoNeighbours, WalkShape,
           NEW q, NEW t, NEW w, NEW k, NEW e, Meets(q, t, w, k, e),
           NEW d \in Paths, AtOrIn(q, d), ~AtOrIn(w, d),
           NEW u \in Range(Tail(tasks))
    PROVE  d \notin Range(Dirs(u.kind, u.path))
  <1> SUFFICES ASSUME d \in Range(Dirs(u.kind, u.path)) PROVE FALSE
    OBVIOUS
  <1>1. /\ w \in Seq(Nat) /\ q \in Seq(Nat) /\ t.path \in Seq(Nat)
        /\ AtOrIn(t.path, w) /\ NotAfter(q, t.path) /\ (t.kind = "dir" => w = t.path)
        /\ \A c \in Seq(Names) : Inside(t.path, c) => AtOrIn(w, c)
        /\ u \in Tasks /\ u \in Range(tasks) /\ u.path \in Seq(Nat) /\ NotAfter(t.path, u.path)
    BY TasksAhead
  <1>2. t \in Tasks /\ t = Head(tasks)
    BY DEF Meets
  <1>3. d \in Seq(Names) /\ d \in Seq(Nat)
    BY PathIsSeq, NameAssumption, SeqGrows
  <1>4. Inside(u.path, d) \/ (u.kind = "dir" /\ u.path = d)
    BY <1>1, TaskTypes DEF AllSet
  <1>5. AtOrIn(t.path, d)
    <2>1. AtOrIn(u.path, d)
      BY <1>4 DEF AtOrIn
    <2> QED BY <1>1, <1>3, <2>1, LessContiguous DEF NotAfter
  <1>6. t.path = d /\ t.kind # "dir"
    BY <1>1, <1>3, <1>5 DEF AtOrIn
  <1>7. u.path = t.path /\ u.kind = "dir"
    BY <1>1, <1>2, <1>4, <1>6, Apart
  <1> QED BY <1>1, <1>2, <1>6, <1>7, Apart

\* A directory that is opened now has not been opened before.
LEMMA OpenedAfresh ==
    ASSUME AllSet, WalkOnce, NEW q, NEW t, NEW w, NEW k, NEW e, Meets(q, t, w, k, e),
           NEW i \in 1 .. Len(w) - k
    PROVE  SubSeq(w, 1, k + i) \notin Range(opened)
  <1> SUFFICES ASSUME SubSeq(w, 1, k + i) \in Range(opened) PROVE FALSE
    OBVIOUS
  <1>1. /\ t \in Tasks /\ t \in Range(tasks)
        /\ w \in Paths \cup {Root} /\ q \in Paths \cup {Root}
        /\ StackOf(stack, q) /\ Dirs(t.kind, t.path) = DirPrefixes(w)
        /\ k \in 0 .. Len(w) /\ w = Where(t)
        /\ \A j \in 1 .. Len(w) : j <= Len(q) /\ SubSeq(q, 1, j) = SubSeq(w, 1, j) => j <= k
    BY DEF Meets, StackAt
  <1>2. /\ Len(w) \in Nat /\ w \in Seq(Names) /\ Len(q) \in Nat /\ q \in Seq(Names)
    <2>1. w \in Seq(Names) /\ q \in Seq(Names)
      BY <1>1, PathIsSeq
    <2> QED BY <2>1
  <1>3. \A j \in 1 .. Len(w) : SubSeq(w, 1, j) \in Range(DirPrefixes(w)) /\ Len(SubSeq(w, 1, j)) = j
    BY <1>1, WhereIs DEF AllSet
  <1>4. PICK m \in 1 .. Len(w) : m = k + i /\ m > k
    BY <1>1, <1>2
  <1>5. ~DoneWith(SubSeq(w, 1, m))
    BY <1>1, <1>3 DEF DoneWith
  <1>6. OnStack(SubSeq(w, 1, m))
    BY <1>4, <1>5 DEF WalkOnce
  <1>7. PICK j \in 2 .. Len(stack) : stack[j].path = SubSeq(w, 1, m)
    BY <1>6 DEF OnStack
  <1>8. j \in 1 .. Len(stack) /\ Len(stack) = Len(q) + 1 /\ j - 1 \in 0 .. Len(q)
    BY <1>1, <1>2 DEF StackOf
  <1>9. SubSeq(q, 1, j - 1) = SubSeq(w, 1, m)
    BY <1>1, <1>7, <1>8 DEF StackOf
  <1>10. Len(SubSeq(q, 1, j - 1)) = j - 1
    BY <1>2, <1>8, Cut
  <1>11. j - 1 = m
    BY <1>3, <1>9, <1>10
  <1> QED BY <1>1, <1>4, <1>8, <1>9, <1>11

LEMMA WalkOnceStep ==
    ASSUME AllSet, Consistent, NoNeighbours, WalkShape, WalkOnce, Walk
    PROVE  WalkOnce'
  <1>1. PICK q, t, w, k, e : Meets(q, t, w, k, e) /\ Enters(t, w, k, e)
    BY WalkMeets
  <1>2. /\ t = Head(tasks) /\ t \in Tasks /\ t \in Range(tasks)
        /\ w \in Paths \cup {Root} /\ q \in Paths \cup {Root}
        /\ StackOf(stack, q) /\ Dirs(t.kind, t.path) = DirPrefixes(w)
        /\ k \in 0 .. Len(w) /\ StackOf(e, w) /\ w = Where(t)
        /\ \A i \in 1 .. Len(w) : i <= Len(q) /\ SubSeq(q, 1, i) = SubSeq(w, 1, i) => i <= k
    BY <1>1 DEF Meets, StackAt
  <1>3. stack' = e /\ tasks' = Tail(tasks)
    BY <1>1 DEF Enters
  <1>4. /\ Len(w) \in Nat /\ w \in Seq(Names) /\ Len(q) \in Nat /\ q \in Seq(Names)
    <2>1. w \in Seq(Names) /\ q \in Seq(Names)
      BY <1>2, PathIsSeq
    <2> QED BY <2>1
  <1>5. PICK n \in Nat : n = Len(w) - k
    <2>1. k \in 0 .. Len(w) /\ Len(w) \in Nat
      BY <1>2, <1>4
    <2>2. Len(w) - k \in Nat
      BY ONLY <2>1
    <2> QED BY <2>2
  <1>6. /\ opened' \in Seq(Paths) /\ Len(opened') = Len(opened) + n
        /\ \A i \in 1 .. Len(opened) : opened'[i] = opened[i]
        /\ \A i \in 1 .. n : opened'[Len(opened) + i] = SubSeq(w, 1, k + i)
        /\ Range(opened') = Range(opened) \cup Beyond(w, k, n)
    BY <1>1, <1>5, OpenedNow
  <1>7. opened \in Seq(Paths)
    BY DEF WalkShape
  <1>8. PICK l \in Nat : l = Len(opened)
    BY <1>7
  <1>9. /\ DOMAIN opened = 1 .. l /\ DOMAIN opened' = 1 .. (l + n)
        /\ \A i \in 1 .. l + n : i \in 1 .. l \/ (i - l \in 1 .. n /\ l + (i - l) = i)
    <2>1. DOMAIN opened = 1 .. l
      BY <1>7, <1>8
    <2>2. DOMAIN opened' = 1 .. (l + n)
      BY <1>6, <1>8
    <2> QED BY <1>5, <1>8, <2>1, <2>2
  <1>10. \A i \in 1 .. Len(w) : SubSeq(w, 1, i) \in Range(DirPrefixes(w)) /\ Len(SubSeq(w, 1, i)) = i
    BY <1>2, WhereIs DEF AllSet
  <1>11. ASSUME NEW i \in 1 .. n PROVE SubSeq(w, 1, k + i) \notin Range(opened)
    BY <1>1, <1>5, OpenedAfresh
  <1>12. Once'
    <2>1. ASSUME NEW i \in 1 .. l + n, NEW j \in 1 .. l + n, opened'[i] = opened'[j] PROVE i = j
      <3>1. CASE i \in 1 .. l /\ j \in 1 .. l
        <4>1. opened[i] = opened[j]
          BY <1>6, <1>8, <2>1, <3>1
        <4> QED BY <1>9, <3>1, <4>1 DEF WalkOnce, Once
      <3>2. ASSUME NEW a \in 1 .. l, NEW b \in 1 .. n, opened'[a] = opened'[l + b] PROVE FALSE
        <4>1. opened[a] \in Range(opened)
          BY <1>9 DEF Range
        <4>2. opened[a] = SubSeq(w, 1, k + b)
          BY <1>6, <1>8, <3>2
        <4> QED BY <1>11, <4>1, <4>2
      <3>3. CASE i - l \in 1 .. n /\ j - l \in 1 .. n
        <4>1. PICK a \in 1 .. n, b \in 1 .. n : i = l + a /\ j = l + b
          <5>1. i = l + (i - l) /\ j = l + (j - l)
            BY <1>8
          <5> QED BY <3>3, <5>1
        <4>2. SubSeq(w, 1, k + a) = SubSeq(w, 1, k + b)
          BY <1>6, <1>8, <2>1, <4>1
        <4>3. k + a \in 1 .. Len(w) /\ k + b \in 1 .. Len(w)
          BY <1>2, <1>4, <1>5
        <4>4. k + a = k + b
          BY <1>10, <4>2, <4>3
        <4>5. a = b
          BY <1>2, <4>4
        <4> QED BY <4>1, <4>5
      <3>4. CASE i \in 1 .. l /\ j - l \in 1 .. n
        BY <1>9, <2>1, <3>2, <3>4
      <3>5. CASE i - l \in 1 .. n /\ j \in 1 .. l
        BY <1>9, <2>1, <3>2, <3>5
      <3> QED BY <1>9, <3>1, <3>3, <3>4, <3>5
    <2> QED BY <1>9, <2>1 DEF Once
  <1>13. ASSUME NEW i \in 1 .. Len(w) PROVE OnStack(SubSeq(w, 1, i))'
    <2>1. i + 1 \in 2 .. Len(e) /\ i + 1 \in 1 .. Len(e) /\ (i + 1) - 1 = i
      BY <1>2, <1>4 DEF StackOf
    <2>2. e[i + 1].path = SubSeq(w, 1, i)
      BY <1>2, <2>1 DEF StackOf
    <2> QED BY <1>3, <2>1, <2>2 DEF OnStack
  <1>14. ASSUME NEW d \in Range(opened) PROVE OnStack(d)' \/ DoneWith(d)'
    <2>1. d \in Paths
      BY <1>7 DEF Range
    <2>2. CASE DoneWith(d)
      <3>1. tasks # <<>>
        BY <1>2, RangeOne
      <3>2. Range(Tail(tasks)) \subseteq Range(tasks)
        BY <3>1, TakeTask DEF WalkShape
      <3> QED BY <1>3, <2>2, <3>2 DEF DoneWith
    <2>3. CASE OnStack(d)
      <3>1. PICK j \in 2 .. Len(stack) : stack[j].path = d
        BY <2>3 DEF OnStack
      <3>2. j \in 1 .. Len(stack) /\ Len(stack) = Len(q) + 1 /\ j - 1 \in 1 .. Len(q) /\ j - 1 \in 0 .. Len(q)
        BY <1>2, <1>4 DEF StackOf
      <3>3. d = SubSeq(q, 1, j - 1)
        BY <1>2, <3>1, <3>2 DEF StackOf
      <3>4. AtOrIn(q, d)
        BY <1>2, <3>2, <3>3, AboveIsPath
      <3>5. CASE AtOrIn(w, d)
        <4>1. d \in Range(DirPrefixes(w))
          BY <1>2, <2>1, <3>5, PrefixesAre
        <4>2. PICK i \in 1 .. Len(w) : d = SubSeq(w, 1, i)
          BY <1>2, <4>1, WhereIs DEF AllSet
        <4> QED BY <1>13, <4>2
      <3>6. CASE ~AtOrIn(w, d)
        <4>1. \A u \in Range(Tail(tasks)) : d \notin Range(Dirs(u.kind, u.path))
          BY <1>1, <2>1, <3>4, <3>6, LeftBehind
        <4> QED BY <1>3, <4>1 DEF DoneWith
      <3> QED BY <3>5, <3>6
    <2> QED BY <2>2, <2>3 DEF WalkOnce
  <1>15. ASSUME NEW d \in Beyond(w, k, n) PROVE OnStack(d)'
    <2>1. PICK i \in 1 .. n : d = SubSeq(w, 1, k + i)
      BY <1>15 DEF Beyond
    <2>2. k + i \in 1 .. Len(w)
      BY <1>2, <1>4, <1>5
    <2> QED BY <1>13, <2>1, <2>2
  <1>16. \A d \in Range(opened') : OnStack(d)' \/ DoneWith(d)'
    BY <1>6, <1>14, <1>15
  <1> QED BY <1>12, <1>16 DEF WalkOnce

\* The commands of a task, in its directory.
LEMMA TaskAccepted ==
    ASSUME AllSet, Consistent, NEW t \in Tasks, NEW e, StackOf(e, Where(t)),
           NEW n \in Nat, TokensUpTo(e, n), tokens.file \in Nat,
           NEW D, D \subseteq Required, NEW W, W \subseteq Tasks, t \notin W,
           NEW cmds, cmds = TaskCommands(t, e[Len(e)].token)
    PROVE  /\ cmds \in Seq(Cmds) /\ \A i \in 1 .. Len(cmds) : cmds[i].cmd # "close-edit"
           /\ Accepts(base, HeldBy(e), TreeOf(D, W), cmds, HeldBy(e), TreeOf(D, W \cup {t}))
  <1>0. Shape
    BY DEF AllSet
  <1>1. CASE t.kind = "dir"
    <2>1. StackOf(e, t.path)
      BY <1>1 DEF Where
    <2>2. /\ cmds \in Seq(Cmds) /\ \A i \in 1 .. Len(cmds) : cmds[i].cmd # "close-edit"
          /\ \A b, x : Accepts(b, HeldBy(e), x, cmds, HeldBy(e), x)
      BY <1>0, <1>1, <2>1, DirCommandsAre
    <2>3. TreeOf(D, W \cup {t}) = TreeOf(D, W)
      BY <1>1, TreeOfDirTask
    <2> QED BY <2>2, <2>3
  <1>2. CASE t.kind = "delete"
    <2>1. StackOf(e, Parent(t.path))
      BY <1>2 DEF Where
    <2>2. /\ cmds \in Seq(Cmds) /\ \A i \in 1 .. Len(cmds) : cmds[i].cmd # "close-edit"
          /\ \A b, x : x[t.path] # "none"
                       => Accepts(b, HeldBy(e), x, cmds, HeldBy(e), Without(x, t.path))
      BY <1>0, <1>2, <2>1, DeleteCommandsAre
    <2>3. ~SettledBy(D, W, t.path)
      BY <1>2, FreshTarget
    <2>4. /\ TreeOf(D, W)[t.path] # "none"
          /\ Without(TreeOf(D, W), t.path) = TreeOf(D, W \cup {t})
      BY <1>2, <2>3, TreeDeletes
    <2>5. Accepts(base, HeldBy(e), TreeOf(D, W), cmds, HeldBy(e), Without(TreeOf(D, W), t.path))
      BY <2>2, <2>4
    <2> QED BY <2>2, <2>4, <2>5
  <1>3. CASE t.kind = "file"
    <2>1. StackOf(e, Parent(t.path))
      BY <1>3 DEF Where
    <2>2. PICK c : c = FileOpened(t.path, e[Len(e)].token)
      OBVIOUS
    <2>3. /\ cmds \in Seq(Cmds) /\ \A i \in 1 .. Len(cmds) : cmds[i].cmd # "close-edit"
          /\ c.cmd = (IF FileAdded(t.path) THEN "add-file" ELSE "open-file")
          /\ c.path = t.path /\ c.from = fileOps[t.path].from
          /\ \A b, x : x[t.path] = Expected(c.cmd)
                       => Accepts(b, HeldBy(e), x, cmds, HeldBy(e), TxnAfter(b, c, x))
      BY <1>3, <2>1, <2>2, FileCommandsAre
    <2>4. ~SettledBy(D, W, t.path)
      BY <1>3, FreshTarget
    <2>5. /\ FileAdded(t.path)
             => /\ TreeOf(D, W)[t.path] = "none"
                /\ EntryIn(base, TreeOf(D, W), t.path, "file", fileOps[t.path].from)
                      = TreeOf(D, W \cup {t})
          /\ ~FileAdded(t.path)
             => TreeOf(D, W)[t.path] = "file" /\ TreeOf(D, W \cup {t}) = TreeOf(D, W)
      <3>1. FileAdded(t.path) <=> base[t.path] = "none"
        BY <1>3, FileOpIs DEF FileAdded
      <3> QED BY <1>3, <2>4, <3>1, TreeFile
    <2>6. PICK x : x = TreeOf(D, W)
      OBVIOUS
    <2>7. x[t.path] = Expected(c.cmd) /\ TxnAfter(base, c, x) = TreeOf(D, W \cup {t})
      <3>1. CASE FileAdded(t.path)
        <4>1. c.cmd = "add-file"
          BY <2>3, <3>1
        <4>2. Expected(c.cmd) = "none"
          BY <4>1 DEF Expected
        <4>3. TxnAfter(base, c, x) = EntryIn(base, x, t.path, "file", fileOps[t.path].from)
          BY <2>3, <4>1 DEF TxnAfter
        <4> QED BY <2>5, <2>6, <3>1, <4>2, <4>3
      <3>2. CASE ~FileAdded(t.path)
        <4>1. c.cmd = "open-file"
          BY <2>3, <3>2
        <4>2. Expected(c.cmd) = "file"
          BY <4>1 DEF Expected
        <4>3. TxnAfter(base, c, x) = x
          BY <4>1 DEF TxnAfter
        <4> QED BY <2>5, <2>6, <3>2, <4>2, <4>3
      <3> QED BY <3>1, <3>2
    <2>8. Accepts(base, HeldBy(e), x, cmds, HeldBy(e), TxnAfter(base, c, x))
      BY <2>3, <2>7
    <2> QED BY <2>3, <2>6, <2>7, <2>8
  <1> QED BY <1>1, <1>2, <1>3, TaskIs

\* What the drive says of a step of the walk.
LEMMA StepCommands ==
    ASSUME AllSet, NoNeighbours, WalkShape, NEW q, NEW t, NEW w, NEW k, NEW e,
           Meets(q, t, w, k, e)
    PROVE  /\ k + 1 \in 0 .. Len(stack) /\ StackOf(stack, q) /\ q \in Paths \cup {Root}
           /\ Closing(k + 1) \in Seq(Cmds) /\ Len(Closing(k + 1)) = Len(stack) - (k + 1)
           /\ \A i \in 1 .. Len(stack) - (k + 1) :
                 /\ Closing(k + 1)[i].cmd = "close-dir"
                 /\ Closing(k + 1)[i].path = stack[Len(stack) + 1 - i].path
                 /\ Closing(k + 1)[i].token = stack[Len(stack) + 1 - i].token
           /\ Opening(DirPrefixes(w), k) \in Seq(Cmds)
           /\ \A i \in 1 .. Len(Opening(DirPrefixes(w), k)) :
                 Opening(DirPrefixes(w), k)[i].cmd # "close-edit"
  <1>1. /\ w \in Paths \cup {Root} /\ q \in Paths \cup {Root} /\ StackOf(stack, q)
        /\ k \in 0 .. Len(w) /\ k <= Len(q) /\ StackOf(e, w) /\ e = Entered(DirPrefixes(w), k)
        /\ \A i \in 1 .. Len(w) - k :
              e[k + 1 + i] = [path |-> SubSeq(w, 1, k + i), token |-> <<"d", tokens.dir + i>>]
    BY DEF Meets, StackAt
  <1>2. Len(w) \in Nat /\ Len(q) \in Nat
    BY <1>1, PathIsSeq
  <1>3. k + 1 \in 0 .. Len(stack)
    BY <1>1, <1>2 DEF StackOf
  <1>4. /\ Closing(k + 1) \in Seq(Cmds) /\ Len(Closing(k + 1)) = Len(stack) - (k + 1)
        /\ \A i \in 1 .. Len(stack) - (k + 1) :
              /\ Closing(k + 1)[i].cmd = "close-dir"
              /\ Closing(k + 1)[i].path = stack[Len(stack) + 1 - i].path
              /\ Closing(k + 1)[i].token = stack[Len(stack) + 1 - i].token
    BY <1>1, <1>3, ClosingIs
  <1>5. /\ Opening(DirPrefixes(w), k) \in Seq(Cmds)
        /\ Len(Opening(DirPrefixes(w), k)) = Len(w) - k
        /\ \A i \in 1 .. Len(w) - k :
              Opening(DirPrefixes(w), k)[i].cmd
                 = IF dirPlans[SubSeq(w, 1, k + i)] = "open" THEN "open-dir" ELSE "add-dir"
    <2>1. Shape /\ tokens.dir \in Nat
      BY DEF AllSet, WalkShape
    <2>2. Opening(DirPrefixes(w), k) \in Seq(Cmds)
      BY <1>1, <2>1, OpeningIs
    <2>3. DirPrefixes(w) \in Seq(Paths) /\ Len(DirPrefixes(w)) = Len(w)
          /\ \A i \in 1 .. Len(w) : DirPrefixes(w)[i] = SubSeq(w, 1, i)
      BY <1>1, PrefixesAre
    <2>4. Len(Opening(DirPrefixes(w), k)) = Len(w) - k
      BY <1>1, <1>2, <2>3 DEF Opening
    <2>5. ASSUME NEW i \in 1 .. Len(w) - k
          PROVE  Opening(DirPrefixes(w), k)[i].cmd
                    = IF dirPlans[SubSeq(w, 1, k + i)] = "open" THEN "open-dir" ELSE "add-dir"
      <3>1. k + i \in 1 .. Len(w)
        BY <1>1, <1>2
      <3> QED BY <1>1, <1>2, <2>3, <3>1 DEF Opening, Command
    <2> QED BY <2>2, <2>4, <2>5
  <1> QED BY <1>1, <1>3, <1>4, <1>5

LEMMA PlainlyAll ==
    ASSUME NEW s, s \in Seq(Cmds), NEW r, r \in Seq(Cmds),
           \A i \in 1 .. Len(s) : s[i].cmd # "close-edit",
           \A i \in 1 .. Len(r) : r[i].cmd # "close-edit"
    PROVE  s \o r \in Seq(Cmds) /\ \A i \in 1 .. Len(s \o r) : (s \o r)[i].cmd # "close-edit"
  <1>1. PICK o : o = s \o r
    OBVIOUS
  <1>2. o \in Seq(Cmds)
    BY <1>1
  <1>3. Range(o) = Range(s) \cup Range(r)
    BY <1>1, RangeCat
  <1>4. \A c \in Range(s) \cup Range(r) : c.cmd # "close-edit"
    BY DEF Range
  <1>5. \A i \in 1 .. Len(o) : o[i] \in Range(o)
    BY <1>2 DEF Range
  <1> QED BY <1>1, <1>2, <1>3, <1>4, <1>5

LEMMA StepTask ==
    ASSUME AllSet, WalkShape, NEW q, NEW t, NEW w, NEW k, NEW e, Meets(q, t, w, k, e)
    PROVE  LET cmds == TaskCommands(t, e[Len(e)].token) IN
           cmds \in Seq(Cmds) /\ \A i \in 1 .. Len(cmds) : cmds[i].cmd # "close-edit"
  <1>1. /\ t \in Tasks /\ w = Where(t) /\ StackOf(e, w) /\ k \in 0 .. Len(w) /\ w \in Paths \cup {Root}
        /\ TokensUpTo(e, tokens.dir + Len(w) - k)
    BY DEF Meets
  <1>2. PICK cmds : cmds = TaskCommands(t, e[Len(e)].token)
    OBVIOUS
  <1>3. Shape /\ tokens.file \in Nat /\ tokens.dir \in Nat
    BY DEF AllSet, WalkShape
  <1>4. CASE t.kind = "dir"
    <2>1. StackOf(e, t.path)
      BY <1>1, <1>4 DEF Where
    <2> QED BY <1>1, <1>3, <1>4, <2>1, DirCommandsAre
  <1>5. CASE t.kind = "delete"
    <2>1. StackOf(e, Parent(t.path))
      BY <1>1, <1>5 DEF Where
    <2> QED BY <1>1, <1>3, <1>5, <2>1, DeleteCommandsAre
  <1>6. CASE t.kind = "file"
    <2>1. StackOf(e, Parent(t.path))
      BY <1>1, <1>6 DEF Where
    <2>2. PICK n \in Nat : n = tokens.dir + Len(w) - k
      <3>1. Len(w) \in Nat
        BY <1>1, PathIsSeq
      <3>2. tokens.dir + Len(w) - k \in Nat
        BY <1>1, <1>3, <3>1
      <3> QED BY <3>2
    <2>3. TokensUpTo(e, n)
      BY <1>1, <2>2
    <2> QED BY <1>1, <1>3, <1>6, <2>1, <2>3, FileCommandsAre
  <1> QED BY <1>1, <1>4, <1>5, <1>6, TaskIs

LEMMA PlainlyStep ==
    ASSUME AllSet, NoNeighbours, WalkShape, Plainly, Walk
    PROVE  Plainly'
  <1>1. PICK q, t, w, k, e : Meets(q, t, w, k, e) /\ Enters(t, w, k, e)
    BY WalkMeets
  <1>2. PICK a : a = Closing(k + 1)
    OBVIOUS
  <1>3. PICK b : b = Opening(DirPrefixes(w), k)
    OBVIOUS
  <1>4. PICK c : c = TaskCommands(t, e[Len(e)].token)
    OBVIOUS
  <1>5. a \in Seq(Cmds) /\ \A i \in 1 .. Len(a) : a[i].cmd # "close-edit"
    <2>1. a \in Seq(Cmds) /\ Len(a) = Len(stack) - (k + 1)
          /\ \A i \in 1 .. Len(stack) - (k + 1) : a[i].cmd = "close-dir"
      BY <1>1, <1>2, StepCommands
    <2> QED BY <2>1
  <1>6. b \in Seq(Cmds) /\ \A i \in 1 .. Len(b) : b[i].cmd # "close-edit"
    BY <1>1, <1>3, StepCommands
  <1>7. c \in Seq(Cmds) /\ \A i \in 1 .. Len(c) : c[i].cmd # "close-edit"
    BY <1>1, <1>4, StepTask
  <1>8. PICK x : x = commands \o a
    OBVIOUS
  <1>9. PICK y : y = x \o b
    OBVIOUS
  <1>10. x \in Seq(Cmds) /\ \A i \in 1 .. Len(x) : x[i].cmd # "close-edit"
    BY <1>5, <1>8, PlainlyAll DEF Plainly
  <1>11. y \in Seq(Cmds) /\ \A i \in 1 .. Len(y) : y[i].cmd # "close-edit"
    BY <1>6, <1>9, <1>10, PlainlyAll
  <1>12. PICK z : z = y \o c
    OBVIOUS
  <1>13. z \in Seq(Cmds) /\ \A i \in 1 .. Len(z) : z[i].cmd # "close-edit"
    BY <1>7, <1>11, <1>12, PlainlyAll
  <1>14. commands' = z
    BY <1>1, <1>2, <1>3, <1>4, <1>8, <1>9, <1>12 DEF Enters
  <1> QED BY <1>13, <1>14 DEF Plainly

\* The tree after a step of the walk.
LEMMA TreeAfter ==
    ASSUME UNCHANGED <<base, changes, plan>>
    PROVE  TreeOf(Range(opened), Walked)' = TreeOf(Range(opened'), Tasks \ Range(tasks'))
  <1>1. UNCHANGED <<base, changes, fileOps, dirOps, deletes>>
    BY DEF plan
  <1>2. \A p : Wanted(p)' = Wanted(p)
    BY <1>1 DEF Wanted, Asked, IsFileChange, IsDirChange
  <1>3. Walked' = Tasks \ Range(tasks')
    BY <1>1 DEF Walked, Tasks
  <1>4. \A p : SettledBy(Range(opened), Walked, p)'
               <=> SettledBy(Range(opened'), Tasks \ Range(tasks'), p)
    BY <1>1, <1>3 DEF SettledBy, CopiesDir, IsCopyTask, OpOf
  <1> QED BY <1>1, <1>2, <1>4 DEF TreeOf

LEMMA WalkDriveStep ==
    ASSUME AllSet, Consistent, NoNeighbours, WalkShape, WalkOnce, Plainly, WalkDrive, Walk
    PROVE  WalkDrive'
  <1>1. PICK q, t, w, k, e : Meets(q, t, w, k, e) /\ Enters(t, w, k, e)
    BY WalkMeets
  <1>2. PICK a : a = Closing(k + 1)
    OBVIOUS
  <1>3. PICK b : b = Opening(DirPrefixes(w), k)
    OBVIOUS
  <1>4. PICK c : c = TaskCommands(t, e[Len(e)].token)
    OBVIOUS
  <1>5. PICK D : D = Range(opened)
    OBVIOUS
  <1>6. PICK W : W = Walked
    OBVIOUS
  <1>7. PICK n : n = Len(w) - k
    OBVIOUS
  <1>8. PICK E : E = D \cup Beyond(w, k, n)
    OBVIOUS
  <1>9. PICK x : x = TreeOf(D, W)
    OBVIOUS
  <1>10. PICK y : y = TreeOf(E, W)
    OBVIOUS
  <1>11. /\ t \in Tasks /\ t \notin W /\ w = Where(t) /\ StackOf(e, w) /\ k \in 0 .. Len(w)
         /\ w \in Paths \cup {Root} /\ TokensUpTo(e, tokens.dir + Len(w) - k)
         /\ e = Entered(DirPrefixes(w), k) /\ SubSeq(e, 1, k + 1) = SubSeq(stack, 1, k + 1)
         /\ \A i \in 1 .. Len(w) - k :
               e[k + 1 + i] = [path |-> SubSeq(w, 1, k + i), token |-> <<"d", tokens.dir + i>>]
    BY <1>1, <1>6 DEF Meets
  <1>12. tokens.dir \in Nat /\ tokens.file \in Nat /\ D \subseteq Required /\ W \subseteq Tasks
    BY <1>5, <1>6 DEF WalkShape, Walked
  <1>13. PICK g : g = SubSeq(stack, 1, k + 1)
    OBVIOUS
  <1>14. Accepts(base, HeldBy(stack), x, a, HeldBy(g), x)
    <2>1. /\ k + 1 \in 0 .. Len(stack) /\ StackOf(stack, q) /\ q \in Paths \cup {Root}
          /\ Len(a) = Len(stack) - (k + 1)
          /\ \A i \in 1 .. Len(stack) - (k + 1) :
                /\ a[i].cmd = "close-dir"
                /\ a[i].path = stack[Len(stack) + 1 - i].path
                /\ a[i].token = stack[Len(stack) + 1 - i].token
      BY <1>1, <1>2, StepCommands
    <2>2. Nested(stack)
      BY <2>1, StackIsNested
    <2>3. PICK m \in Nat : m = Len(stack)
      BY <2>1 DEF StackOf
    <2>4. "close-dir" \in Closes
      BY DEF Closes
    <2> QED BY <1>13, <2>1, <2>2, <2>3, <2>4, ClosesAccepted
  <1>15. Accepts(base, HeldBy(g), x, b, HeldBy(e), y)
    <2>1. \A i \in 1 .. Len(w) - k : SubSeq(w, 1, k + i) \notin D
      BY <1>1, <1>5, OpenedAfresh
    <2>2. Accepts(base, HeldBy(SubSeq(e, 1, k + 1)), TreeOf(D, W), Opening(DirPrefixes(w), k),
                  HeldBy(e), TreeOf(D \cup Beyond(w, k, Len(w) - k), W))
      BY <1>11, <1>12, <2>1, OpeningAccepted
    <2> QED BY <1>3, <1>7, <1>8, <1>9, <1>10, <1>11, <1>13, <2>2
  <1>16. E = Range(opened') /\ E \subseteq Required
    BY <1>1, <1>5, <1>7, <1>8, OpenedNow
  <1>17. Accepts(base, HeldBy(e), y, c, HeldBy(e), TreeOf(E, W \cup {t}))
    <2>1. PICK m \in Nat : m = tokens.dir + Len(w) - k
      <3>1. Len(w) \in Nat
        BY <1>11, PathIsSeq
      <3>2. tokens.dir + Len(w) - k \in Nat
        BY <1>11, <1>12, <3>1
      <3> QED BY <3>2
    <2>2. StackOf(e, Where(t)) /\ TokensUpTo(e, m)
      BY <1>11, <2>1
    <2> QED BY <1>4, <1>10, <1>11, <1>12, <1>16, <2>1, <2>2, TaskAccepted
  <1>18. a \in Seq(Cmds) /\ b \in Seq(Cmds) /\ c \in Seq(Cmds) /\ commands \in Seq(Cmds)
    BY <1>1, <1>2, <1>3, <1>4, StepCommands, StepTask DEF Plainly
  <1>19. PICK r : r = commands \o a
    OBVIOUS
  <1>20. PICK s : s = r \o b
    OBVIOUS
  <1>21. r \in Seq(Cmds) /\ s \in Seq(Cmds)
    BY <1>18, <1>19, <1>20
  <1>22. Accepts(base, held, txn, r, HeldBy(g), x)
    <2>1. Accepts(base, held, txn, commands, HeldBy(stack), x)
      BY <1>5, <1>6, <1>9 DEF WalkDrive
    <2> QED BY <1>14, <1>18, <1>19, <2>1, AcceptsThen
  <1>23. Accepts(base, held, txn, s, HeldBy(e), y)
    BY <1>15, <1>18, <1>20, <1>21, <1>22, AcceptsThen
  <1>24. Accepts(base, held, txn, s \o c, HeldBy(e), TreeOf(E, W \cup {t}))
    BY <1>17, <1>18, <1>21, <1>23, AcceptsThen
  <1>25. commands' = s \o c /\ stack' = e /\ tasks' = Tail(tasks)
         /\ UNCHANGED <<base, changes, plan, server>>
    BY <1>1, <1>2, <1>3, <1>4, <1>19, <1>20 DEF Enters
  <1>26. Tasks \ Range(tasks') = W \cup {t}
    <2>1. t = Head(tasks) /\ t \in Range(tasks)
      BY <1>1 DEF Meets
    <2>2. tasks # <<>>
      BY <2>1, RangeOne
    <2>3. Range(tasks') = Range(tasks) \ {t}
      BY <1>25, <2>1, <2>2, TakeTask DEF WalkShape
    <2> QED BY <1>6, <1>11, <2>3 DEF Walked
  <1>27. TreeOf(Range(opened), Walked)' = TreeOf(E, W \cup {t})
    BY <1>16, <1>25, <1>26, TreeAfter
  <1>28. base' = base /\ held' = held /\ txn' = txn
    BY <1>25 DEF server
  <1>29. WalkDrive' <=> Accepts(base', held', txn', commands', HeldBy(stack'),
                                TreeOf(Range(opened), Walked)')
    BY DEF WalkDrive
  <1> QED BY <1>24, <1>25, <1>27, <1>28, <1>29

-----------------------------------------------------------------------------
(* The whole drive.                                                        *)

LEMMA SameChanges ==
    ASSUME UNCHANGED <<base, changes>>
    PROVE  /\ Consistent' <=> Consistent
           /\ NoNeighbours' <=> NoNeighbours
           /\ [p \in Paths |-> Wanted(p)]' = [p \in Paths |-> Wanted(p)]
  <1>1. Consistent' <=> Consistent
    BY DEF Consistent, Asked, IsFileChange, IsDirChange
  <1>2. NoNeighbours' <=> NoNeighbours
    BY DEF NoNeighbours, Asked
  <1>3. \A p : Wanted(p)' = Wanted(p)
    BY DEF Wanted, Asked, IsFileChange, IsDirChange
  <1> QED BY <1>1, <1>2, <1>3

\* What the walk keeps, and what the drive keeps after it.
InWalk == WalkShape /\ Plainly /\ (Consistent => WalkOnce /\ WalkDrive)

Finishes ==
    /\ Accepts(base, held, txn, commands, HeldBy(<<>>), [p \in Paths |-> Wanted(p)])
    /\ \A i \in 1 .. Len(commands) : commands[i].cmd = "close-edit" => i = Len(commands)
    /\ pc = "committed" => commands = <<>>

InDrive ==
    /\ commands \in Seq(Cmds) /\ opened \in Seq(Paths)
    /\ txn \in [Paths -> Kinds] /\ \A t \in DOMAIN held : held[t] \in Paths \cup {Root}
    /\ Consistent => Once /\ Finishes /\ pc # "rejected"

LEMMA WalkBegins ==
    ASSUME AllSet, Untouched, NoNeighbours, OpenRoot
    PROVE  InWalk'
  <1>1. PICK g \in Entries : g = [path |-> Root, token |-> RootToken]
    <2>1. Root \in Paths \cup {Root} /\ RootToken \in Tokens
      BY DEF RootToken, Tokens
    <2> QED BY <2>1 DEF Entries
  <1>2. PICK s : s = <<g>>
    OBVIOUS
  <1>3. PICK c : c = Command("open-root", Root, RootToken, RootToken)
    OBVIOUS
  <1>4. c \in Cmds /\ c.cmd = "open-root" /\ c.path = Root /\ c.token = RootToken
    <2>1. "open-root" \in CmdNames /\ RootToken \in Tokens
      BY DEF CmdNames, RootToken, Tokens
    <2> QED BY <1>3, <2>1, CommandIs
  <1>5. /\ pc = "sort" /\ tasks' = Sorted /\ stack' = s /\ commands' = <<c>>
        /\ UNCHANGED <<base, changes, plan, tokens, opened, txn, held>>
    BY <1>1, <1>2, <1>3 DEF OpenRoot, server
  <1>6. txn = base /\ held = <<>> /\ opened = <<>> /\ tokens = [dir |-> 0, file |-> 0]
    BY <1>5 DEF Untouched
  <1>7. Tasks' = Tasks /\ Required' = Required
    BY <1>5 DEF Tasks, Required, plan
  <1>8. tasks' \in Seq(Tasks) /\ Strictly(tasks') /\ Range(tasks') = Tasks
    BY <1>5, SortedIs
  <1>9. StackOf(s, Root) /\ TokensUpTo(s, 0)
    <2>1. s \in Seq(Entries) /\ Len(s) = 1 /\ s[1] = g
      BY <1>2
    <2>2. Len(Root) = 0 /\ SubSeq(Root, 1, 0) = Root /\ \A i \in 1 .. 1 : i = 1 /\ i - 1 = 0
      BY RootIs DEF Root
    <2>3. StackOf(s, Root)
      <3>1. Len(s) = Len(Root) + 1 /\ s \in Seq(Entries)
        BY <2>1, <2>2
      <3>2. \A i \in 1 .. Len(s) : i = 1
        BY <2>1
      <3>3. s[1].path = Root
        BY <1>1, <2>1
      <3>4. \A i \in 1 .. Len(s) : s[i].path = SubSeq(Root, 1, i - 1)
        <4>1. 1 - 1 = 0
          OBVIOUS
        <4> QED BY <2>2, <3>2, <3>3, <4>1
      <3> QED BY <3>1, <3>2, <3>4 DEF StackOf
    <2>4. s[1].token = RootToken /\ \A i \in 2 .. Len(s) : FALSE
      BY <1>1, <2>1
    <2> QED BY <2>3, <2>4 DEF TokensUpTo
  <1>10. StackAt(Root)'
    <2>1. \A i \in 2 .. Len(s) : FALSE
      BY <1>2
    <2>2. \A t \in Tasks : NotAfter(Root, t.path)
      <3>1. ASSUME NEW t \in Tasks PROVE NotAfter(Root, t.path)
        <4>1. t.path \in Seq(Names) /\ Root \in Seq(Names)
          BY TaskSeq, RootIs
        <4>2. t.path \in Seq(Nat) /\ Root \in Seq(Nat)
          BY <4>1, NameAssumption, SeqGrows
        <4> QED BY <4>1, <4>2, RootIs, NotAfterIs
      <3> QED BY <3>1
    <2>3. tokens'.dir = 0
      BY <1>5, <1>6
    <2> QED BY <1>5, <1>8, <1>9, <2>1, <2>2, <2>3 DEF StackAt
  <1>11. opened' = <<>> /\ opened' \in Seq(Paths) /\ Range(opened') = {}
    BY <1>5, <1>6, RangeOne
  <1>12. WalkShape'
    <2>1. Strictly(tasks)'
      BY <1>8 DEF Strictly
    <2>2. tokens'.dir \in Nat /\ tokens'.file \in Nat
      BY <1>5, <1>6
    <2>3. Walked' = {}
      BY <1>7, <1>8 DEF Walked
    <2> QED BY <1>7, <1>8, <1>10, <1>11, <2>1, <2>2, <2>3 DEF WalkShape
  <1>13. Plainly'
    <2>1. <<c>> \in Seq(Cmds) /\ \A i \in 1 .. Len(<<c>>) : <<c>>[i].cmd # "close-edit"
      BY <1>4
    <2> QED BY <1>5, <2>1 DEF Plainly
  <1>14. WalkOnce'
    <2>1. DOMAIN opened' = {}
      BY <1>11
    <2> QED BY <1>11, <2>1 DEF WalkOnce, Once
  <1>15. WalkDrive'
    <2>1. Accepts(base, held, txn, <<c>>, HeldAfter(c, held), TxnAfter(base, c, txn))
      <3>1. Fine(c, held, txn)
        BY <1>4 DEF Fine, Opens, Closes
      <3> QED BY <3>1, AcceptsOne
    <2>2. HeldAfter(c, held) = HeldBy(s)
      <3>1. Nested(s)
        BY <1>9, StackIsNested
      <3>2. Len(s) = 1 /\ s[1] = g /\ \A i : i \in 1 .. 1 <=> i = 1
        BY <1>2
      <3>3. TokensOf(s) = {RootToken}
        BY <1>1, <3>2 DEF TokensOf
      <3>4. DOMAIN held = {}
        BY <1>6
      <3>5. HeldAfter(c, held) = [t \in {RootToken} |-> Root]
        BY <1>4, <3>4 DEF HeldAfter, Put, Opens
      <3>6. PICK h : h = [t \in {RootToken} |-> Root]
        OBVIOUS
      <3>7. h = [t \in TokensOf(s) |-> h[t]] /\ \A i \in 1 .. Len(s) : h[s[i].token] = s[i].path
        BY <1>1, <3>2, <3>3, <3>6
      <3>8. h = HeldBy(s)
        BY <3>1, <3>7, HeldByOnly
      <3> QED BY <3>5, <3>6, <3>8
    <2>3. TxnAfter(base, c, txn) = base
      BY <1>4, <1>6 DEF TxnAfter
    <2>4. TreeOf(Range(opened), Walked)' = base
      <3>1. Tasks \ Range(tasks') = {}
        BY <1>8
      <3>2. TreeOf(Range(opened), Walked)' = TreeOf(Range(opened'), Tasks \ Range(tasks'))
        BY <1>5, TreeAfter
      <3> QED BY <1>11, <3>1, <3>2, TreeStarts
    <2>5. WalkDrive' <=> Accepts(base', held', txn', commands', HeldBy(stack'),
                                 TreeOf(Range(opened), Walked)')
      BY DEF WalkDrive
    <2> QED BY <1>5, <2>1, <2>2, <2>3, <2>4, <2>5
  <1> QED BY <1>12, <1>13, <1>14, <1>15 DEF InWalk

LEMMA WalkGoesOn ==
    ASSUME AllSet, NoNeighbours, InWalk, Walk
    PROVE  InWalk'
  <1>1. WalkShape' /\ Plainly'
    BY WalkShapeStep, PlainlyStep DEF InWalk
  <1>2. UNCHANGED <<base, changes>>
    BY DEF Walk
  <1>3. Consistent => WalkOnce' /\ WalkDrive'
    BY WalkOnceStep, WalkDriveStep DEF InWalk
  <1> QED BY <1>1, <1>2, <1>3, SameChanges DEF InWalk

LEMMA WalkEnds ==
    ASSUME AllSet, Untouched, NoNeighbours, InWalk, CloseAll
    PROVE  InDrive'
  <1>1. PICK a : a = Closing(0)
    OBVIOUS
  <1>2. PICK z : z = Command("close-edit", Root, RootToken, RootToken)
    OBVIOUS
  <1>3. /\ pc = "walk" /\ tasks = <<>> /\ commands' = commands \o a \o <<z>> /\ pc' = "drive"
        /\ UNCHANGED <<base, changes, opened, txn, held>>
    BY <1>1, <1>2 DEF CloseAll, server
  <1>4. z \in Cmds /\ z.cmd = "close-edit"
    <2>1. "close-edit" \in CmdNames /\ RootToken \in Tokens
      BY DEF CmdNames, RootToken, Tokens
    <2> QED BY <1>2, <2>1, CommandIs
  <1>5. PICK q \in Paths \cup {Root} : StackAt(q)
    BY DEF InWalk, WalkShape
  <1>6. StackOf(stack, q) /\ Nested(stack)
    BY <1>5, StackIsNested DEF StackAt
  <1>7. PICK n \in Nat : n = Len(stack)
    BY <1>6 DEF StackOf
  <1>8. /\ a \in Seq(Cmds) /\ Len(a) = n - 0
        /\ \A i \in 1 .. n - 0 : /\ a[i].cmd = "close-dir"
                                 /\ a[i].path = stack[n + 1 - i].path
                                 /\ a[i].token = stack[n + 1 - i].token
    <2>1. 0 \in 0 .. Len(stack)
      BY <1>7
    <2> QED BY <1>1, <1>6, <1>7, <2>1, ClosingIs
  <1>9. PICK r : r = commands \o a
    OBVIOUS
  <1>10. r \in Seq(Cmds) /\ \A i \in 1 .. Len(r) : r[i].cmd # "close-edit"
    <2>1. \A i \in 1 .. Len(a) : a[i].cmd # "close-edit"
      BY <1>8
    <2> QED BY <1>8, <1>9, <2>1, PlainlyAll DEF InWalk, Plainly
  <1>11. PICK m \in Nat : m = Len(r)
    BY <1>10
  <1>12. /\ r \o <<z>> \in Seq(Cmds) /\ Len(r \o <<z>>) = m + 1
         /\ \A i \in 1 .. m : (r \o <<z>>)[i] = r[i]
    BY <1>4, <1>10, <1>11
  <1>13. ASSUME NEW i \in 1 .. Len(r \o <<z>>), (r \o <<z>>)[i].cmd = "close-edit"
         PROVE  i = Len(r \o <<z>>)
    <2>1. i \in 1 .. m \/ i = m + 1
      BY <1>12
    <2> QED BY <1>10, <1>11, <1>12, <1>13, <2>1
  <1>14. opened \in Seq(Paths) /\ txn = base /\ held = <<>>
    BY <1>3 DEF InWalk, WalkShape, Untouched
  <1>15. ASSUME Consistent
         PROVE  Accepts(base, held, txn, r \o <<z>>, HeldBy(<<>>), [p \in Paths |-> Wanted(p)])
    <2>1. Required \subseteq Range(opened)
      <3>1. Walked = Tasks
        BY <1>3, RangeOne DEF Walked
      <3> QED BY <3>1 DEF InWalk, WalkShape, Required
    <2>2. TreeOf(Range(opened), Walked) = [p \in Paths |-> Wanted(p)]
      <3>1. Walked = Tasks
        BY <1>3, RangeOne DEF Walked
      <3> QED BY <1>15, <2>1, <3>1, TreeEnds
    <2>3. PICK x : x = [p \in Paths |-> Wanted(p)]
      OBVIOUS
    <2>4. Accepts(base, held, txn, commands, HeldBy(stack), x)
      BY <1>15, <2>2, <2>3 DEF InWalk, WalkDrive
    <2>5. Accepts(base, HeldBy(stack), x, a, HeldBy(<<>>), x)
      <3>1. "close-dir" \in Closes /\ 0 \in 0 .. n
        BY DEF Closes
      <3>2. SubSeq(stack, 1, 0) = <<>>
        OBVIOUS
      <3>3. Accepts(base, HeldBy(stack), x, a, HeldBy(SubSeq(stack, 1, 0)), x)
        BY <1>6, <1>7, <1>8, <3>1, ClosesAccepted
      <3> QED BY <3>2, <3>3
    <2>6. Accepts(base, HeldBy(<<>>), x, <<z>>, HeldBy(<<>>), x)
      <3>1. DOMAIN HeldBy(<<>>) = {}
        BY DEF HeldBy, TokensOf
      <3>2. /\ Fine(z, HeldBy(<<>>), x) /\ HeldAfter(z, HeldBy(<<>>)) = HeldBy(<<>>)
        BY <1>4, <3>1 DEF Fine, HeldAfter, Opens, Closes
      <3>3. TxnAfter(base, z, x) = x
        BY <1>4 DEF TxnAfter
      <3>4. Accepts(base, HeldBy(<<>>), x, <<z>>, HeldAfter(z, HeldBy(<<>>)), TxnAfter(base, z, x))
        BY <3>2, AcceptsOne
      <3> QED BY <3>2, <3>3, <3>4
    <2>7. Accepts(base, held, txn, r, HeldBy(<<>>), x)
      BY <1>8, <1>9, <2>4, <2>5, AcceptsThen DEF InWalk, Plainly
    <2>8. <<z>> \in Seq(Cmds)
      BY <1>4
    <2>9. Accepts(base, held, txn, r \o <<z>>, HeldBy(<<>>), x)
      BY <1>10, <2>6, <2>7, <2>8, AcceptsThen
    <2> QED BY <2>3, <2>9
  <1>16. commands' = r \o <<z>>
    BY <1>3, <1>9
  <1>17. Consistent' => Once' /\ Finishes'
    <2>1. (Consistent' <=> Consistent)
          /\ [p \in Paths |-> Wanted(p)]' = [p \in Paths |-> Wanted(p)]
      BY <1>3, SameChanges
    <2>2. Consistent => Once'
      BY <1>3 DEF InWalk, WalkOnce, Once
    <2>3. Consistent => Finishes'
      <3>1. Finishes' <=>
               /\ Accepts(base', held', txn', commands', HeldBy(<<>>), [p \in Paths |-> Wanted(p)]')
               /\ \A i \in 1 .. Len(commands') : commands'[i].cmd = "close-edit" => i = Len(commands')
               /\ pc' = "committed" => commands' = <<>>
        BY DEF Finishes
      <3> QED BY <1>3, <1>13, <1>15, <1>16, <2>1, <3>1
    <2> QED BY <2>1, <2>2, <2>3
  <1>18. commands' \in Seq(Cmds) /\ opened' \in Seq(Paths) /\ pc' # "rejected"
    BY <1>3, <1>12, <1>14, <1>16
  <1>19. txn' \in [Paths -> Kinds] /\ DOMAIN held' = {}
    BY <1>3, <1>14 DEF AllSet, Shape
  <1> QED BY <1>17, <1>18, <1>19 DEF InDrive

LEMMA ServerTypes ==
    ASSUME base \in [Paths -> Kinds], NEW c \in Cmds, NEW x \in [Paths -> Kinds],
           NEW h, \A t \in DOMAIN h : h[t] \in Paths \cup {Root}
    PROVE  /\ TxnAfter(base, c, x) \in [Paths -> Kinds]
           /\ \A t \in DOMAIN HeldAfter(c, h) : HeldAfter(c, h)[t] \in Paths \cup {Root}
  <1>1. \A p : KindAt(base, p) \in Kinds
    BY DEF KindAt, Kinds
  <1>2. \A kind \in Kinds : EntryIn(base, x, c.path, kind, c.from) \in [Paths -> Kinds]
    <2>1. ASSUME NEW kind \in Kinds, NEW p \in Paths
          PROVE  EntryIn(base, x, c.path, kind, c.from)[p] \in Kinds
      BY <1>1 DEF EntryIn
    <2> QED BY <2>1 DEF EntryIn
  <1>3. Without(x, c.path) \in [Paths -> Kinds]
    BY DEF Without, Kinds
  <1>4. "dir" \in Kinds /\ "file" \in Kinds
    BY DEF Kinds
  <1>5. TxnAfter(base, c, x) \in [Paths -> Kinds]
    BY <1>2, <1>3, <1>4 DEF TxnAfter
  <1>6. c.path \in Paths \cup {Root}
    BY DEF Cmds
  <1>7. \A t \in DOMAIN HeldAfter(c, h) : HeldAfter(c, h)[t] \in Paths \cup {Root}
    <2>1. CASE c.cmd \in Opens \cup {"open-root"}
      BY <1>6, <2>1 DEF HeldAfter, Put
    <2>2. CASE c.cmd \notin Opens \cup {"open-root"} /\ c.cmd \in Closes
      BY <2>2 DEF HeldAfter
    <2>3. CASE c.cmd \notin Opens \cup {"open-root"} /\ c.cmd \notin Closes
      BY <2>3 DEF HeldAfter
    <2> QED BY <2>1, <2>2, <2>3
  <1> QED BY <1>5, <1>7

LEMMA DriveGoesOn ==
    ASSUME base \in [Paths -> Kinds], InDrive, Apply
    PROVE  InDrive'
  <1>1. PICK c : c = Head(commands)
    OBVIOUS
  <1>2. /\ pc = "drive" /\ commands # <<>> /\ UNCHANGED <<base, changes, opened>>
    BY DEF Apply
  <1>3. c \in Cmds /\ Tail(commands) \in Seq(Cmds) /\ commands \in Seq(Cmds)
    BY <1>1, <1>2 DEF InDrive
  <1>4. /\ Consistent' <=> Consistent
        /\ [p \in Paths |-> Wanted(p)]' = [p \in Paths |-> Wanted(p)]
    BY <1>2, SameChanges
  <1>5. Once => Once'
    BY <1>2 DEF Once
  <1>6. CASE Acceptable(c)
    <2>1. /\ held' = HeldAfter(c, held) /\ txn' = TxnAfter(base, c, txn)
          /\ commands' = Tail(commands)
          /\ pc' = IF c.cmd = "close-edit" THEN "committed" ELSE pc
      BY <1>1, <1>6, ServerIs DEF Apply
    <2>2. /\ txn' \in [Paths -> Kinds] /\ \A t \in DOMAIN held' : held'[t] \in Paths \cup {Root}
      BY <1>3, <2>1, ServerTypes DEF InDrive
    <2>3. ASSUME Consistent PROVE Once' /\ Finishes' /\ pc' # "rejected"
      <3>1. Once /\ Finishes
        BY <2>3 DEF InDrive
      <3>2. PICK x : x = [p \in Paths |-> Wanted(p)]
        OBVIOUS
      <3>3. Accepts(base, held, txn, commands, HeldBy(<<>>), x)
        BY <3>1, <3>2 DEF Finishes
      <3>4. Accepts(base, held', txn', Tail(commands), HeldBy(<<>>), x)
        BY <1>1, <1>2, <1>3, <2>1, <3>3, AcceptsFirst
      <3>5. PICK n \in Nat : Len(commands) = n + 1
        <4>1. Len(commands) \in Nat /\ Len(commands) # 0
          BY <1>2, <1>3
        <4>2. Len(commands) - 1 \in Nat /\ Len(commands) = (Len(commands) - 1) + 1
          BY <4>1
        <4> QED BY <4>2
      <3>6. Len(Tail(commands)) = n /\ \A i \in 1 .. n : Tail(commands)[i] = commands[i + 1]
        BY <1>3, <3>5
      <3>7. ASSUME NEW i \in 1 .. n, Tail(commands)[i].cmd = "close-edit" PROVE i = n
        <4>1. i + 1 \in 1 .. Len(commands) /\ commands[i + 1].cmd = "close-edit"
          BY <3>5, <3>6, <3>7
        <4>2. i + 1 = Len(commands)
          BY <3>1, <4>1 DEF Finishes
        <4> QED BY <3>5, <4>2
      <3>8. ASSUME pc' = "committed" PROVE commands' = <<>>
        <4>1. c.cmd = "close-edit"
          BY <1>2, <2>1, <3>8
        <4>2. 1 \in 1 .. Len(commands) /\ commands[1].cmd = "close-edit"
          BY <1>1, <1>3, <3>5, <4>1
        <4>3. 1 = Len(commands)
          BY <3>1, <4>2 DEF Finishes
        <4>4. n = 0
          BY <3>5, <4>3
        <4> QED BY <1>3, <2>1, <3>6, <4>4
      <3>9. Finishes' <=>
               /\ Accepts(base', held', txn', commands', HeldBy(<<>>), [p \in Paths |-> Wanted(p)]')
               /\ \A i \in 1 .. Len(commands') : commands'[i].cmd = "close-edit" => i = Len(commands')
               /\ pc' = "committed" => commands' = <<>>
        BY DEF Finishes
      <3>10. Finishes'
        BY <1>2, <1>4, <2>1, <3>2, <3>4, <3>6, <3>7, <3>8, <3>9
      <3> QED BY <1>2, <1>5, <2>1, <3>1, <3>10
    <2> QED BY <1>2, <1>3, <1>4, <2>1, <2>2, <2>3 DEF InDrive
  <1>7. CASE ~Acceptable(c)
    <2>1. UNCHANGED <<commands, txn, held>>
      BY <1>1, <1>7 DEF Apply, server
    <2>2. ASSUME Consistent PROVE FALSE
      <3>1. Accepts(base, held, txn, commands, HeldBy(<<>>), [p \in Paths |-> Wanted(p)])
        BY <2>2 DEF InDrive, Finishes
      <3>2. Fine(c, held, txn)
        BY <1>1, <1>2, <1>3, <3>1, AcceptsFirst
      <3> QED BY <1>7, <3>2, ServerIs
    <2> QED BY <1>2, <1>4, <2>1, <2>2 DEF InDrive
  <1> QED BY <1>6, <1>7

-----------------------------------------------------------------------------
(* The invariant, and what it says.                                        *)

PlanInv ==
    /\ Shape /\ Gathered /\ Checked /\ Untouched
    /\ NoNeighbours => /\ pc = "walk" => InWalk
                       /\ pc \in {"drive", "committed", "rejected"} => InDrive

LEMMA PlanInvInit == Init => PlanInv
  <1> SUFFICES ASSUME Init PROVE PlanInv
    OBVIOUS
  <1>1. pc = "ask"
    BY DEF Init
  <1> QED BY <1>1, ShapeInit, GatheredInit, CheckedInit DEF PlanInv

LEMMA PlanInvStep == ASSUME PlanInv, [Next]_vars PROVE PlanInv'
  <1>1. Shape /\ Gathered /\ Checked /\ Untouched
    BY DEF PlanInv
  <1>2. Shape' /\ Gathered' /\ Checked' /\ Untouched'
    BY <1>1, ShapeStep, GatheredStep, CheckedStep, UntouchedStep
  <1>3. SUFFICES ASSUME NoNeighbours'
                 PROVE  /\ pc' = "walk" => InWalk'
                        /\ pc' \in {"drive", "committed", "rejected"} => InDrive'
    BY <1>2 DEF PlanInv
  <1>4. CASE UNCHANGED vars
    <2>1. UNCHANGED <<base, changes, pc, fileOps, dirOps, deletes, copies, dirPlans, tasks, stack, tokens,
                      commands, opened, txn, held>>
      BY <1>4 DEF vars, plan, walk, server
    <2>2. NoNeighbours /\ (Consistent' <=> Consistent)
          /\ [p \in Paths |-> Wanted(p)]' = [p \in Paths |-> Wanted(p)]
      BY <1>3, <2>1, SameChanges
    <2>3. InWalk => InWalk'
      <3>1. Tasks' = Tasks /\ Required' = Required
        BY <2>1 DEF Tasks, Required
      <3>2. Walked' = Walked
        BY <2>1, <3>1 DEF Walked
      <3>3. WalkShape => WalkShape'
        <4>1. \A q : StackAt(q)' <=> StackAt(q)
          BY <2>1 DEF StackAt
        <4> QED BY <2>1, <3>1, <3>2, <4>1 DEF WalkShape
      <3>4. Plainly => Plainly'
        BY <2>1 DEF Plainly
      <3>5. WalkOnce => WalkOnce'
        BY <2>1 DEF WalkOnce, Once, OnStack, DoneWith
      <3>6. WalkDrive => WalkDrive'
        <4>1. TreeOf(Range(opened), Walked)' = TreeOf(Range(opened), Walked)
          <5>1. UNCHANGED <<base, changes, plan>>
            BY <2>1 DEF plan
          <5>2. TreeOf(Range(opened), Walked)' = TreeOf(Range(opened'), Tasks \ Range(tasks'))
            BY <5>1, TreeAfter
          <5> QED BY <2>1, <5>2 DEF Walked
        <4>2. WalkDrive' <=> Accepts(base', held', txn', commands', HeldBy(stack'),
                                     TreeOf(Range(opened), Walked)')
          BY DEF WalkDrive
        <4> QED BY <2>1, <4>1, <4>2 DEF WalkDrive
      <3> QED BY <2>2, <3>3, <3>4, <3>5, <3>6 DEF InWalk
    <2>4. InDrive => InDrive'
      <3>1. Finishes' <=>
               /\ Accepts(base', held', txn', commands', HeldBy(<<>>), [p \in Paths |-> Wanted(p)]')
               /\ \A i \in 1 .. Len(commands') : commands'[i].cmd = "close-edit" => i = Len(commands')
               /\ pc' = "committed" => commands' = <<>>
        BY DEF Finishes
      <3>2. Finishes => Finishes'
        BY <2>1, <2>2, <3>1 DEF Finishes
      <3>3. Once => Once'
        BY <2>1 DEF Once
      <3> QED BY <2>1, <2>2, <3>2, <3>3 DEF InDrive
    <2> QED BY <2>1, <2>2, <2>3, <2>4 DEF PlanInv
  <1>5. CASE Asks \/ Begins \/ Fails \/ FoldsOne \/ FoldEnds \/ CopiesOne \/ ConflictFree
             \/ Plans \/ Resolves
    <2>1. pc' \notin {"walk", "drive", "committed", "rejected"}
      BY <1>1, <1>5, CopyEffect DEF Asks, Ask, Begins, Fails, Fail, FoldsOne, FoldEnds, ConflictFree,
                                    Plans, Resolves, GoOn
    <2> QED BY <2>1
  <1>6. CASE OpenRoot
    <2>1. pc = "sort" /\ pc' = "walk" /\ UNCHANGED <<base, changes>>
      BY <1>6 DEF OpenRoot
    <2>2. AllSet /\ NoNeighbours
      BY <1>1, <1>3, <2>1, SameChanges DEF AllSet, Ready
    <2> QED BY <1>1, <1>6, <2>1, <2>2, WalkBegins
  <1>7. CASE Walk
    <2>1. pc = "walk" /\ pc' = "walk" /\ UNCHANGED <<base, changes>>
      BY <1>7 DEF Walk
    <2>2. AllSet /\ NoNeighbours
      BY <1>1, <1>3, <2>1, SameChanges DEF AllSet, Ready
    <2> QED BY <1>7, <2>1, <2>2, WalkGoesOn DEF PlanInv
  <1>8. CASE CloseAll
    <2>1. pc = "walk" /\ pc' = "drive" /\ UNCHANGED <<base, changes>>
      BY <1>8 DEF CloseAll
    <2>2. AllSet /\ NoNeighbours
      BY <1>1, <1>3, <2>1, SameChanges DEF AllSet, Ready
    <2> QED BY <1>1, <1>8, <2>1, <2>2, WalkEnds DEF PlanInv
  <1>9. CASE Apply
    <2>1. pc = "drive" /\ pc' \in {"drive", "committed", "rejected"} /\ UNCHANGED <<base, changes>>
      BY <1>9 DEF Apply
    <2>2. NoNeighbours /\ base \in [Paths -> Kinds]
      BY <1>1, <1>3, <2>1, SameChanges DEF Shape
    <2> QED BY <1>9, <2>1, <2>2, DriveGoesOn DEF PlanInv
  <1> QED BY <1>1, <1>4, <1>5, <1>6, <1>7, <1>8, <1>9, StepKinds DEF Shape

\* The builder gathers what the changes ask for, whatever their order
\* (build_editor_commands, the reader's commit), rules out what it checks for, and walks
\* the sorted paths so that the server is always where the walk is.
THEOREM PlanInvariant == Spec => []PlanInv
  <1>1. PlanInv /\ [Next]_vars => PlanInv'
    BY PlanInvStep
  <1> QED BY <1>1, PlanInvInit, PTL DEF Spec

\* A drive made of consistent changes is accepted, from the first command to the
\* last (Apply), if no change is inside a name that the path of another one
\* continues with a byte below the slash.
THEOREM DriveAccepted == Spec => [](NoNeighbours => DriveIsAccepted)
  <1>1. PlanInv => (NoNeighbours => DriveIsAccepted)
    BY DEF PlanInv, InDrive, DriveIsAccepted
  <1> QED BY <1>1, PlanInvariant, PTL

\* The walk opens every directory once, and the commit makes the tree that was
\* asked for (Walk, CloseAll, Apply), under the same condition.
THEOREM TreeBuilt == Spec => [](NoNeighbours => BuildsTheTree)
  <1>1. ASSUME PlanInv, NoNeighbours PROVE BuildsTheTree
    <2>1. Shape /\ Untouched /\ pc \in Steps
      BY <1>1 DEF PlanInv, Shape
    <2>2. /\ pc = "walk" => InWalk
          /\ pc \in {"drive", "committed", "rejected"} => InDrive
      BY <1>1 DEF PlanInv
    <2>3. opened \in Seq(Paths) /\ (Consistent => Once)
      <3>1. CASE pc = "walk"
        BY <2>2, <3>1 DEF InWalk, WalkShape, WalkOnce
      <3>2. CASE pc \in {"drive", "committed", "rejected"}
        BY <2>2, <3>2 DEF InDrive
      <3>3. CASE pc \notin {"walk", "drive", "committed", "rejected"}
        <4>1. opened = <<>>
          BY <2>1, <3>3 DEF Untouched
        <4> QED BY <4>1 DEF Once
      <3> QED BY <3>1, <3>2, <3>3
    <2>4. OpenedOnce
      BY <2>3 DEF OpenedOnce, Once
    <2>5. ResultIsAsAsked
      <3> SUFFICES ASSUME pc = "committed", Consistent PROVE txn = [p \in Paths |-> Wanted(p)]
        BY DEF ResultIsAsAsked
      <3>1. Accepts(base, held, txn, commands, HeldBy(<<>>), [p \in Paths |-> Wanted(p)])
            /\ commands = <<>>
        BY <2>2 DEF InDrive, Finishes
      <3> QED BY <3>1, AcceptsNone
    <2>6. txn \in [Paths -> Kinds] /\ \A t \in DOMAIN held : held[t] \in Paths \cup {Root}
      <3>1. CASE pc \in {"drive", "committed", "rejected"}
        BY <2>2, <3>1 DEF InDrive
      <3>2. CASE pc \notin {"drive", "committed", "rejected"}
        <4>1. txn = base /\ held = <<>>
          BY <2>1, <3>2 DEF Untouched
        <4> QED BY <2>1, <4>1 DEF Shape
      <3> QED BY <3>1, <3>2
    <2>7. ASSUME pc = "walk", NEW i \in 2 .. Len(stack)
          PROVE  Parent(stack[i].path) = stack[i - 1].path
      <3>1. PICK q \in Paths \cup {Root} : StackOf(stack, q)
        BY <2>2, <2>7 DEF InWalk, WalkShape, StackAt
      <3>2. q \in Seq(Names)
        BY PathIsSeq
      <3>3. /\ i \in 1 .. Len(stack) /\ i - 1 \in 1 .. Len(stack) /\ i - 1 \in 1 .. Len(q)
            /\ i - 1 \in 0 .. Len(q) /\ (i - 1) - 1 \in 0 .. i - 1
        BY <3>1, <3>2 DEF StackOf
      <3>4. stack[i].path = SubSeq(q, 1, i - 1) /\ stack[i - 1].path = SubSeq(q, 1, (i - 1) - 1)
        BY <3>1, <3>3 DEF StackOf
      <3>5. Len(SubSeq(q, 1, i - 1)) = i - 1
        BY <3>2, <3>3, Cut
      <3>6. SubSeq(SubSeq(q, 1, i - 1), 1, (i - 1) - 1) = SubSeq(q, 1, (i - 1) - 1)
        BY <3>2, <3>3, CutTwice
      <3> QED BY <3>4, <3>5, <3>6 DEF Parent
    <2>8. /\ Range(changes) \subseteq Changes /\ Range(todo) \subseteq Changes
          /\ Range(copies) \subseteq Changes /\ Range(opened) \subseteq Paths
      BY <2>1, <2>3 DEF Shape, Range, CopyChanges
    <2>9. /\ DOMAIN fileOps \subseteq Paths /\ Range(fileOps) \subseteq OpType
          /\ DOMAIN dirOps \subseteq Paths \cup {Root} /\ Range(dirOps) \subseteq OpType
      BY <2>1 DEF Shape, OpsOK, Range
    <2>10. TypeOK
      BY <2>1, <2>6, <2>7, <2>8, <2>9 DEF TypeOK, Shape, Untouched
    <2> QED BY <2>4, <2>5, <2>10 DEF BuildsTheTree
  <1> QED BY <1>1, PlanInvariant, PTL
===============================================================================
