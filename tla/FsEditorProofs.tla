--------------------------- MODULE FsEditorProofs ---------------------------
(***************************************************************************)
(* Proofs about FsEditor, for any set of paths, any contents, whatever is  *)
(* on the disk and in the report, and any number of drives, however they   *)
(* end.                                                                    *)
(***************************************************************************)
EXTENDS FsEditor, SequenceTheorems, TLAPS

-----------------------------------------------------------------------------
(* Paths.                                                                  *)

\* The first i names of a path.
LEMMA CutFacts ==
    ASSUME NEW p \in Seq(Names), NEW i \in 0 .. Len(p)
    PROVE  /\ SubSeq(p, 1, i) \in Seq(Names) /\ Len(SubSeq(p, 1, i)) = i
           /\ \A j \in 1 .. i : SubSeq(p, 1, i)[j] = p[j]
<1>1. \A j \in 1 .. i : p[j] \in Names
  BY LenProperties
<1>2. i \in Int /\ 1 \in Int /\ (1 <= i => i - 1 + 1 = i) /\ (~(1 <= i) => i = 0)
  OBVIOUS
<1>3. /\ SubSeq(p, 1, i) \in Seq(Names)
      /\ Len(SubSeq(p, 1, i)) = IF 1 <= i THEN i - 1 + 1 ELSE 0
      /\ \A j \in 1 .. i - 1 + 1 : SubSeq(p, 1, i)[j] = p[1 + j - 1]
  BY <1>1, <1>2, SubSeqProperties
<1>4. \A j \in 1 .. i : j \in 1 .. i - 1 + 1 /\ 1 + j - 1 = j
  OBVIOUS
<1> QED
  BY <1>2, <1>3, <1>4

\* One sequence is an initial part of another.
Starts(q, p) == Len(q) <= Len(p) /\ \A j \in 1 .. Len(q) : q[j] = p[j]

LEMMA PathType ==
    ASSUME NEW p \in Paths
    PROVE  p \in Seq(Names) /\ Len(p) \in Nat /\ Len(p) >= 1 /\ p # Root /\ Prefixes(p) \subseteq Paths
<1>1. p \in Seq(Names) /\ p # Root /\ Prefixes(p) \subseteq Paths
  BY PathAssumption
<1>2. Len(p) \in Nat \ {0}
  BY <1>1, EmptySeq DEF Root
<1> QED
  BY <1>1, <1>2

\* The prefixes of a path are the paths it starts with.
LEMMA PrefixStarts ==
    ASSUME NEW p \in Paths, NEW q \in Paths
    PROVE  /\ q \in Prefixes(p) <=> Starts(q, p)
           /\ Inside(p, q) <=> Starts(q, p) /\ q # p
<1>1. /\ p \in Seq(Names) /\ Len(p) \in Nat /\ Len(p) >= 1
      /\ q \in Seq(Names) /\ Len(q) \in Nat /\ Len(q) >= 1
  BY PathType
<1>2. ASSUME q \in Prefixes(p)
      PROVE  Starts(q, p)
  <2>1. PICK i \in 1 .. Len(p) : q = SubSeq(p, 1, i)
    BY <1>2 DEF Prefixes
  <2>2. i \in 0 .. Len(p)
    BY <1>1
  <2>3. Len(q) = i /\ \A j \in 1 .. i : q[j] = p[j]
    BY <1>1, <2>1, <2>2, CutFacts
  <2> QED
    BY <2>3, <2>2, <1>1 DEF Starts
<1>3. ASSUME Starts(q, p)
      PROVE  SubSeq(p, 1, Len(q)) = q
  <2>1. Len(q) \in 0 .. Len(p)
    BY <1>1, <1>3 DEF Starts
  <2>2. /\ SubSeq(p, 1, Len(q)) \in Seq(Names) /\ Len(SubSeq(p, 1, Len(q))) = Len(q)
        /\ \A j \in 1 .. Len(q) : SubSeq(p, 1, Len(q))[j] = p[j]
    BY <1>1, <2>1, CutFacts
  <2>3. \A j \in 1 .. Len(q) : SubSeq(p, 1, Len(q))[j] = q[j]
    BY <2>2, <1>3 DEF Starts
  <2> DEFINE c == SubSeq(p, 1, Len(q))
  <2>4. c \in Seq(Names) /\ Len(c) = Len(q) /\ \A j \in 1 .. Len(c) : c[j] = q[j]
    BY <2>2, <2>3
  <2> HIDE DEF c
  <2>5. c = q
    BY <2>4, <1>1, SeqEqual
  <2> QED
    BY <2>5 DEF c
<1>4. ASSUME Starts(q, p)
      PROVE  q \in Prefixes(p)
  <2>1. Len(q) \in 1 .. Len(p)
    BY <1>1, <1>4 DEF Starts
  <2> QED
    BY <2>1, <1>3, <1>4 DEF Prefixes
<1>5. ASSUME Inside(p, q)
      PROVE  Starts(q, p) /\ q # p
  <2>1. Len(p) > Len(q) /\ SubSeq(p, 1, Len(q)) = q
    BY <1>5 DEF Inside
  <2>2. Len(q) \in 1 .. Len(p)
    BY <2>1, <1>1
  <2>3. q \in Prefixes(p)
    BY <2>1, <2>2 DEF Prefixes
  <2> QED
    BY <2>1, <2>3, <1>1, <1>2
<1>6. ASSUME Starts(q, p), q # p
      PROVE  Inside(p, q)
  <2>1. Len(q) # Len(p)
    <3>1. Len(q) = Len(p) => q = p
      BY <1>1, <1>6, SeqEqual DEF Starts
    <3> QED
      BY <3>1, <1>6
  <2> QED
    BY <2>1, <1>1, <1>3, <1>6 DEF Inside, Starts
<1> QED
  BY <1>2, <1>4, <1>5, <1>6

\* Where a path leads through.
LEMMA PrefixFacts ==
    ASSUME NEW p \in Paths
    PROVE  /\ p \in Prefixes(p) /\ Prefixes(p) \subseteq Paths
           /\ \A q \in Prefixes(p) : Prefixes(q) \subseteq Prefixes(p)
           /\ \A q \in Paths : Inside(p, q) <=> q \in Prefixes(p) \ {p}
           /\ \A q \in Prefixes(p) \ {p} : p \notin Prefixes(q)
<1>1. p \in Seq(Names) /\ Len(p) \in Nat /\ Len(p) >= 1 /\ Prefixes(p) \subseteq Paths
  BY PathType
<1>2. p \in Prefixes(p)
  <2>1. Starts(p, p)
    BY <1>1 DEF Starts
  <2> QED
    BY <2>1, PrefixStarts
<1>3. ASSUME NEW q \in Prefixes(p), NEW r \in Prefixes(q)
      PROVE  r \in Prefixes(p)
  <2>1. q \in Paths /\ r \in Paths
    BY <1>1, <1>3, PathType
  <2>2. Len(q) \in Nat /\ Len(r) \in Nat
    BY <2>1, PathType
  <2>3. Starts(q, p) /\ Starts(r, q)
    BY <2>1, <1>3, PrefixStarts
  <2>4. Starts(r, p)
    BY <2>2, <2>3, <1>1 DEF Starts
  <2> QED
    BY <2>1, <2>4, PrefixStarts
<1>4. \A q \in Paths : Inside(p, q) <=> q \in Prefixes(p) \ {p}
  BY PrefixStarts
<1>5. ASSUME NEW q \in Prefixes(p) \ {p}
      PROVE  p \notin Prefixes(q)
  <2>1. q \in Paths /\ Inside(p, q)
    BY <1>1, <1>4
  <2>2. Len(q) < Len(p) /\ Len(q) \in Nat
    BY <2>1, <1>1, PathType DEF Inside
  <2>3. p \in Prefixes(q) => Len(p) <= Len(q)
    BY <2>1, PrefixStarts DEF Starts
  <2> QED
    BY <2>2, <2>3, <1>1
<1> QED
  BY <1>1, <1>2, <1>3, <1>4, <1>5

\* The root and the directory of a path.
LEMMA ParentFacts ==
    ASSUME NEW p \in Paths
    PROVE  /\ Prefixes(Root) = {} /\ ~Inside(Root, p) /\ Root \notin Paths
           /\ Parent(p) = Root \/ Parent(p) \in Prefixes(p) \ {p}
           /\ Prefixes(Parent(p)) = Prefixes(p) \ {p}
           /\ Parent(p) \in Paths \cup {Root}
<1>1. p \in Seq(Names) /\ Len(p) \in Nat /\ Len(p) >= 1 /\ Prefixes(p) \subseteq Paths
  BY PathType
<1>2. Len(Root) = 0
  BY EmptySeq DEF Root
<1>3. Prefixes(Root) = {} /\ ~Inside(Root, p) /\ Root \notin Paths
  <2>1. 1 .. Len(Root) = {} /\ ~(Len(Root) > Len(p))
    BY <1>1, <1>2
  <2> QED
    BY <2>1, PathType DEF Prefixes, Inside
<1>4. Len(p) - 1 \in 0 .. Len(p)
  BY <1>1
<1>5. /\ Parent(p) \in Seq(Names) /\ Len(Parent(p)) = Len(p) - 1
      /\ \A j \in 1 .. Len(p) - 1 : Parent(p)[j] = p[j]
  BY <1>1, <1>4, CutFacts DEF Parent
<1>6. Len(p) = 1 => Parent(p) = Root
  <2>1. Len(p) = 1 => Len(Parent(p)) = 0
    BY <1>5
  <2> QED
    BY <2>1, <1>5, EmptySeq DEF Root
<1>7. Len(p) > 1 => Parent(p) \in Prefixes(p)
  <2>1. Len(p) > 1 => Len(p) - 1 \in 1 .. Len(p)
    BY <1>1
  <2> QED
    BY <2>1 DEF Prefixes, Parent
<1>8. Parent(p) # p
  BY <1>1, <1>5
<1>9. Parent(p) = Root \/ Parent(p) \in Prefixes(p) \ {p}
  <2>1. Len(p) = 1 \/ Len(p) > 1
    <3>1. \A n \in Nat : n >= 1 => n = 1 \/ n > 1
      OBVIOUS
    <3> QED
      BY ONLY <3>1, <1>1
  <2> QED
    BY <2>1, <1>6, <1>7, <1>8
<1>10. ASSUME NEW q \in Prefixes(p) \ {p}
       PROVE  q \in Prefixes(Parent(p))
  <2>1. q \in Paths /\ Inside(p, q)
    BY <1>1, PrefixFacts
  <2>2. Len(q) \in Nat /\ Len(q) >= 1 /\ Len(q) < Len(p) /\ q \in Seq(Names) /\ Starts(q, p)
    BY <2>1, <1>10, PathType, PrefixStarts DEF Inside
  <2>3. Starts(q, Parent(p))
    BY <2>2, <1>1, <1>5 DEF Starts
  <2>4. Parent(p) \in Paths
    BY <2>2, <1>1, <1>7
  <2> QED
    BY <2>1, <2>3, <2>4, PrefixStarts
<1>11. Prefixes(Parent(p)) \subseteq Prefixes(p) \ {p}
  <2>1. CASE Parent(p) = Root
    BY <2>1, <1>3
  <2>2. CASE Parent(p) \in Prefixes(p) \ {p}
    BY <2>2, PrefixFacts
  <2> QED
    BY <2>1, <2>2, <1>9
<1> QED
  BY <1>1, <1>3, <1>9, <1>10, <1>11

-----------------------------------------------------------------------------
(* Tables and trees.                                                       *)

LEMMA SetFacts ==
    ASSUME NEW f, NEW x, NEW v
    PROVE  /\ DOMAIN Set(f, x, v) = DOMAIN f \cup {x}
           /\ Set(f, x, v)[x] = v
           /\ \A y \in DOMAIN f : y # x => Set(f, x, v)[y] = f[y]
BY DEF Set

LEMMA SetType ==
    ASSUME NEW S, NEW f, f \in [DOMAIN f -> S], NEW x, NEW v \in S
    PROVE  Set(f, x, v) \in [DOMAIN Set(f, x, v) -> S]
BY DEF Set

LEMMA DropFacts ==
    ASSUME NEW f, NEW x
    PROVE  /\ DOMAIN Drop(f, x) = DOMAIN f \ {x}
           /\ \A y \in DOMAIN f : y # x => Drop(f, x)[y] = f[y]
BY DEF Drop

LEMMA DropType ==
    ASSUME NEW S, NEW f, f \in [DOMAIN f -> S], NEW x
    PROVE  Drop(f, x) \in [DOMAIN Drop(f, x) -> S]
BY DEF Drop

LEMMA NodeFacts ==
    /\ Dir \in Nodes /\ Dir.kind = "dir" /\ Dir.content = "empty" /\ Dir.exec = "-"
    /\ Nothing \in Nodes /\ Nothing.kind = "none" /\ Nothing.content = "empty" /\ Nothing.exec = "-"
    /\ \A c \in Contents, e \in {"x", "-", "any"} : Node("file", c, e) \in Nodes
    /\ \A k, c, e : Node(k, c, e).kind = k /\ Node(k, c, e).content = c /\ Node(k, c, e).exec = e
<1>1. "empty" \in Contents
  BY DEF Contents
<1> QED
  BY <1>1 DEF Dir, Nothing, Node, Nodes

\* Directories are made on the way to d.
LEMMA WithDirsTree ==
    ASSUME NEW tree \in [Paths -> Nodes], NEW d, d = Root \/ d \in Paths, IsTree(tree),
           \A q \in Prefixes(d) : tree[q].kind \in {"dir", "none"}
    PROVE  /\ WithDirs(tree, d) \in [Paths -> Nodes] /\ IsTree(WithDirs(tree, d))
           /\ \A p \in Prefixes(d) : p \in Paths /\ WithDirs(tree, d)[p] = Dir
           /\ \A p \in Paths \ Prefixes(d) : WithDirs(tree, d)[p] = tree[p]
<1> DEFINE made == WithDirs(tree, d)
<1>1. Prefixes(d) \subseteq Paths
  <2>1. CASE d = Root
    <3>1. Prefixes(Root) = {}
      <4>1. 1 .. Len(Root) = {}
        BY EmptySeq DEF Root
      <4> QED
        BY <4>1 DEF Prefixes
    <3> QED
      BY <2>1, <3>1
  <2>2. CASE d \in Paths
    BY <2>2, PathType
  <2> QED
    BY <2>1, <2>2
<1>2. made \in [Paths -> Nodes] /\ \A p \in Paths : made[p] = IF p \in Prefixes(d) THEN Dir ELSE tree[p]
  BY NodeFacts DEF WithDirs
<1> HIDE DEF made
<1>3. ASSUME NEW p \in Paths, made[p].kind # "none", NEW q \in Prefixes(p) \ {p}
      PROVE  made[q].kind = "dir"
  <2>1. q \in Paths
    BY <1>3, PathType
  <2>2. CASE p \in Prefixes(d)
    <3>1. d \in Paths
      <4>1. d # Root
        <5>1. Prefixes(Root) = {}
          BY <1>3, ParentFacts
        <5> QED
          BY <5>1, <2>2
      <4> QED
        BY <4>1
    <3>2. q \in Prefixes(d)
      BY <3>1, <2>2, <1>3, PrefixFacts
    <3> QED
      BY <3>2, <2>1, <1>2, NodeFacts
  <2>3. CASE p \notin Prefixes(d)
    <3>1. tree[q].kind = "dir"
      BY <2>3, <1>2, <1>3 DEF IsTree
    <3> QED
      BY <3>1, <2>1, <1>2, NodeFacts
  <2> QED
    BY <2>2, <2>3
<1>4. IsTree(made)
  BY <1>3 DEF IsTree
<1> QED
  BY <1>1, <1>2, <1>4 DEF made

\* An entry is removed, with what is in it.
LEMMA RemovedTree ==
    ASSUME NEW tree \in [Paths -> Nodes], NEW p \in Paths, IsTree(tree)
    PROVE  /\ Removed(tree, p) \in [Paths -> Nodes] /\ IsTree(Removed(tree, p))
           /\ \A q \in Paths : p \in Prefixes(q) => Removed(tree, p)[q] = Nothing
           /\ \A q \in Paths : p \notin Prefixes(q) => Removed(tree, p)[q] = tree[q]
<1> DEFINE left == Removed(tree, p)
<1>1. left \in [Paths -> Nodes] /\ \A q \in Paths : left[q] = IF q = p \/ Inside(q, p) THEN Nothing ELSE tree[q]
  BY NodeFacts DEF Removed
<1>2. \A q \in Paths : q = p \/ Inside(q, p) <=> p \in Prefixes(q)
  BY PrefixFacts
<1>3. \A q \in Paths : left[q] = IF p \in Prefixes(q) THEN Nothing ELSE tree[q]
  BY <1>1, <1>2
<1> HIDE DEF left
<1>4. ASSUME NEW r \in Paths, left[r].kind # "none", NEW q \in Prefixes(r) \ {r}
      PROVE  left[q].kind = "dir"
  <2>1. p \notin Prefixes(r) /\ left[r] = tree[r]
    BY <1>3, <1>4, NodeFacts
  <2>2. q \in Paths /\ p \notin Prefixes(q)
    BY <2>1, <1>4, PrefixFacts
  <2> QED
    BY <2>1, <2>2, <1>3, <1>4 DEF IsTree
<1> QED
  BY <1>1, <1>3, <1>4 DEF IsTree, left

\* Something that is no directory takes the place of something else that is none.
LEMMA PlacedTree ==
    ASSUME NEW tree \in [Paths -> Nodes], NEW p \in Paths, IsTree(tree), NEW node \in Nodes,
           tree[p].kind # "dir", node.kind # "dir",
           \A q \in Prefixes(p) \ {p} : tree[q].kind = "dir"
    PROVE  [tree EXCEPT ![p] = node] \in [Paths -> Nodes] /\ IsTree([tree EXCEPT ![p] = node])
<1> DEFINE next == [tree EXCEPT ![p] = node]
<1>1. next \in [Paths -> Nodes] /\ next[p] = node /\ \A q \in Paths : q # p => next[q] = tree[q]
  OBVIOUS
<1> HIDE DEF next
<1>2. ASSUME NEW r \in Paths, next[r].kind # "none", NEW q \in Prefixes(r) \ {r}
      PROVE  next[q].kind = "dir"
  <2>1. q \in Paths
    BY <1>2, PathType
  <2>2. CASE r = p
    BY <2>1, <2>2, <1>1
  <2>3. CASE r # p
    <3>1. tree[q].kind = "dir"
      BY <2>3, <1>1, <1>2 DEF IsTree
    <3> QED
      BY <3>1, <2>1, <1>1
  <2> QED
    BY <2>2, <2>3
<1> QED
  BY <1>1, <1>2 DEF IsTree, next

\* A file changes its text or its executable bit.
LEMMA RetouchedTree ==
    ASSUME NEW tree \in [Paths -> Nodes], NEW p \in Paths, IsTree(tree), NEW node \in Nodes,
           node.kind = tree[p].kind
    PROVE  [tree EXCEPT ![p] = node] \in [Paths -> Nodes] /\ IsTree([tree EXCEPT ![p] = node])
<1> DEFINE next == [tree EXCEPT ![p] = node]
<1>1. next \in [Paths -> Nodes] /\ \A q \in Paths : next[q].kind = tree[q].kind
  OBVIOUS
<1> HIDE DEF next
<1>2. ASSUME NEW r \in Paths, next[r].kind # "none", NEW q \in Prefixes(r) \ {r}
      PROVE  next[q].kind = "dir"
  BY <1>1, <1>2, PathType DEF IsTree
<1> QED
  BY <1>1, <1>2 DEF IsTree, next

LEMMA KindFacts ==
    ASSUME NEW p \in Paths
    PROVE  Kind(p) = disk[p].kind /\ Kind(Root) = "dir" /\ p # Root
BY PathType, NodeFacts DEF Kind, NodeAt

-----------------------------------------------------------------------------
(* The inductive invariant.                                                *)

Homes == Paths \cup {Root}
Execs == {"x", "-", "any"}
DirEntries == [kind : {"dir"}, path : Homes]
FileEntries ==
    [kind : {"file"}, path : Paths, base : Contents, content : Contents, exec : Execs,
     told : BOOLEAN, from : Homes, delta : {"none", "begun", "sent", "ended"}]
FileTokens == [dest : Paths, from : Homes, added : BOOLEAN]
TmpType == [dest : Paths, token : Nat, id : Nat]
Deltas == [dest : Paths, tmp : TmpType, base : Contents, out : Contents, ended : BOOLEAN]
Renames == [do : {"rename"}, tmp : TmpType]
Steps == Renames \cup [do : {"copy", "verify", "exec"}]
Closings == [step : Steps, token : Nat, dest : Paths, content : Contents, checked : BOOLEAN]

DiskInv ==
    /\ disk \in [Paths -> Nodes] /\ IsTree(disk)
    /\ temps \subseteq TmpType /\ outside = FALSE

EditorInv ==
    /\ fileTok \in [DOMAIN fileTok -> FileTokens]
    /\ execTok \in [DOMAIN execTok -> {"x", "-"}]
    /\ pending \in [DOMAIN pending -> Deltas]
    /\ DOMAIN pending \subseteq DOMAIN fileTok /\ DOMAIN execTok \subseteq DOMAIN fileTok
    /\ nextTmp \in Nat

ServerInv ==
    /\ view \in [Paths -> Nodes] /\ IsTree(view) /\ IsPlain(view)
    /\ sent \in [DOMAIN sent -> DirEntries \cup FileEntries]
    /\ issued \in Nat /\ DOMAIN sent \subseteq 0 .. issued
    /\ unchecked \subseteq Paths

DriveInv == pc \in Places /\ drives \in 0 .. MaxDrives /\ clean \in BOOLEAN

\* A drive under way.
Active == pc \in {"driving", "closing"}

\* Where the editor is says whether it keeps anything.
PlaceInv ==
    /\ pc \in Between => DOMAIN dirTok = {} /\ DOMAIN fileTok = {}
    /\ pc \in Between \cup {"driving"} => closing = Idle
    /\ pc = "closing" => closing \in Closings /\ closing # Idle

\* Editor and server agree on a file that is open: on its text delta unless its
\* close-file has taken that away.
FileOK(t) ==
    /\ fileTok[t].dest = sent[t].path /\ fileTok[t].from = sent[t].from
    /\ t \in DOMAIN execTok <=> sent[t].told
    /\ t \in DOMAIN execTok => execTok[t] = sent[t].exec
    /\ (pc = "closing" /\ closing.token = t) \/ (t \in DOMAIN pending <=> sent[t].delta # "none")
DeltaOK(t) ==
    /\ pending[t].dest = sent[t].path /\ pending[t].tmp.dest = sent[t].path
    /\ pending[t].tmp.token = t
    /\ pending[t].ended <=> sent[t].delta = "ended"

TokenInv ==
    Active =>
       /\ DOMAIN dirTok = SentDirs /\ DOMAIN fileTok = SentFiles
       /\ \A t \in SentFiles : FileOK(t)
       /\ \A t \in DOMAIN pending : DeltaOK(t)

\* The directories up to d are there, on the disk and for the server.
Firm(d) == \A q \in Prefixes(d) : disk[q].kind = "dir" /\ view[q].kind = "dir"

OpenInv ==
    Active =>
       /\ \A t \in SentDirs : Firm(sent[t].path)
       /\ \A t \in SentFiles : Firm(Parent(sent[t].path)) /\ view[sent[t].path].kind # "dir"
       /\ \A t, u \in SentFiles : t # u => sent[t].path # sent[u].path

\* What each step of close-file has found or left at the place of its file.
StepOK(step, node, entry) ==
    /\ step.do = "rename" => node = Nothing /\ entry.delta = "ended"
    /\ step.do = "copy" => node.kind = "file" /\ entry.from # NoPath
    /\ step.do = "verify" => node.kind = "file" /\ node.content = closing.content
                             /\ entry.from = NoPath
    /\ step.do = "exec" => node.kind = "file" /\ node.content = closing.content

ClosingInv ==
    pc = "closing" =>
       /\ closing.token \in SentFiles \ DOMAIN pending
       /\ closing.dest = sent[closing.token].path
       /\ StepOK(closing.step, disk[closing.dest], sent[closing.token])
       /\ closing.step.do = "rename" => closing.step.tmp.token = closing.token
       /\ ~closing.checked => closing.dest \in unchecked
       /\ closing.checked /\ closing.step.do # "verify" =>
             closing.content = sent[closing.token].content

\* A drive that began on what the report says.
CleanFile(t) ==
    /\ fileTok[t].added => view[sent[t].path] = Nothing
    /\ ~fileTok[t].added => view[sent[t].path].kind = "file" /\ sent[t].from = NoPath
    /\ sent[t].from # NoPath => sent[t].told \/ sent[t].exec = "any"
    /\ sent[t].from = NoPath =>
          /\ sent[t].base = view[sent[t].path].content
          /\ sent[t].told \/ sent[t].exec = view[sent[t].path].exec
          /\ sent[t].delta \in {"none", "begun"} => sent[t].content = sent[t].base
CleanDelta(t) ==
    sent[t].from = NoPath =>
       /\ pending[t].base = sent[t].base
       /\ sent[t].delta # "begun" => pending[t].out = sent[t].content
CleanClosing ==
    /\ closing.content = sent[closing.token].content
    /\ closing.step.do \in {"verify", "exec"} =>
          \/ sent[closing.token].told
          \/ SaidExec(sent[closing.token]) \in {"any", disk[closing.dest].exec}

CleanInv ==
    clean =>
       /\ pc # "refused"
       /\ pc = "closed" => \A p \in Paths : Agree(disk[p], view[p])
       /\ Active =>
             /\ start.temps = {}
             /\ \A p \in Paths : Agree(disk[p], view[p]) \/ (pc = "closing" /\ p = closing.dest)
             /\ \A t \in SentFiles : CleanFile(t)
             /\ \A t \in DOMAIN pending : CleanDelta(t)
       /\ pc = "closing" => CleanClosing

IInv ==
    /\ DiskInv /\ EditorInv /\ ServerInv /\ DriveInv
    /\ PlaceInv /\ TokenInv /\ OpenInv /\ ClosingInv
    /\ VerifiedContent /\ TempsAccounted /\ CleanInv

-----------------------------------------------------------------------------
(* What the parts of the invariant say.                                    *)

LEMMA EmptyTable ==
    /\ DOMAIN <<>> = {} /\ \A S : <<>> \in [DOMAIN <<>> -> S]
OBVIOUS

LEMMA ClosingFacts ==
    ASSUME NEW c \in Closings
    PROVE  /\ c # Idle
           /\ c.step \in Steps /\ c.token \in Nat /\ c.dest \in Paths /\ c.content \in Contents
           /\ c.step.do \in {"rename", "copy", "verify", "exec"}
           /\ c.step.do = "rename" => c.step \in Renames /\ c.step.tmp \in TmpType
<1>1. "token" \in DOMAIN c /\ "token" \notin DOMAIN Idle
  BY DEF Closings, Idle
<1>2. c # Idle
  BY <1>1
<1>3. c.step \in Steps /\ c.token \in Nat /\ c.dest \in Paths /\ c.content \in Contents
  BY DEF Closings
<1>4. ASSUME NEW s \in Steps
      PROVE  /\ s.do \in {"rename", "copy", "verify", "exec"}
             /\ s.do = "rename" => s \in Renames /\ s.tmp \in TmpType
  <2>1. CASE s \in Renames
    BY <2>1 DEF Renames
  <2>2. CASE s \in [do : {"copy", "verify", "exec"}]
    BY <2>2
  <2> QED
    BY <1>4, <2>1, <2>2 DEF Steps
<1> QED
  BY <1>2, <1>3, <1>4

\* What the server has open.
LEMMA SentFacts ==
    ASSUME ServerInv
    PROVE  /\ \A t \in SentFiles : t \in DOMAIN sent /\ sent[t] \in FileEntries
           /\ \A t \in SentDirs : t \in DOMAIN sent /\ sent[t] \in DirEntries
           /\ \A t \in DOMAIN sent : t \in Nat /\ t <= issued /\ (t \in SentFiles \/ t \in SentDirs)
                                     /\ sent[t].path \in Homes
           /\ issued + 1 \notin DOMAIN sent /\ issued + 1 \in Nat /\ SentFiles \cap SentDirs = {}
<1>1. issued \in Nat /\ DOMAIN sent \subseteq 0 .. issued
  BY DEF ServerInv
<1>2. ASSUME NEW t \in DOMAIN sent
      PROVE  \/ sent[t] \in FileEntries /\ sent[t].kind = "file"
             \/ sent[t] \in DirEntries /\ sent[t].kind = "dir"
  BY <1>2 DEF ServerInv, FileEntries, DirEntries
<1>3. \A e \in FileEntries : e.path \in Homes
  BY DEF FileEntries, Homes
<1>4. \A e \in DirEntries : e.path \in Homes
  BY DEF DirEntries
<1> QED
  BY <1>1, <1>2, <1>3, <1>4 DEF SentFiles, SentDirs

LEMMA EntryFacts ==
    ASSUME NEW e \in FileEntries
    PROVE  /\ e.kind = "file" /\ e.path \in Paths /\ e.base \in Contents /\ e.content \in Contents
           /\ e.exec \in Execs /\ e.told \in BOOLEAN /\ e.from \in Homes
           /\ e.delta \in {"none", "begun", "sent", "ended"}
BY DEF FileEntries

LEMMA NewEntry ==
    ASSUME NEW p \in Paths, NEW node \in Nodes, NEW from \in Homes
    PROVE  /\ FileEntry(p, node, from) \in FileEntries
           /\ FileEntry(p, node, from).kind = "file" /\ FileEntry(p, node, from).path = p
           /\ FileEntry(p, node, from).base = node.content
           /\ FileEntry(p, node, from).content = node.content
           /\ FileEntry(p, node, from).exec = node.exec /\ ~FileEntry(p, node, from).told
           /\ FileEntry(p, node, from).from = from /\ FileEntry(p, node, from).delta = "none"
<1>1. node.content \in Contents /\ node.exec \in Execs
  BY DEF Nodes, Execs
<1> QED
  BY <1>1 DEF FileEntry, FileEntries

\* What becomes of the open directories and files.
LEMMA SetSent ==
    ASSUME NEW n, NEW e, sent' = Set(sent, n, e), n \notin DOMAIN sent
    PROVE  /\ e.kind = "file" => SentFiles' = SentFiles \cup {n} /\ SentDirs' = SentDirs
           /\ e.kind = "dir" => SentFiles' = SentFiles /\ SentDirs' = SentDirs \cup {n}
           /\ DOMAIN sent' = DOMAIN sent \cup {n} /\ sent'[n] = e
           /\ \A t \in DOMAIN sent : sent'[t] = sent[t]
<1>1. /\ DOMAIN sent' = DOMAIN sent \cup {n} /\ sent'[n] = e
      /\ \A t \in DOMAIN sent : sent'[t] = sent[t]
  BY DEF Set
<1>2. /\ SentFiles' = {t \in DOMAIN sent' : sent'[t].kind = "file"}
      /\ SentDirs' = {t \in DOMAIN sent' : sent'[t].kind = "dir"}
  BY DEF SentFiles, SentDirs
<1> QED
  BY <1>1, <1>2 DEF SentFiles, SentDirs

LEMMA DropSent ==
    ASSUME NEW n, sent' = Drop(sent, n)
    PROVE  /\ SentFiles' = SentFiles \ {n} /\ SentDirs' = SentDirs \ {n}
           /\ DOMAIN sent' = DOMAIN sent \ {n}
           /\ \A t \in DOMAIN sent' : sent'[t] = sent[t]
<1>1. /\ DOMAIN sent' = DOMAIN sent \ {n}
      /\ \A t \in DOMAIN sent' : sent'[t] = sent[t]
  BY DropFacts
<1>2. /\ SentFiles' = {t \in DOMAIN sent' : sent'[t].kind = "file"}
      /\ SentDirs' = {t \in DOMAIN sent' : sent'[t].kind = "dir"}
  BY DEF SentFiles, SentDirs
<1> QED
  BY <1>1, <1>2 DEF SentFiles, SentDirs

LEMMA SameSent ==
    ASSUME DOMAIN sent' = DOMAIN sent, \A t \in DOMAIN sent : sent'[t].kind = sent[t].kind
    PROVE  SentFiles' = SentFiles /\ SentDirs' = SentDirs
<1>1. /\ SentFiles' = {t \in DOMAIN sent' : sent'[t].kind = "file"}
      /\ SentDirs' = {t \in DOMAIN sent' : sent'[t].kind = "dir"}
  BY DEF SentFiles, SentDirs
<1> QED
  BY <1>1 DEF SentFiles, SentDirs

LEMMA HomePrefixes ==
    ASSUME NEW d \in Homes
    PROVE  Prefixes(d) \subseteq Paths
<1>1. CASE d \in Paths
  BY <1>1, PathType
<1>2. CASE d = Root
  <2>1. 1 .. Len(Root) = {}
    BY EmptySeq DEF Root
  <2> QED
    BY <1>2, <2>1 DEF Prefixes
<1> QED
  BY <1>1, <1>2 DEF Homes

\* The path of an open file lies below directories that are there.
LEMMA FirmFacts ==
    ASSUME NEW d \in Homes, Firm(d)
    PROVE  NoLink(d) /\ CanMake(d) /\ ~Through(d) /\ Kind(d) = "dir"
<1>1. \A q \in Prefixes(d) : q \in Paths /\ Kind(q) = "dir"
  <2>1. CASE d \in Paths
    BY <2>1, PathType, KindFacts DEF Firm
  <2>2. CASE d = Root
    <3>1. 1 .. Len(Root) = {}
      BY EmptySeq DEF Root
    <3> QED
      BY <2>2, <3>1 DEF Prefixes
  <2> QED
    BY <2>1, <2>2 DEF Homes
<1>2. Kind(d) = "dir"
  <2>1. CASE d \in Paths
    BY <2>1, <1>1, PrefixFacts
  <2>2. CASE d = Root
    BY <2>2, NodeFacts DEF Kind, NodeAt
  <2> QED
    BY <2>1, <2>2 DEF Homes
<1> QED
  BY <1>1, <1>2 DEF NoLink, CanMake, Through

\* A path all of which but the last name is there.
LEMMA BelowFirm ==
    ASSUME NEW p \in Paths, Firm(Parent(p))
    PROVE  /\ Parent(p) \in Homes /\ Kind(p) = disk[p].kind
           /\ \A q \in Prefixes(p) \ {p} : q \in Paths /\ disk[q].kind = "dir" /\ view[q].kind = "dir"
           /\ NoLink(p) <=> disk[p].kind # "link"
           /\ CanMake(p) <=> disk[p].kind \in {"dir", "none"}
           /\ Through(p) <=> disk[p].kind = "link"
           /\ FileOrNone(p) <=> disk[p].kind \in {"file", "none"}
<1>1. \A q \in Prefixes(p) \ {p} : q \in Paths /\ disk[q].kind = "dir" /\ view[q].kind = "dir"
  BY ParentFacts, PrefixFacts DEF Firm
<1>2. \A q \in Prefixes(p) : Kind(q) = disk[q].kind
  BY KindFacts, PrefixFacts
<1>3. p \in Prefixes(p) /\ Parent(p) \in Homes
  BY PrefixFacts, ParentFacts DEF Homes
<1>4. NoLink(p) <=> disk[p].kind # "link"
  BY <1>1, <1>2, <1>3 DEF NoLink
<1>5. CanMake(p) <=> disk[p].kind \in {"dir", "none"}
  BY <1>1, <1>2, <1>3 DEF CanMake
<1>6. Through(p) <=> disk[p].kind = "link"
  BY <1>1, <1>2, <1>3 DEF Through
<1>7. FileOrNone(p) <=> disk[p].kind \in {"file", "none"}
  BY <1>2, <1>3, <1>4 DEF FileOrNone
<1> QED
  BY <1>1, <1>2, <1>3, <1>4, <1>5, <1>6, <1>7

-----------------------------------------------------------------------------
(* The beginning, and steps that end a drive.                              *)

LEMMA StartsWell == Init => IInv
<1> SUFFICES ASSUME Init PROVE IInv
  OBVIOUS
<1>1. /\ disk \in Disks /\ view \in Views
      /\ temps = {} /\ outside = FALSE
      /\ dirTok = <<>> /\ fileTok = <<>> /\ execTok = <<>> /\ pending = <<>> /\ nextTmp = 0
      /\ closing = Idle /\ pc = "fresh"
      /\ sent = <<>> /\ issued = 0 /\ unchecked = {}
      /\ drives = 0 /\ start = [disk |-> disk, temps |-> {}] /\ clean = FALSE
  BY DEF Init
<1>2. DiskInv
  BY <1>1, TreeAssumption DEF DiskInv
<1>3. EditorInv
  BY <1>1, EmptyTable DEF EditorInv
<1>4. ServerInv
  <2>1. view \in [Paths -> Nodes] /\ IsTree(view) /\ IsPlain(view)
    BY <1>1, TreeAssumption
  <2>2. DOMAIN sent = {} /\ sent \in [DOMAIN sent -> DirEntries \cup FileEntries]
    BY <1>1, EmptyTable
  <2> QED
    BY <1>1, <2>1, <2>2 DEF ServerInv
<1>5. DriveInv /\ ~Active /\ pc \in Between /\ pc # "closed" /\ pc # "closing" /\ pc # "refused"
  <2>1. drives \in 0 .. MaxDrives
    BY <1>1, BoundAssumption
  <2>3. clean \in BOOLEAN
    BY <1>1, Zenon
  <2>2. pc \in Places /\ ~Active /\ pc \in Between /\ pc # "closed" /\ pc # "closing" /\ pc # "refused"
    BY <1>1 DEF Places, Between, Active
  <2> QED
    BY <2>1, <2>2, <2>3 DEF DriveInv
<1>6. PlaceInv
  BY <1>1, <1>5, EmptyTable DEF PlaceInv
<1>7. TokenInv /\ OpenInv /\ ClosingInv /\ CleanInv
  BY <1>1, <1>5 DEF TokenInv, OpenInv, ClosingInv, CleanInv
<1>8. VerifiedContent
  BY <1>1 DEF VerifiedContent
<1>9. TempsAccounted
  <2>1. Own = {}
    BY <1>1, EmptyTable DEF Own
  <2> QED
    BY <2>1, <1>1 DEF TempsAccounted
<1> QED
  BY <1>2, <1>3, <1>4, <1>5, <1>6, <1>7, <1>8, <1>9 DEF IInv

\* A drive that has failed: nothing is promised of the editor but that a new one
\* can be made, and nothing on the disk has changed but temporary files.
LEMMA Fails ==
    ASSUME IInv, pc' \in {"refused", "copyRefused", "broken"}, pc' = "refused" => ~clean,
           disk' = disk, outside' = outside, temps' \subseteq temps,
           fileTok' = fileTok, execTok' = execTok, nextTmp' = nextTmp,
           pending' \in [DOMAIN pending' -> Deltas], DOMAIN pending' \subseteq DOMAIN pending,
           closing' = closing, server' = server, drive' = drive
    PROVE  IInv'
<1>1. /\ view' = view /\ sent' = sent /\ issued' = issued /\ unchecked' = unchecked
      /\ drives' = drives /\ start' = start /\ clean' = clean
  BY DEF server, drive
<1>2. /\ pc' \notin Between /\ pc' \notin {"driving", "closing"} /\ pc' \in Places
      /\ ~Active' /\ pc' # "closed"
  BY DEF Between, Active, Places
<1>3. DiskInv' /\ EditorInv'
  BY DEF IInv, DiskInv, EditorInv
<1>4. ServerInv' /\ DriveInv'
  BY <1>1, <1>2 DEF IInv, ServerInv, DriveInv
<1>5. PlaceInv' /\ TokenInv' /\ OpenInv' /\ ClosingInv' /\ TempsAccounted'
  BY <1>2 DEF PlaceInv, TokenInv, OpenInv, ClosingInv, TempsAccounted
<1>6. VerifiedContent'
  BY <1>1 DEF IInv, VerifiedContent
<1>7. CleanInv'
  BY <1>1, <1>2 DEF CleanInv
<1> QED
  BY <1>3, <1>4, <1>5, <1>6, <1>7 DEF IInv

\* A handler that returns an error.
LEMMA Refuses ==
    ASSUME IInv, NEW place \in {"refused", "copyRefused"}, place = "refused" => ~clean,
           Refuse(place), Unwritten
    PROVE  IInv'
<1>1. /\ pc' = place /\ disk' = disk /\ outside' = outside /\ temps' = temps
      /\ fileTok' = fileTok /\ execTok' = execTok /\ nextTmp' = nextTmp /\ pending' = pending
      /\ closing' = closing /\ server' = server /\ drive' = drive
  BY DEF Refuse, Unwritten, files, editor
<1>2. pending \in [DOMAIN pending -> Deltas]
  BY DEF IInv, EditorInv
<1> QED
  BY <1>1, <1>2, Fails

LEMMA BreakStep == ASSUME IInv, Break PROVE IInv'
<1>1. /\ pc' = "broken" /\ disk' = disk /\ outside' = outside /\ temps' = temps
      /\ fileTok' = fileTok /\ execTok' = execTok /\ nextTmp' = nextTmp /\ pending' = pending
      /\ closing' = closing /\ server' = server /\ drive' = drive
  BY DEF Break, files, editor, drive, server
<1>2. pending \in [DOMAIN pending -> Deltas]
  BY DEF IInv, EditorInv
<1> QED
  BY <1>1, <1>2, Fails

\* A directory that is half removed holds nothing that it did not hold before.
LEMMA BreakDeleteStep == ASSUME IInv, BreakDelete PROVE IInv'
<1>1. PICK q \in Paths : disk' = Removed(disk, q)
  BY DEF BreakDelete
<1>2. /\ pc' = "broken" /\ outside' = outside /\ temps' = temps
      /\ fileTok' = fileTok /\ execTok' = execTok /\ nextTmp' = nextTmp /\ pending' = pending
      /\ closing' = closing
      /\ view' = view /\ sent' = sent /\ issued' = issued /\ unchecked' = unchecked
      /\ drives' = drives /\ start' = start /\ clean' = clean
  BY DEF BreakDelete, editor, drive, server
<1>3. /\ disk' \in [Paths -> Nodes] /\ IsTree(disk')
      /\ \A p \in Paths : disk'[p] = Nothing \/ disk'[p] = disk[p]
  BY <1>1, RemovedTree DEF IInv, DiskInv
<1>4. /\ pc' \notin Between /\ pc' \notin {"driving", "closing"} /\ pc' \in Places
      /\ ~Active' /\ pc' # "closed" /\ pc' # "refused"
  BY <1>2 DEF Between, Active, Places
<1>5. DiskInv' /\ EditorInv'
  BY <1>2, <1>3 DEF IInv, DiskInv, EditorInv
<1>6. ServerInv' /\ DriveInv'
  BY <1>2, <1>4 DEF IInv, ServerInv, DriveInv
<1>7. PlaceInv' /\ TokenInv' /\ OpenInv' /\ ClosingInv' /\ TempsAccounted' /\ CleanInv'
  BY <1>4 DEF PlaceInv, TokenInv, OpenInv, ClosingInv, TempsAccounted, CleanInv
<1>8. VerifiedContent'
  BY <1>2, <1>3, NodeFacts DEF IInv, VerifiedContent
<1> QED
  BY <1>5, <1>6, <1>7, <1>8 DEF IInv

LEMMA AgainStep == ASSUME IInv, Again PROVE IInv'
<1>1. /\ dirTok' = <<>> /\ fileTok' = <<>> /\ execTok' = <<>> /\ pending' = <<>> /\ nextTmp' = 0
      /\ closing' = Idle /\ sent' = <<>> /\ pc' = "aborted"
      /\ start' = [disk |-> disk, temps |-> temps]
      /\ disk' = disk /\ temps' = temps /\ outside' = outside
      /\ view' = view /\ issued' = issued /\ unchecked' = unchecked
      /\ drives' = drives /\ clean' = clean
  BY DEF Again, files
<1>2. DOMAIN sent' = {} /\ DOMAIN fileTok' = {} /\ DOMAIN pending' = {} /\ DOMAIN dirTok' = {}
  BY <1>1, EmptyTable
<1>3. /\ pc' \in Between /\ pc' \notin {"driving", "closing"} /\ pc' \in Places
      /\ ~Active' /\ pc' # "closed" /\ pc' # "refused"
  BY <1>1 DEF Between, Active, Places
<1>4. DiskInv' /\ EditorInv'
  BY <1>1, <1>2, EmptyTable DEF IInv, DiskInv, EditorInv
<1>5. ServerInv' /\ DriveInv'
  <2>1. sent' \in [DOMAIN sent' -> DirEntries \cup FileEntries]
    BY <1>1, EmptyTable
  <2> QED
    BY <1>1, <1>2, <1>3, <2>1 DEF IInv, ServerInv, DriveInv
<1>6. PlaceInv' /\ TokenInv' /\ OpenInv' /\ ClosingInv' /\ CleanInv'
  BY <1>1, <1>2, <1>3 DEF PlaceInv, TokenInv, OpenInv, ClosingInv, CleanInv
<1>7. VerifiedContent'
  BY <1>1 DEF VerifiedContent
<1>8. TempsAccounted'
  <2>1. Own' = {}
    BY <1>1, <1>2 DEF Own
  <2> QED
    BY <2>1, <1>1 DEF TempsAccounted
<1> QED
  BY <1>4, <1>5, <1>6, <1>7, <1>8 DEF IInv

LEMMA AbortEditStep == ASSUME IInv, AbortEdit PROVE IInv'
<1>1. /\ dirTok' = <<>> /\ fileTok' = <<>> /\ execTok' = <<>> /\ pending' = <<>>
      /\ nextTmp' = nextTmp /\ closing' = closing /\ sent' = <<>> /\ pc' = "aborted"
      /\ start' = start /\ disk' = disk /\ temps' = WithoutPending /\ outside' = outside
      /\ view' = view /\ issued' = issued /\ unchecked' = unchecked
      /\ drives' = drives /\ clean' = clean /\ pc = "driving"
  BY DEF AbortEdit, Reset, drive
<1>2. DOMAIN sent' = {} /\ DOMAIN fileTok' = {} /\ DOMAIN pending' = {} /\ DOMAIN dirTok' = {}
  BY <1>1, EmptyTable
<1>3. /\ pc' \in Between /\ pc' \notin {"driving", "closing"} /\ pc' \in Places
      /\ ~Active' /\ pc' # "closed" /\ pc' # "refused"
  BY <1>1 DEF Between, Active, Places
<1>4. DiskInv' /\ EditorInv'
  BY <1>1, <1>2, EmptyTable DEF IInv, DiskInv, EditorInv, WithoutPending
<1>5. ServerInv' /\ DriveInv'
  <2>1. sent' \in [DOMAIN sent' -> DirEntries \cup FileEntries]
    BY <1>1, EmptyTable
  <2> QED
    BY <1>1, <1>2, <1>3, <2>1 DEF IInv, ServerInv, DriveInv
<1>6. PlaceInv' /\ TokenInv' /\ OpenInv' /\ ClosingInv' /\ CleanInv'
  BY <1>1, <1>2, <1>3 DEF IInv, PlaceInv, TokenInv, OpenInv, ClosingInv, CleanInv
<1>7. VerifiedContent'
  BY <1>1 DEF IInv, VerifiedContent
<1>8. TempsAccounted'
  <2>1. closing = Idle
    BY <1>1 DEF IInv, PlaceInv
  <2>2. Own' = {} /\ Own = {pending[t].tmp : t \in DOMAIN pending}
    BY <1>1, <1>2, <2>1 DEF Own
  <2>3. temps \subseteq Own \cup start.temps
    BY <1>1 DEF IInv, TempsAccounted
  <2> QED
    BY <2>2, <2>3, <1>1 DEF TempsAccounted, WithoutPending
<1> QED
  BY <1>4, <1>5, <1>6, <1>7, <1>8 DEF IInv

\* Between drives neither editor nor server has anything open.
LEMMA CloseEditStep == ASSUME IInv, CloseEdit PROVE IInv'
<1>1. pc = "driving" /\ sent = <<>> /\ closing = Idle /\ Active
  BY DEF CloseEdit, IInv, PlaceInv, Active
<1>2. DOMAIN pending = {}
  <2>1. SentFiles = {}
    BY <1>1, EmptyTable DEF SentFiles
  <2>2. DOMAIN fileTok = {}
    BY <1>1, <2>1 DEF IInv, TokenInv
  <2> QED
    BY <2>2 DEF IInv, EditorInv
<1>3. /\ dirTok' = <<>> /\ fileTok' = <<>> /\ execTok' = <<>> /\ pending' = pending
      /\ nextTmp' = nextTmp /\ closing' = closing /\ sent' = sent /\ pc' = "closed"
      /\ start' = start /\ disk' = disk /\ temps' = temps /\ outside' = outside
      /\ view' = view /\ issued' = issued /\ unchecked' = unchecked
      /\ drives' = drives /\ clean' = clean
  BY <1>2 DEF CloseEdit, Reset, files, server, drive
<1>4. DOMAIN fileTok' = {} /\ DOMAIN pending' = {} /\ DOMAIN dirTok' = {}
  BY <1>2, <1>3, EmptyTable
<1>5. /\ pc' \in Between /\ pc' \notin {"driving", "closing"} /\ pc' \in Places
      /\ ~Active' /\ pc' # "refused"
  BY <1>3 DEF Between, Active, Places
<1>6. DiskInv' /\ EditorInv'
  BY <1>3, <1>4, EmptyTable DEF IInv, DiskInv, EditorInv
<1>7. ServerInv' /\ DriveInv'
  BY <1>3, <1>5 DEF IInv, ServerInv, DriveInv
<1>8. PlaceInv' /\ TokenInv' /\ OpenInv' /\ ClosingInv'
  BY <1>1, <1>3, <1>4, <1>5 DEF IInv, PlaceInv, TokenInv, OpenInv, ClosingInv
<1>9. VerifiedContent'
  BY <1>3 DEF IInv, VerifiedContent
<1>10. TempsAccounted'
  <2>1. Own' = Own
    BY <1>3 DEF Own
  <2> QED
    BY <2>1, <1>1, <1>3 DEF IInv, TempsAccounted
<1>11. CleanInv'
  BY <1>1, <1>3, <1>5 DEF IInv, CleanInv
<1> QED
  BY <1>6, <1>7, <1>8, <1>9, <1>10, <1>11 DEF IInv

-----------------------------------------------------------------------------
(* A drive begins; directories.                                            *)

LEMMA OpenRootStep == ASSUME IInv, OpenRoot PROVE IInv'
<1>1. /\ pc \in Between /\ drives < MaxDrives /\ drives' = drives + 1
      /\ start' = [disk |-> disk, temps |-> temps]
      /\ sent' = Set(<<>>, 0, [kind |-> "dir", path |-> Root])
      /\ issued' = 0 /\ unchecked' = {}
      /\ disk' = disk /\ temps' = temps /\ outside' = outside /\ closing' = closing
      /\ \/ view' = [p \in Paths |-> Nothing]
         \/ view' = view
      /\ clean' = (temps = {} /\ \A p \in Paths : Agree(disk[p], view'[p]))
  BY DEF OpenRoot, files
<1>2. DOMAIN dirTok = {} /\ DOMAIN fileTok = {} /\ closing = Idle /\ DOMAIN pending = {}
      /\ DOMAIN execTok = {}
  BY <1>1 DEF IInv, PlaceInv, EditorInv
<1>3. /\ pc' = "driving" /\ dirTok' = Set(dirTok, 0, Root)
      /\ fileTok' = fileTok /\ execTok' = execTok /\ pending' = pending /\ nextTmp' = nextTmp
  BY <1>2 DEF OpenRoot
<1>4. /\ DOMAIN sent' = {0} /\ sent'[0] = [kind |-> "dir", path |-> Root]
      /\ DOMAIN dirTok' = {0} /\ SentDirs' = {0} /\ SentFiles' = {}
  <2>1. DOMAIN sent' = {0} /\ sent'[0] = [kind |-> "dir", path |-> Root]
    BY <1>1, EmptyTable DEF Set
  <2>2. DOMAIN dirTok' = {0}
    BY <1>2, <1>3 DEF Set
  <2>3. /\ SentFiles' = {t \in DOMAIN sent' : sent'[t].kind = "file"}
        /\ SentDirs' = {t \in DOMAIN sent' : sent'[t].kind = "dir"}
    BY DEF SentFiles, SentDirs
  <2> QED
    BY <2>1, <2>2, <2>3
<1>5. DiskInv' /\ EditorInv'
  BY <1>1, <1>3 DEF IInv, DiskInv, EditorInv
<1>6. ServerInv'
  <2>1. view' \in [Paths -> Nodes] /\ IsTree(view') /\ IsPlain(view')
    <3>1. CASE view' = view
      BY <3>1 DEF IInv, ServerInv
    <3>2. CASE view' = [p \in Paths |-> Nothing]
      BY <3>2, NodeFacts DEF IsTree, IsPlain
    <3> QED
      BY <1>1, <3>1, <3>2
  <2>2. sent' \in [DOMAIN sent' -> DirEntries \cup FileEntries]
    <3>1. [kind |-> "dir", path |-> Root] \in DirEntries
      BY DEF DirEntries, Homes
    <3>2. sent' \in [{0} -> DirEntries \cup FileEntries]
      BY <1>1, <3>1, EmptyTable DEF Set
    <3> QED
      BY <1>4, <3>2
  <2> QED
    BY <1>1, <1>4, <2>1, <2>2 DEF ServerInv
<1>7. DriveInv'
  <2>1. drives \in 0 .. MaxDrives /\ MaxDrives \in Nat
    BY BoundAssumption DEF IInv, DriveInv
  <2>2. drives' \in 0 .. MaxDrives
    BY <2>1, <1>1
  <2>3. clean' \in BOOLEAN
    BY <1>1
  <2>4. pc' \in Places
    BY <1>3 DEF Places
  <2> QED
    BY <2>2, <2>3, <2>4 DEF DriveInv
<1>8. PlaceInv' /\ ClosingInv'
  BY <1>1, <1>2, <1>3 DEF PlaceInv, ClosingInv, Between
<1>9. TokenInv'
  BY <1>2, <1>3, <1>4 DEF TokenInv
<1>10. OpenInv'
  <2>1. Prefixes(Root) = {}
    <3>1. 1 .. Len(Root) = {}
      BY EmptySeq DEF Root
    <3> QED
      BY <3>1 DEF Prefixes
  <2>2. sent'[0].path = Root
    BY <1>4
  <2>3. Firm(sent[0].path)'
    BY <2>1, <2>2 DEF Firm
  <2> QED
    BY <1>4, <2>3 DEF OpenInv
<1>11. VerifiedContent'
  BY <1>1 DEF VerifiedContent
<1>12. TempsAccounted'
  <2>1. Own' = {}
    BY <1>1, <1>2, <1>3 DEF Own
  <2> QED
    BY <2>1, <1>1 DEF TempsAccounted
<1>13. CleanInv'
  BY <1>1, <1>2, <1>3, <1>4 DEF CleanInv
<1> QED
  BY <1>5, <1>6, <1>7, <1>8, <1>9, <1>10, <1>11, <1>12, <1>13 DEF IInv

\* Where another directory or file may be opened, everything on the way is there,
\* and no open file is touched.
LEMMA Entering ==
    ASSUME IInv, NEW t \in SentDirs, NEW p \in Paths, MayEnter(t, p)
    PROVE  /\ pc = "driving" /\ Active /\ closing = Idle
           /\ t \in DOMAIN dirTok /\ Firm(Parent(p)) /\ Parent(p) \in Homes
           /\ \A u \in SentFiles : sent[u].path # p /\ p \notin Prefixes(sent[u].path)
           /\ issued + 1 \in Nat \ DOMAIN sent
           /\ issued + 1 \notin DOMAIN dirTok /\ issued + 1 \notin DOMAIN fileTok
<1>1. pc = "driving" /\ Active /\ closing = Idle /\ Parent(p) = sent[t].path /\ NotOpen(p)
  BY DEF MayEnter, Active, IInv, PlaceInv
<1>2. t \in DOMAIN dirTok /\ Firm(Parent(p))
  BY <1>1 DEF IInv, TokenInv, OpenInv
<1>3. issued + 1 \in Nat \ DOMAIN sent
  BY SentFacts DEF IInv
<1>4. issued + 1 \notin DOMAIN dirTok /\ issued + 1 \notin DOMAIN fileTok
  BY <1>1, <1>3, SentFacts DEF IInv, TokenInv
<1>5. ASSUME NEW u \in SentFiles
      PROVE  sent[u].path # p /\ p \notin Prefixes(sent[u].path)
  <2>1. sent[u].path \in Paths /\ u \in DOMAIN sent
    BY SentFacts, EntryFacts DEF IInv
  <2>2. sent[u].path # p /\ ~Inside(sent[u].path, p)
    BY <1>1, <2>1 DEF NotOpen
  <2> QED
    BY <2>1, <2>2, PrefixFacts
<1>6. Parent(p) \in Homes
  BY ParentFacts DEF Homes
<1> QED
  BY <1>1, <1>2, <1>3, <1>4, <1>5, <1>6

LEMMA EnterDirStep ==
    ASSUME IInv, NEW t \in SentDirs, NEW p \in Paths, MayEnter(t, p),
           view[p].kind \in {"none", "dir"}, EnterDir(t, p)
    PROVE  IInv'
<1>0. PICK n : n = issued + 1
  OBVIOUS
<1>1. /\ pc = "driving" /\ Active /\ closing = Idle
      /\ t \in DOMAIN dirTok /\ Firm(Parent(p)) /\ Parent(p) \in Homes
      /\ \A u \in SentFiles : sent[u].path # p /\ p \notin Prefixes(sent[u].path)
      /\ n \in Nat \ DOMAIN sent
      /\ n \notin DOMAIN dirTok /\ n \notin DOMAIN fileTok
  BY <1>0, Entering
<1>2. clean => CanMake(p)
  <2>1. clean => Agree(disk[p], view[p])
    BY <1>1 DEF IInv, CleanInv
  <2>2. CanMake(p) <=> disk[p].kind \in {"dir", "none"}
    BY <1>1, BelowFirm
  <2> QED
    BY <2>1, <2>2 DEF Agree
<1>3. CASE Refuse("refused") /\ Unwritten /\ ~CanMake(p)
  BY <1>2, <1>3, Refuses
<1>4. CASE CanMake(p) /\ ~Refuse("refused")
  <2>1. /\ disk' = WithDirs(disk, p) /\ outside' = (outside \/ Through(p))
        /\ dirTok' = Set(dirTok, n, p)
        /\ sent' = Set(sent, n, [kind |-> "dir", path |-> p]) /\ issued' = n
        /\ view' = [view EXCEPT ![p] = Dir]
        /\ temps' = temps /\ fileTok' = fileTok /\ execTok' = execTok /\ pending' = pending
        /\ nextTmp' = nextTmp /\ closing' = closing /\ pc' = pc /\ unchecked' = unchecked
        /\ drives' = drives /\ start' = start /\ clean' = clean
    BY <1>0, <1>4, <1>1 DEF EnterDir, Issue
  <2>2. /\ disk \in [Paths -> Nodes] /\ IsTree(disk) /\ view \in [Paths -> Nodes]
        /\ IsTree(view) /\ IsPlain(view)
    BY DEF IInv, DiskInv, ServerInv
  <2>3. \A q \in Prefixes(p) : q \in Paths /\ disk[q].kind \in {"dir", "none"}
    BY <1>4, PrefixFacts, KindFacts DEF CanMake
  <2>4. /\ disk' \in [Paths -> Nodes] /\ IsTree(disk')
        /\ \A q \in Prefixes(p) : disk'[q] = Dir
        /\ \A q \in Paths \ Prefixes(p) : disk'[q] = disk[q]
    BY <2>1, <2>2, <2>3, WithDirsTree
  <2>5. \A q \in Prefixes(p) \ {p} : q \in Paths /\ disk[q].kind = "dir" /\ view[q].kind = "dir"
    BY <1>1, BelowFirm
  <2>6. p \in Prefixes(p) /\ disk'[p] = Dir
    BY <2>4, PrefixFacts
  <2>7. /\ view' \in [Paths -> Nodes] /\ view'[p] = Dir /\ IsPlain(view')
        /\ \A q \in Paths : q # p => view'[q] = view[q]
    BY <2>1, <2>2, NodeFacts DEF IsPlain
  <2>8. IsTree(view')
    <3>1. ASSUME NEW r \in Paths, view'[r].kind # "none", NEW q \in Prefixes(r) \ {r}
          PROVE  view'[q].kind = "dir"
      <4>1. q \in Paths
        BY <3>1, PrefixFacts
      <4>2. view[q].kind = "dir"
        <5>1. CASE r = p
          BY <5>1, <3>1, <2>5
        <5>2. CASE r # p
          BY <5>2, <3>1, <2>7, <2>2 DEF IsTree
        <5> QED
          BY <5>1, <5>2
      <4> QED
        BY <4>1, <4>2, <2>7, NodeFacts
    <3> QED
      BY <3>1 DEF IsTree
  <2>9. ~Through(p)
    BY <2>3, KindFacts DEF Through
  <2>10. /\ SentFiles' = SentFiles /\ SentDirs' = SentDirs \cup {n}
         /\ DOMAIN sent' = DOMAIN sent \cup {n} /\ sent'[n] = [kind |-> "dir", path |-> p]
         /\ \A u \in DOMAIN sent : sent'[u] = sent[u]
    BY <2>1, <1>1, SetSent
  <2>11. SentFiles \subseteq DOMAIN sent /\ SentDirs \subseteq DOMAIN sent
    BY DEF SentFiles, SentDirs
  <2>12. DiskInv' /\ EditorInv'
    BY <2>1, <2>4, <2>9 DEF IInv, DiskInv, EditorInv
  <2>13. ServerInv'
    <3>1. [kind |-> "dir", path |-> p] \in DirEntries
      BY DEF DirEntries, Homes
    <3>2. sent' \in [DOMAIN sent' -> DirEntries \cup FileEntries]
      BY <3>1, <2>1, SetType DEF IInv, ServerInv
    <3>3. issued' \in Nat /\ DOMAIN sent' \subseteq 0 .. issued'
      BY <1>0, <2>1, <2>10 DEF IInv, ServerInv
    <3> QED
      BY <2>1, <2>7, <2>8, <3>2, <3>3 DEF IInv, ServerInv
  <2>14. DriveInv' /\ PlaceInv' /\ ClosingInv'
    BY <2>1, <1>1 DEF IInv, DriveInv, PlaceInv, ClosingInv, Between
  <2>15. TokenInv'
    <3>1. DOMAIN dirTok' = SentDirs' /\ DOMAIN fileTok' = SentFiles'
      <4>1. DOMAIN dirTok' = DOMAIN dirTok \cup {n}
        BY <2>1 DEF Set
      <4> QED
        BY <4>1, <2>1, <2>10, <1>1 DEF IInv, TokenInv
    <3>2. ASSUME NEW u \in SentFiles PROVE FileOK(u)'
      BY <2>1, <2>10, <2>11, <1>1 DEF IInv, TokenInv, FileOK
    <3>3. ASSUME NEW u \in DOMAIN pending PROVE DeltaOK(u)'
      <4>1. u \in SentFiles
        BY <1>1 DEF IInv, TokenInv, EditorInv
      <4> QED
        BY <4>1, <2>1, <2>10, <2>11, <1>1 DEF IInv, TokenInv, DeltaOK
    <3> QED
      BY <2>1, <2>10, <3>1, <3>2, <3>3 DEF TokenInv
  <2>16. \A q \in Paths : /\ disk[q].kind = "dir" => disk'[q].kind = "dir"
                          /\ view[q].kind = "dir" => view'[q].kind = "dir"
    BY <2>4, <2>7, NodeFacts
  <2>17. ASSUME NEW d \in Homes, Firm(d) PROVE Firm(d)'
    <3>1. Prefixes(d) \subseteq Paths
      BY HomePrefixes
    <3> QED
      BY <2>16, <2>17, <3>1 DEF Firm
  <2>18. OpenInv'
    <3>1. ASSUME NEW u \in SentDirs PROVE Firm(sent[u].path)'
      BY <1>1, <2>10, <2>11, <2>17, SentFacts DEF IInv, OpenInv
    <3>2. Firm(sent[n].path)'
      BY <2>5, <2>6, <2>7, <2>10, <2>16, NodeFacts DEF Firm
    <3>3. ASSUME NEW u \in SentFiles
          PROVE  Firm(Parent(sent[u].path))' /\ view'[sent'[u].path].kind # "dir"
      <4>1. sent'[u] = sent[u] /\ sent[u].path \in Paths
        BY <2>10, <2>11, SentFacts, EntryFacts DEF IInv
      <4>2. Firm(Parent(sent[u].path)) /\ view[sent[u].path].kind # "dir"
        BY <1>1 DEF IInv, OpenInv
      <4>3. Firm(Parent(sent[u].path))'
        BY <4>1, <4>2, <2>17, ParentFacts DEF Homes
      <4> QED
        BY <4>1, <4>2, <4>3, <1>1, <2>7
    <3>4. \A u, w \in SentFiles : u # w => sent'[u].path # sent'[w].path
      BY <1>1, <2>10, <2>11 DEF IInv, OpenInv
    <3> QED
      BY <2>10, <3>1, <3>2, <3>3, <3>4 DEF OpenInv
  <2>19. VerifiedContent'
    <3>1. ASSUME NEW q \in Paths, disk'[q].kind = "file"
          PROVE  disk'[q].content \in {start.disk[q].content, view'[q].content} \/ q \in unchecked
      <4>1. q \notin Prefixes(p) /\ disk'[q] = disk[q]
        BY <3>1, <2>4, NodeFacts
      <4>2. view'[q] = view[q]
        BY <4>1, <2>6, <2>7
      <4> QED
        BY <4>1, <4>2, <3>1, <1>1 DEF IInv, VerifiedContent
    <3> QED
      BY <3>1, <2>1 DEF VerifiedContent
  <2>20. TempsAccounted'
    <3>1. Own' = Own
      BY <2>1 DEF Own
    <3> QED
      BY <3>1, <2>1 DEF IInv, TempsAccounted
  <2>21. CleanInv'
    <3> SUFFICES ASSUME clean PROVE CleanInv'
      BY <2>1 DEF CleanInv
    <3>1. ASSUME NEW q \in Paths PROVE Agree(disk'[q], view'[q])
      <4>1. CASE q \in Prefixes(p)
        <5>1. view'[q] = Dir
          BY <4>1, <2>2, <2>5, <2>7 DEF IsPlain
        <5> QED
          BY <4>1, <5>1, <2>4 DEF Agree
      <4>2. CASE q \notin Prefixes(p)
        BY <4>2, <2>4, <2>6, <2>7, <1>1 DEF IInv, CleanInv
      <4> QED
        BY <4>1, <4>2
    <3>2. ASSUME NEW u \in SentFiles PROVE CleanFile(u)'
      <4>1. sent'[u] = sent[u] /\ view'[sent[u].path] = view[sent[u].path]
        BY <1>1, <2>7, <2>10, <2>11, SentFacts, EntryFacts DEF IInv
      <4> QED
        BY <4>1, <2>1, <1>1 DEF IInv, CleanInv, CleanFile
    <3>3. ASSUME NEW u \in DOMAIN pending PROVE CleanDelta(u)'
      <4>1. u \in SentFiles
        BY <1>1 DEF IInv, TokenInv, EditorInv
      <4> QED
        BY <4>1, <2>1, <2>10, <2>11, <1>1 DEF IInv, CleanInv, CleanDelta
    <3>4. start.temps = {}
      BY <1>1 DEF IInv, CleanInv
    <3> QED
      BY <1>1, <2>1, <2>10, <3>1, <3>2, <3>3, <3>4 DEF CleanInv
  <2> QED
    BY <2>12, <2>13, <2>14, <2>15, <2>18, <2>19, <2>20, <2>21 DEF IInv
<1>5. \/ Refuse("refused") /\ Unwritten /\ ~CanMake(p)
      \/ CanMake(p) /\ ~Refuse("refused")
  <2>1. Refuse("refused") => pc' = "refused"
    BY DEF Refuse
  <2>2. pc' = "refused" => ~CanMake(p)
    BY <1>0, <1>1 DEF EnterDir
  <2> QED
    BY <1>0, <1>1, <2>1, <2>2 DEF EnterDir
<1> QED
  BY <1>3, <1>4, <1>5

LEMMA AddDirStep == ASSUME IInv, AddDir PROVE IInv'
<1>1. PICK t \in SentDirs, p \in Paths : MayEnter(t, p) /\ view[p].kind = "none" /\ EnterDir(t, p)
  BY DEF AddDir
<1> QED
  BY <1>1, EnterDirStep

LEMMA OpenDirStep == ASSUME IInv, OpenDir PROVE IInv'
<1>1. PICK t \in SentDirs, p \in Paths : MayEnter(t, p) /\ view[p].kind = "dir" /\ EnterDir(t, p)
  BY DEF OpenDir
<1> QED
  BY <1>1, EnterDirStep

LEMMA CopyDirStep == ASSUME IInv, CopyDir PROVE IInv'
<1>1. Refuse("copyRefused") /\ Unwritten
  BY DEF CopyDir
<1> QED
  BY <1>1, Refuses

\* The steps of a drive that leave the trees and the deltas alone keep what is
\* said of them.
LEMMA SameTrees ==
    ASSUME IInv, pc = "driving", pc' = "driving", disk' = disk, view' = view,
           start' = start, unchecked' = unchecked, temps' = temps, pending' = pending,
           closing' = closing, outside' = outside, drives' = drives, clean' = clean
    PROVE  DiskInv' /\ DriveInv' /\ ClosingInv' /\ VerifiedContent' /\ TempsAccounted'
<1>1. DiskInv' /\ DriveInv' /\ ClosingInv'
  BY DEF IInv, DiskInv, DriveInv, ClosingInv
<1>2. VerifiedContent'
  BY DEF IInv, VerifiedContent
<1>3. Own' = Own
  BY DEF Own
<1>4. TempsAccounted'
  BY <1>3 DEF IInv, TempsAccounted
<1> QED
  BY <1>1, <1>2, <1>4

LEMMA CloseDirStep == ASSUME IInv, CloseDir PROVE IInv'
<1>1. PICK t \in SentDirs :
         /\ pc = "driving"
         /\ \/ t \notin DOMAIN dirTok
            \/ /\ t \in DOMAIN dirTok
               /\ dirTok' = Drop(dirTok, t)
               /\ sent' = Drop(sent, t)
               /\ UNCHANGED <<files, fileTok, execTok, pending, nextTmp, closing, pc, view,
                              issued, unchecked, drive>>
  BY DEF CloseDir
<1>2. Active /\ t \in DOMAIN dirTok /\ closing = Idle
  BY <1>1 DEF Active, IInv, TokenInv, PlaceInv
<1>3. /\ dirTok' = Drop(dirTok, t) /\ sent' = Drop(sent, t)
      /\ disk' = disk /\ temps' = temps /\ outside' = outside
      /\ fileTok' = fileTok /\ execTok' = execTok /\ pending' = pending
      /\ nextTmp' = nextTmp /\ closing' = closing /\ pc' = pc /\ view' = view
      /\ issued' = issued /\ unchecked' = unchecked
      /\ drives' = drives /\ start' = start /\ clean' = clean
  BY <1>1, <1>2 DEF files, drive
<1>4. /\ SentFiles' = SentFiles \ {t} /\ SentDirs' = SentDirs \ {t}
      /\ DOMAIN sent' = DOMAIN sent \ {t}
      /\ \A u \in DOMAIN sent' : sent'[u] = sent[u]
  BY <1>3, DropSent
<1>5. SentFiles' = SentFiles /\ SentFiles \subseteq DOMAIN sent' /\ SentDirs' \subseteq DOMAIN sent'
  BY <1>4, SentFacts DEF IInv
<1>6. DiskInv' /\ DriveInv' /\ ClosingInv' /\ VerifiedContent' /\ TempsAccounted'
  BY <1>1, <1>3, SameTrees
<1>7. EditorInv' /\ PlaceInv'
  BY <1>1, <1>3 DEF IInv, EditorInv, PlaceInv, Between
<1>8. ServerInv'
  <2>1. sent' \in [DOMAIN sent' -> DirEntries \cup FileEntries]
    BY <1>3, DropType DEF IInv, ServerInv
  <2> QED
    BY <2>1, <1>3, <1>4 DEF IInv, ServerInv
<1>9. TokenInv'
  <2>1. DOMAIN dirTok' = DOMAIN dirTok \ {t}
    BY <1>3 DEF Drop
  <2>2. DOMAIN dirTok' = SentDirs' /\ DOMAIN fileTok' = SentFiles'
    BY <2>1, <1>2, <1>3, <1>4, <1>5 DEF IInv, TokenInv
  <2>3. ASSUME NEW u \in SentFiles PROVE FileOK(u)'
    BY <1>2, <1>3, <1>4, <1>5 DEF IInv, TokenInv, FileOK
  <2>4. ASSUME NEW u \in DOMAIN pending PROVE DeltaOK(u)'
    <3>1. u \in SentFiles
      BY <1>2 DEF IInv, TokenInv, EditorInv
    <3> QED
      BY <3>1, <1>2, <1>3, <1>4, <1>5 DEF IInv, TokenInv, DeltaOK
  <2> QED
    BY <2>2, <2>3, <2>4, <1>3, <1>5 DEF TokenInv
<1>10. OpenInv'
  <2>1. ASSUME NEW u \in SentDirs' PROVE Firm(sent[u].path)'
    BY <2>1, <1>2, <1>3, <1>4, <1>5 DEF IInv, OpenInv, Firm
  <2>2. ASSUME NEW u \in SentFiles
        PROVE  Firm(Parent(sent[u].path))' /\ view'[sent'[u].path].kind # "dir"
    BY <1>2, <1>3, <1>4, <1>5 DEF IInv, OpenInv, Firm
  <2>3. \A u, w \in SentFiles : u # w => sent'[u].path # sent'[w].path
    BY <1>2, <1>4, <1>5 DEF IInv, OpenInv
  <2> QED
    BY <1>5, <2>1, <2>2, <2>3 DEF OpenInv
<1>11. CleanInv'
  <2> SUFFICES ASSUME clean PROVE CleanInv'
    BY <1>3 DEF CleanInv
  <2>1. ASSUME NEW u \in SentFiles PROVE CleanFile(u)'
    BY <1>2, <1>3, <1>4, <1>5 DEF IInv, CleanInv, CleanFile
  <2>2. ASSUME NEW u \in DOMAIN pending PROVE CleanDelta(u)'
    <3>1. u \in SentFiles
      BY <1>2 DEF IInv, TokenInv, EditorInv
    <3> QED
      BY <3>1, <1>2, <1>3, <1>4, <1>5 DEF IInv, CleanInv, CleanDelta
  <2>3. start.temps = {} /\ \A p \in Paths : Agree(disk[p], view[p])
    BY <1>1, <1>2 DEF IInv, CleanInv
  <2> QED
    BY <1>1, <1>3, <1>5, <2>1, <2>2, <2>3 DEF CleanInv
<1> QED
  BY <1>6, <1>7, <1>8, <1>9, <1>10, <1>11 DEF IInv

\* An entry that nobody has open is removed from both trees.
LEMMA DeleteEntryStep == ASSUME IInv, DeleteEntry PROVE IInv'
<1>1. PICK t \in SentDirs, p \in Paths :
         /\ pc = "driving" /\ Parent(p) = sent[t].path /\ NotOpen(p)
         /\ \/ ~(t \in DOMAIN dirTok /\ NoLink(Parent(p)))
            \/ /\ disk' = Removed(disk, p) /\ outside' = (outside \/ Through(Parent(p)))
               /\ temps' = TempsOutside(p)
               /\ view' = Removed(view, p)
               /\ UNCHANGED <<editor, closing, pc, sent, issued, unchecked, drive>>
  BY DEF DeleteEntry
<1>2. Active /\ t \in DOMAIN dirTok /\ closing = Idle /\ Firm(Parent(p)) /\ Parent(p) \in Homes
  BY <1>1, ParentFacts DEF Active, Homes, IInv, TokenInv, PlaceInv, OpenInv
<1>3. NoLink(Parent(p)) /\ ~Through(Parent(p))
  BY <1>2, FirmFacts
<1>4. /\ disk' = Removed(disk, p) /\ outside' = outside
      /\ temps' = TempsOutside(p) /\ view' = Removed(view, p)
      /\ dirTok' = dirTok /\ fileTok' = fileTok /\ execTok' = execTok /\ pending' = pending
      /\ nextTmp' = nextTmp /\ closing' = closing /\ pc' = pc /\ sent' = sent
      /\ issued' = issued /\ unchecked' = unchecked
      /\ drives' = drives /\ start' = start /\ clean' = clean
  <2>1. outside = FALSE
    BY DEF IInv, DiskInv
  <2> QED
    BY <2>1, <1>1, <1>2, <1>3 DEF editor, drive
<1>5. /\ disk' \in [Paths -> Nodes] /\ IsTree(disk')
      /\ \A q \in Paths : p \in Prefixes(q) => disk'[q] = Nothing
      /\ \A q \in Paths : p \notin Prefixes(q) => disk'[q] = disk[q]
  BY <1>4, RemovedTree DEF IInv, DiskInv
<1>6. /\ view' \in [Paths -> Nodes] /\ IsTree(view')
      /\ \A q \in Paths : p \in Prefixes(q) => view'[q] = Nothing
      /\ \A q \in Paths : p \notin Prefixes(q) => view'[q] = view[q]
  BY <1>4, RemovedTree DEF IInv, ServerInv
<1>7. ASSUME NEW u \in DOMAIN sent, NEW q \in Prefixes(sent[u].path)
      PROVE  p \notin Prefixes(q) /\ q \in Paths /\ disk'[q] = disk[q] /\ view'[q] = view[q]
  <2>1. sent[u].path # p /\ ~Inside(sent[u].path, p) /\ sent[u].path \in Homes
    BY <1>1, SentFacts DEF NotOpen, IInv
  <2>2. sent[u].path \in Paths
    BY <2>1, <1>7, ParentFacts DEF Homes
  <2>3. p \notin Prefixes(sent[u].path) /\ q \in Paths
    BY <2>1, <2>2, <1>7, PrefixFacts
  <2>4. p \notin Prefixes(q)
    BY <2>2, <2>3, <1>7, PrefixFacts
  <2> QED
    BY <2>3, <2>4, <1>5, <1>6
<1>8. SentFiles' = SentFiles /\ SentDirs' = SentDirs
  BY <1>4 DEF SentFiles, SentDirs
<1>9. ASSUME NEW u \in SentFiles
      PROVE  /\ u \in DOMAIN sent /\ sent[u].path \in Paths /\ sent[u].path \in Prefixes(sent[u].path)
             /\ Parent(sent[u].path) \in Homes
             /\ Prefixes(Parent(sent[u].path)) \subseteq Prefixes(sent[u].path)
  BY SentFacts, EntryFacts, PrefixFacts, ParentFacts DEF IInv, Homes
<1>10. \A u \in DOMAIN pending : u \in SentFiles
  BY <1>2 DEF IInv, TokenInv, EditorInv
<1>11. DiskInv' /\ EditorInv' /\ DriveInv' /\ PlaceInv' /\ ClosingInv'
  <2>1. temps' \subseteq temps
    BY <1>4 DEF TempsOutside
  <2> QED
    BY <2>1, <1>1, <1>4, <1>5 DEF IInv, DiskInv, EditorInv, DriveInv, PlaceInv, ClosingInv, Between
<1>12. ServerInv'
  <2>1. IsPlain(view')
    BY <1>5, <1>6, NodeFacts DEF IInv, ServerInv, IsPlain
  <2> QED
    BY <2>1, <1>4, <1>6 DEF IInv, ServerInv
<1>13. TokenInv'
  <2>1. \A u : (FileOK(u)' <=> FileOK(u)) /\ (DeltaOK(u)' <=> DeltaOK(u))
    BY <1>4 DEF FileOK, DeltaOK
  <2> QED
    BY <2>1, <1>2, <1>4, <1>8 DEF IInv, TokenInv
<1>14. OpenInv'
  <2>1. ASSUME NEW u \in SentDirs PROVE Firm(sent[u].path)'
    <3>1. u \in DOMAIN sent /\ Firm(sent[u].path)
      BY <1>2, SentFacts DEF IInv, OpenInv
    <3> QED
      BY <3>1, <1>4, <1>7 DEF Firm
  <2>2. ASSUME NEW u \in SentFiles
        PROVE  Firm(Parent(sent[u].path))' /\ view'[sent'[u].path].kind # "dir"
    <3>1. Firm(Parent(sent[u].path)) /\ view[sent[u].path].kind # "dir"
      BY <1>2 DEF IInv, OpenInv
    <3> QED
      BY <3>1, <1>4, <1>7, <1>9 DEF Firm
  <2> QED
    BY <1>2, <1>4, <1>8, <2>1, <2>2 DEF IInv, OpenInv
<1>15. VerifiedContent'
  <2>1. ASSUME NEW q \in Paths, disk'[q].kind = "file"
        PROVE  disk'[q].content \in {start.disk[q].content, view'[q].content} \/ q \in unchecked
    <3>1. p \notin Prefixes(q) /\ disk'[q] = disk[q] /\ view'[q] = view[q]
      BY <2>1, <1>5, <1>6, NodeFacts
    <3> QED
      BY <3>1, <2>1, <1>2 DEF IInv, VerifiedContent
  <2> QED
    BY <2>1, <1>4 DEF VerifiedContent
<1>16. TempsAccounted'
  <2>1. Own' = Own /\ Own = {pending[u].tmp : u \in DOMAIN pending}
    BY <1>2, <1>4 DEF Own
  <2>2. Own \subseteq temps /\ temps \subseteq Own \cup start.temps
    BY <1>1, <1>2 DEF IInv, TempsAccounted
  <2>3. ASSUME NEW u \in DOMAIN pending PROVE ~Inside(pending[u].tmp.dest, p)
    <3>1. pending[u].tmp.dest = sent[u].path /\ u \in DOMAIN sent
      BY <1>2, <1>9, <1>10 DEF IInv, TokenInv, DeltaOK
    <3> QED
      BY <3>1, <1>1 DEF NotOpen
  <2>4. Own \subseteq temps'
    BY <2>1, <2>2, <2>3, <1>4 DEF TempsOutside
  <2>5. temps' \subseteq temps
    BY <1>4 DEF TempsOutside
  <2> QED
    BY <1>4, <2>1, <2>2, <2>4, <2>5 DEF TempsAccounted
<1>17. CleanInv'
  <2> SUFFICES ASSUME clean PROVE CleanInv'
    BY <1>4 DEF CleanInv
  <2>1. ASSUME NEW u \in SentFiles PROVE CleanFile(u)'
    <3>1. view'[sent[u].path] = view[sent[u].path] /\ CleanFile(u)
      BY <1>2, <1>7, <1>9 DEF IInv, CleanInv
    <3> QED
      BY <3>1, <1>4 DEF CleanFile
  <2>2. ASSUME NEW u \in DOMAIN pending PROVE CleanDelta(u)'
    BY <1>2, <1>4 DEF IInv, CleanInv, CleanDelta
  <2>3. start.temps = {} /\ \A q \in Paths : Agree(disk[q], view[q])
    BY <1>1, <1>2 DEF IInv, CleanInv
  <2>4. ASSUME NEW q \in Paths PROVE Agree(disk'[q], view'[q])
    BY <1>5, <1>6, <2>3, NodeFacts DEF Agree
  <2> QED
    BY <1>1, <1>4, <1>8, <2>1, <2>2, <2>3, <2>4 DEF CleanInv
<1> QED
  BY <1>11, <1>12, <1>13, <1>14, <1>15, <1>16, <1>17 DEF IInv

-----------------------------------------------------------------------------
(* Files are opened.                                                       *)

LEMMA EnterFileStep ==
    ASSUME IInv, NEW t \in SentDirs, NEW p \in Paths, NEW from \in Homes, NEW added \in BOOLEAN,
           NEW node \in Nodes, MayEnter(t, p), view[p].kind # "dir",
           added => view[p] = Nothing,
           ~added => view[p].kind = "file" /\ from = NoPath,
           from # NoPath => node.exec = "any",
           from = NoPath => node.content = view[p].content /\ node.exec = view[p].exec,
           EnterFile(t, p, from, added, node)
    PROVE  IInv'
<1>0. PICK n : n = issued + 1
  OBVIOUS
<1>1. /\ pc = "driving" /\ Active /\ closing = Idle
      /\ t \in DOMAIN dirTok /\ Firm(Parent(p)) /\ Parent(p) \in Homes
      /\ \A u \in SentFiles : sent[u].path # p /\ p \notin Prefixes(sent[u].path)
      /\ n \in Nat \ DOMAIN sent
      /\ n \notin DOMAIN dirTok /\ n \notin DOMAIN fileTok
  BY <1>0, Entering
<1>2. CanMake(Parent(p)) /\ ~Through(Parent(p))
  BY <1>1, FirmFacts
<1>3. CASE /\ from # NoPath
           /\ Refuse("copyRefused") /\ Unwritten
  BY <1>3, Refuses
<1>4. CASE ~(from # NoPath /\ Refuse("copyRefused") /\ Unwritten)
  <2> DEFINE e == FileEntry(p, node, from)
             tok == [dest |-> p, from |-> from, added |-> added]
  <2>1. /\ disk' = WithDirs(disk, Parent(p)) /\ outside' = outside
        /\ fileTok' = Set(fileTok, n, tok)
        /\ sent' = Set(sent, n, e) /\ issued' = n
        /\ view' = view
        /\ temps' = temps /\ dirTok' = dirTok /\ execTok' = execTok /\ pending' = pending
        /\ nextTmp' = nextTmp /\ closing' = closing /\ pc' = pc /\ unchecked' = unchecked
        /\ drives' = drives /\ start' = start /\ clean' = clean
    <3>1. outside = FALSE
      BY DEF IInv, DiskInv
    <3>2. /\ disk' = WithDirs(disk, Parent(p)) /\ outside' = (outside \/ Through(Parent(p)))
          /\ fileTok' = Set(fileTok, n, tok)
          /\ Issue(n, e)
          /\ UNCHANGED <<temps, dirTok, execTok, pending, nextTmp, closing, pc, view,
                         unchecked, drives, start, clean>>
      BY <1>0, <1>4, <1>1, <1>2 DEF EnterFile
    <3>3. outside' = outside
      BY <3>1, <3>2, <1>2
    <3> QED
      BY <1>0, <3>2, <3>3 DEF Issue
  <2>2. /\ e \in FileEntries /\ e.kind = "file" /\ e.path = p
        /\ e.base = node.content /\ e.content = node.content
        /\ e.exec = node.exec /\ ~e.told /\ e.from = from /\ e.delta = "none"
    BY NewEntry
  <2>3. tok \in FileTokens /\ tok.dest = p /\ tok.from = from /\ tok.added = added
    BY DEF FileTokens
  <2> HIDE DEF e, tok
  <2>4. /\ disk' \in [Paths -> Nodes] /\ IsTree(disk')
        /\ \A q \in Prefixes(Parent(p)) : disk'[q] = Dir
        /\ \A q \in Paths \ Prefixes(Parent(p)) : disk'[q] = disk[q]
        /\ \A q \in Prefixes(Parent(p)) : q \in Paths /\ disk[q].kind = "dir" /\ view[q].kind = "dir"
    <3>1. disk \in [Paths -> Nodes] /\ IsTree(disk)
      BY DEF IInv, DiskInv
    <3>2. \A q \in Prefixes(Parent(p)) : disk[q].kind = "dir" /\ view[q].kind = "dir"
      BY <1>1 DEF Firm
    <3>3. Parent(p) = Root \/ Parent(p) \in Paths
      BY <1>1 DEF Homes
    <3> QED
      BY <2>1, <3>1, <3>2, <3>3, WithDirsTree
  <2>5. /\ SentFiles' = SentFiles \cup {n} /\ SentDirs' = SentDirs
        /\ DOMAIN sent' = DOMAIN sent \cup {n} /\ sent'[n] = e
        /\ \A u \in DOMAIN sent : sent'[u] = sent[u]
    BY <2>1, <2>2, <1>1, SetSent
  <2>6. SentFiles \subseteq DOMAIN sent /\ SentDirs \subseteq DOMAIN sent
    BY DEF SentFiles, SentDirs
  <2>7. /\ DOMAIN fileTok' = DOMAIN fileTok \cup {n} /\ fileTok'[n] = tok
        /\ \A u \in DOMAIN fileTok : fileTok'[u] = fileTok[u]
    BY <2>1, <1>1 DEF Set
  <2>8. DOMAIN fileTok = SentFiles /\ DOMAIN dirTok = SentDirs
    BY <1>1 DEF IInv, TokenInv
  <2>9. DOMAIN pending \subseteq SentFiles /\ DOMAIN execTok \subseteq SentFiles /\ n \notin SentFiles
    BY <2>6, <2>8, <1>1 DEF IInv, EditorInv
  <2>10. DiskInv' /\ DriveInv' /\ PlaceInv' /\ ClosingInv'
    BY <2>1, <2>4, <1>1 DEF IInv, DiskInv, DriveInv, PlaceInv, ClosingInv, Between
  <2>11. EditorInv'
    <3>1. fileTok' \in [DOMAIN fileTok' -> FileTokens]
      BY <2>1, <2>3, SetType DEF IInv, EditorInv
    <3> QED
      BY <3>1, <2>1, <2>7 DEF IInv, EditorInv
  <2>12. ServerInv'
    <3>1. sent' \in [DOMAIN sent' -> DirEntries \cup FileEntries]
      BY <2>1, <2>2, SetType DEF IInv, ServerInv
    <3>2. issued' \in Nat /\ DOMAIN sent' \subseteq 0 .. issued'
      BY <1>0, <2>1, <2>5 DEF IInv, ServerInv
    <3> QED
      BY <2>1, <3>1, <3>2 DEF IInv, ServerInv
  <2>13. TokenInv'
    <3>1. DOMAIN dirTok' = SentDirs' /\ DOMAIN fileTok' = SentFiles'
      BY <2>1, <2>5, <2>7, <2>8
    <3>2. ASSUME NEW u \in SentFiles PROVE FileOK(u)'
      <4>1. FileOK(u) /\ u \in DOMAIN sent /\ u \in DOMAIN fileTok
        BY <1>1, <2>6, <2>8 DEF IInv, TokenInv
      <4> QED
        BY <4>1, <2>1, <2>5, <2>7 DEF FileOK
    <3>3. FileOK(n)'
      BY <2>1, <2>2, <2>3, <2>5, <2>7, <2>9 DEF FileOK
    <3>4. ASSUME NEW u \in DOMAIN pending PROVE DeltaOK(u)'
      <4>1. DeltaOK(u) /\ u \in DOMAIN sent
        BY <1>1, <2>6, <2>9 DEF IInv, TokenInv
      <4> QED
        BY <4>1, <2>1, <2>5 DEF DeltaOK
    <3> QED
      BY <2>1, <2>5, <3>1, <3>2, <3>3, <3>4 DEF TokenInv
  <2>14. \A q \in Paths : disk[q].kind = "dir" => disk'[q].kind = "dir"
    BY <2>4, NodeFacts
  <2>15. ASSUME NEW d \in Homes, Firm(d) PROVE Firm(d)'
    <3>1. Prefixes(d) \subseteq Paths
      BY HomePrefixes
    <3> QED
      BY <2>1, <2>14, <2>15, <3>1 DEF Firm
  <2>16. OpenInv'
    <3>1. ASSUME NEW u \in SentDirs PROVE Firm(sent[u].path)'
      BY <1>1, <2>5, <2>6, <2>15, SentFacts DEF IInv, OpenInv
    <3>2. ASSUME NEW u \in SentFiles
          PROVE  Firm(Parent(sent[u].path))' /\ view'[sent'[u].path].kind # "dir"
      <4>1. sent'[u] = sent[u] /\ sent[u].path \in Paths
        BY <2>5, <2>6, SentFacts, EntryFacts DEF IInv
      <4>2. Firm(Parent(sent[u].path)) /\ view[sent[u].path].kind # "dir"
        BY <1>1 DEF IInv, OpenInv
      <4>3. Firm(Parent(sent[u].path))'
        BY <4>1, <4>2, <2>15, ParentFacts DEF Homes
      <4> QED
        BY <4>1, <4>2, <4>3, <2>1
    <3>3. Firm(Parent(sent[n].path))' /\ view'[sent'[n].path].kind # "dir"
      BY <1>1, <2>1, <2>2, <2>5, <2>15
    <3>4. \A u, w \in SentFiles : u # w => sent'[u].path # sent'[w].path
      BY <1>1, <2>5, <2>6 DEF IInv, OpenInv
    <3>5. \A u \in SentFiles : sent'[u].path # sent'[n].path
      BY <1>1, <2>2, <2>5, <2>6
    <3> QED
      BY <2>5, <3>1, <3>2, <3>3, <3>4, <3>5 DEF OpenInv
  <2>17. VerifiedContent'
    <3>1. ASSUME NEW q \in Paths, disk'[q].kind = "file"
          PROVE  disk'[q].content \in {start.disk[q].content, view'[q].content} \/ q \in unchecked
      <4>1. disk'[q] = disk[q]
        BY <3>1, <2>4, NodeFacts
      <4> QED
        BY <4>1, <3>1, <2>1, <1>1 DEF IInv, VerifiedContent
    <3> QED
      BY <3>1, <2>1 DEF VerifiedContent
  <2>18. TempsAccounted'
    <3>1. Own' = Own
      BY <2>1 DEF Own
    <3> QED
      BY <3>1, <2>1 DEF IInv, TempsAccounted
  <2>19. CleanInv'
    <3> SUFFICES ASSUME clean PROVE CleanInv'
      BY <2>1 DEF CleanInv
    <3>1. ASSUME NEW q \in Paths PROVE Agree(disk'[q], view'[q])
      <4>1. CASE q \in Prefixes(Parent(p))
        <5>1. view'[q] = Dir
          BY <4>1, <2>1, <2>4 DEF IInv, ServerInv, IsPlain
        <5> QED
          BY <4>1, <5>1, <2>4 DEF Agree
      <4>2. CASE q \notin Prefixes(Parent(p))
        BY <4>2, <2>1, <2>4, <1>1 DEF IInv, CleanInv
      <4> QED
        BY <4>1, <4>2
    <3>2. ASSUME NEW u \in SentFiles PROVE CleanFile(u)'
      <4>1. CleanFile(u) /\ u \in DOMAIN sent /\ u \in DOMAIN fileTok
        BY <1>1, <2>6, <2>8 DEF IInv, CleanInv
      <4> QED
        BY <4>1, <2>1, <2>5, <2>7 DEF CleanFile
    <3>3. CleanFile(n)'
      BY <2>1, <2>2, <2>3, <2>5, <2>7 DEF CleanFile
    <3>4. ASSUME NEW u \in DOMAIN pending PROVE CleanDelta(u)'
      BY <2>1, <2>5, <2>6, <2>9, <1>1 DEF IInv, CleanInv, CleanDelta
    <3>5. start.temps = {}
      BY <1>1 DEF IInv, CleanInv
    <3> QED
      BY <1>1, <2>1, <2>5, <3>1, <3>2, <3>3, <3>4, <3>5 DEF CleanInv
  <2> QED
    BY <2>10, <2>11, <2>12, <2>13, <2>16, <2>17, <2>18, <2>19 DEF IInv
<1> QED
  BY <1>3, <1>4

LEMMA AddFileStep == ASSUME IInv, AddFile PROVE IInv'
<1>1. PICK t \in SentDirs, p \in Paths :
         /\ MayEnter(t, p) /\ view[p].kind = "none"
         /\ EnterFile(t, p, NoPath, TRUE, Node("file", "empty", "-"))
  BY DEF AddFile
<1>2. view[p] = Nothing
  BY <1>1 DEF IInv, ServerInv, IsPlain
<1>3. NoPath \in Homes /\ Node("file", "empty", "-") \in Nodes
  BY NodeFacts DEF NoPath, Homes, Contents
<1>4. PICK node : node = Node("file", "empty", "-")
  OBVIOUS
<1>5. /\ node \in Nodes /\ node.content = view[p].content /\ node.exec = view[p].exec
      /\ view[p].kind # "dir"
  BY <1>1, <1>2, <1>3, <1>4, NodeFacts
<1>6. EnterFile(t, p, NoPath, TRUE, node) /\ MayEnter(t, p)
  BY <1>1, <1>4, Zenon
<1> QED
  BY <1>2, <1>3, <1>5, <1>6, EnterFileStep

LEMMA CopyFileStep == ASSUME IInv, CopyFile PROVE IInv'
<1>1. PICK t \in SentDirs, p \in Paths, q \in Paths, v \in Versions :
         /\ MayEnter(t, p) /\ view[p].kind = "none"
         /\ EnterFile(t, p, q, TRUE, Node("file", v, "any"))
  BY DEF CopyFile
<1>2. view[p] = Nothing
  BY <1>1 DEF IInv, ServerInv, IsPlain
<1>3. q \in Homes /\ q # NoPath /\ Node("file", v, "any") \in Nodes
  BY NodeFacts, PathType DEF NoPath, Homes, Contents
<1>4. PICK node : node = Node("file", v, "any")
  OBVIOUS
<1>5. /\ node \in Nodes /\ node.exec = "any"
      /\ view[p].kind # "dir"
  BY <1>1, <1>2, <1>3, <1>4, NodeFacts
<1>6. EnterFile(t, p, q, TRUE, node) /\ MayEnter(t, p)
  BY <1>1, <1>4, Zenon
<1> QED
  BY <1>2, <1>3, <1>5, <1>6, EnterFileStep

LEMMA OpenFileStep == ASSUME IInv, OpenFile PROVE IInv'
<1>1. PICK t \in SentDirs, p \in Paths :
         /\ MayEnter(t, p) /\ view[p].kind = "file"
         /\ EnterFile(t, p, NoPath, FALSE, view[p])
  BY DEF OpenFile
<1>2. NoPath \in Homes /\ view[p] \in Nodes
  BY DEF NoPath, Homes, IInv, ServerInv
<1> QED
  BY <1>1, <1>2, EnterFileStep

-----------------------------------------------------------------------------
(* Files that are open.                                                    *)

LEMMA FileFacts ==
    ASSUME IInv, Active, NEW t \in SentFiles
    PROVE  /\ t \in DOMAIN sent /\ sent[t] \in FileEntries /\ t \in Nat
           /\ t \in DOMAIN fileTok /\ fileTok[t] \in FileTokens
           /\ sent[t].path \in Paths /\ Firm(Parent(sent[t].path)) /\ view[sent[t].path].kind # "dir"
           /\ FileOK(t) /\ DOMAIN fileTok = SentFiles /\ DOMAIN pending \subseteq SentFiles
           /\ t \in DOMAIN pending => DeltaOK(t) /\ pending[t] \in Deltas
           /\ clean => /\ CleanFile(t)
                       /\ t \in DOMAIN pending => CleanDelta(t)
                       /\ pc = "driving" => Agree(disk[sent[t].path], view[sent[t].path])
<1>1. t \in DOMAIN sent /\ sent[t] \in FileEntries /\ t \in Nat
  BY SentFacts DEF IInv
<1>2. sent[t].path \in Paths
  BY <1>1, EntryFacts
<1>3. DOMAIN fileTok = SentFiles /\ FileOK(t) /\ (t \in DOMAIN pending => DeltaOK(t))
  BY DEF IInv, TokenInv
<1>4. /\ t \in DOMAIN fileTok /\ fileTok[t] \in FileTokens /\ DOMAIN pending \subseteq SentFiles
      /\ t \in DOMAIN pending => pending[t] \in Deltas
  BY <1>3 DEF IInv, EditorInv
<1>5. Firm(Parent(sent[t].path)) /\ view[sent[t].path].kind # "dir"
  BY DEF IInv, OpenInv
<1>6. clean => /\ CleanFile(t)
               /\ t \in DOMAIN pending => CleanDelta(t)
               /\ pc = "driving" => Agree(disk[sent[t].path], view[sent[t].path])
  BY <1>2 DEF IInv, CleanInv
<1> QED
  BY <1>1, <1>2, <1>3, <1>4, <1>5, <1>6

\* An event about one file that is open, which changes nothing on the disk but
\* temporary files.
LEMMA OneFile ==
    ASSUME IInv, NEW t \in SentFiles, pc = "driving", pc' = "driving",
           disk' = disk, view' = view, start' = start, clean' = clean, drives' = drives,
           unchecked' = unchecked, issued' = issued, closing' = closing,
           dirTok' = dirTok, fileTok' = fileTok,
           sent' \in [DOMAIN sent -> DirEntries \cup FileEntries], sent'[t] \in FileEntries,
           sent'[t].path = sent[t].path,
           \A u \in DOMAIN sent : u # t => sent'[u] = sent[u],
           \A u : u # t => /\ u \in DOMAIN execTok' <=> u \in DOMAIN execTok
                           /\ u \in DOMAIN pending' <=> u \in DOMAIN pending,
           \A u \in DOMAIN execTok : u # t => execTok'[u] = execTok[u],
           \A u \in DOMAIN pending : u # t => pending'[u] = pending[u],
           FileOK(t)', t \in DOMAIN pending' => DeltaOK(t)',
           clean => CleanFile(t)' /\ (t \in DOMAIN pending' => CleanDelta(t)')
    PROVE  /\ ServerInv' /\ DriveInv' /\ PlaceInv' /\ TokenInv' /\ OpenInv' /\ ClosingInv'
           /\ VerifiedContent' /\ CleanInv'
<1>1. Active /\ Active' /\ closing = Idle
  BY DEF Active, IInv, PlaceInv
<1>2. /\ DOMAIN fileTok = SentFiles /\ DOMAIN pending \subseteq SentFiles
      /\ SentFiles \subseteq DOMAIN sent /\ SentDirs \subseteq DOMAIN sent
      /\ t \in DOMAIN sent /\ sent[t].kind = "file"
  BY <1>1, FileFacts DEF SentFiles, SentDirs
<1>3. SentFiles' = SentFiles /\ SentDirs' = SentDirs
  <2>1. sent'[t].kind = "file" /\ DOMAIN sent' = DOMAIN sent
    BY EntryFacts
  <2> QED
    BY <1>2, <2>1, SameSent
<1>4. \A u \in SentDirs : u # t
  BY <1>2 DEF SentDirs
<1>5. ServerInv'
  <2>1. DOMAIN sent' = DOMAIN sent
    OBVIOUS
  <2> QED
    BY <2>1 DEF IInv, ServerInv
<1>6. DriveInv' /\ PlaceInv' /\ ClosingInv' /\ VerifiedContent'
  BY <1>1 DEF IInv, DriveInv, PlaceInv, ClosingInv, VerifiedContent, Between
<1>7. TokenInv'
  <2>1. ASSUME NEW u \in SentFiles, u # t PROVE FileOK(u)'
    <3>1. FileOK(u) /\ u \in DOMAIN sent
      BY <1>1, <1>2 DEF IInv, TokenInv
    <3> QED
      BY <2>1, <3>1 DEF FileOK
  <2>2. ASSUME NEW u \in DOMAIN pending', u # t PROVE DeltaOK(u)'
    <3>1. DeltaOK(u) /\ u \in DOMAIN sent /\ u \in DOMAIN pending
      BY <1>1, <1>2, <2>2 DEF IInv, TokenInv
    <3> QED
      BY <2>2, <3>1 DEF DeltaOK
  <2>3. DOMAIN dirTok' = SentDirs' /\ DOMAIN fileTok' = SentFiles'
    BY <1>1, <1>3 DEF IInv, TokenInv
  <2> QED
    BY <1>3, <2>1, <2>2, <2>3 DEF TokenInv
<1>8. \A u \in DOMAIN sent : sent'[u].path = sent[u].path
  OBVIOUS
<1>9. OpenInv'
  <2>1. \A u \in DOMAIN sent : /\ Firm(sent[u].path)' <=> Firm(sent[u].path)
                               /\ Firm(Parent(sent[u].path))' <=> Firm(Parent(sent[u].path))
    BY <1>8 DEF Firm
  <2> QED
    BY <1>1, <1>2, <1>3, <1>8, <2>1 DEF IInv, OpenInv
<1>10. CleanInv'
  <2> SUFFICES ASSUME clean PROVE CleanInv'
    BY DEF CleanInv
  <2>1. ASSUME NEW u \in SentFiles, u # t PROVE CleanFile(u)'
    <3>1. CleanFile(u) /\ u \in DOMAIN sent
      BY <1>1, <1>2 DEF IInv, CleanInv
    <3> QED
      BY <2>1, <3>1 DEF CleanFile
  <2>2. ASSUME NEW u \in DOMAIN pending', u # t PROVE CleanDelta(u)'
    <3>1. CleanDelta(u) /\ u \in DOMAIN sent /\ u \in DOMAIN pending
      BY <1>1, <1>2, <2>2 DEF IInv, CleanInv
    <3> QED
      BY <2>2, <3>1 DEF CleanDelta
  <2>3. start.temps = {} /\ \A p \in Paths : Agree(disk[p], view[p])
    BY <1>1 DEF IInv, CleanInv
  <2> QED
    BY <1>1, <1>3, <2>1, <2>2, <2>3 DEF CleanInv
<1> QED
  BY <1>5, <1>6, <1>7, <1>9, <1>10

\* What an event changes of the server's entry for a file.
LEMMA EntryChanges ==
    ASSUME NEW e \in FileEntries, NEW d \in {"begun", "sent", "ended"}, NEW v \in Contents,
           NEW x \in Execs
    PROVE  /\ [e EXCEPT !.delta = d] \in FileEntries
           /\ [e EXCEPT !.delta = d, !.content = v] \in FileEntries
           /\ [e EXCEPT !.told = TRUE, !.exec = x] \in FileEntries
BY DEF FileEntries

LEMMA RefusalFacts ==
    ASSUME NEW t
    PROVE  /\ Refusal(t) \in {"refused", "copyRefused"}
           /\ Refusal(t) = "refused" <=> sent[t].from = NoPath
           /\ Refusal(t) = IF sent[t].from = NoPath THEN "refused" ELSE "copyRefused"
BY DEF Refusal

\* The place of an open file, at the time of an event.
LEMMA PlaceOfFile ==
    ASSUME IInv, pc = "driving", NEW t \in SentFiles, NEW p, p = sent[t].path
    PROVE  /\ NoLink(p) <=> disk[p].kind # "link"
           /\ Kind(p) = disk[p].kind /\ Kind(Parent(p)) = "dir" /\ disk[p] \in Nodes
           /\ ~Through(p) <=> disk[p].kind # "link"
           /\ FileOrNone(p) <=> disk[p].kind \in {"file", "none"}
           /\ CanMake(Parent(p)) /\ ~Through(Parent(p))
           /\ \A q \in Prefixes(p) \ {p} : disk[q].kind = "dir"
           /\ clean => /\ Agree(disk[p], view[p])
                       /\ fileTok[t].added => disk[p].kind = "none" /\ disk[p].exec = "-"
                       /\ ~fileTok[t].added => disk[p].kind = "file"
                       /\ fileTok[t].added => view[p] = Nothing
                       /\ disk[p].kind # "file" => fileTok[t].added
<1>1. Active /\ p \in Paths /\ Firm(Parent(p))
  BY FileFacts DEF Active
<1>2. /\ Parent(p) \in Homes /\ Kind(p) = disk[p].kind
      /\ NoLink(p) <=> disk[p].kind # "link"
      /\ ~Through(p) <=> disk[p].kind # "link"
      /\ FileOrNone(p) <=> disk[p].kind \in {"file", "none"}
      /\ \A q \in Prefixes(p) \ {p} : disk[q].kind = "dir"
  BY <1>1, BelowFirm
<1>3. Kind(Parent(p)) = "dir" /\ CanMake(Parent(p)) /\ ~Through(Parent(p))
  BY <1>1, <1>2, FirmFacts
<1>4. ASSUME clean
      PROVE  /\ Agree(disk[p], view[p])
             /\ fileTok[t].added => disk[p].kind = "none" /\ disk[p].exec = "-"
             /\ ~fileTok[t].added => disk[p].kind = "file"
             /\ fileTok[t].added => view[p] = Nothing
  <2>1. Agree(disk[p], view[p]) /\ CleanFile(t)
    BY <1>1, <1>4, FileFacts
  <2> QED
    BY <2>1, NodeFacts DEF CleanFile, Agree
<1>5. disk[p] \in Nodes
  BY <1>1 DEF IInv, DiskInv
<1> QED
  BY <1>2, <1>3, <1>4, <1>5

LEMMA ApplyTextDeltaStep == ASSUME IInv, ApplyTextDelta PROVE IInv'
<1>1. PICK t \in SentFiles, checked \in BOOLEAN :
         /\ pc = "driving" /\ sent[t].delta = "none"
         /\ LET f == fileTok[t]
                tmp == Tmp(f.dest, t, nextTmp + 1)
                fine == /\ t \in DOMAIN fileTok
                        /\ NoLink(f.dest)
                        /\ checked => /\ f.from = NoPath /\ Kind(f.dest) # "dir"
                                       /\ BaseOf(f) = sent[t].base
                        /\ tmp \notin temps /\ Kind(Parent(f.dest)) = "dir" IN
            \/ /\ ~fine
               /\ Refuse(IF sent[t].from = NoPath THEN "refused" ELSE "copyRefused") /\ Unwritten
            \/ /\ fine
               /\ temps' = temps \cup {tmp} /\ outside' = (outside \/ Through(f.dest))
               /\ pending' = Set(pending, t, [dest |-> f.dest, tmp |-> tmp, base |-> BaseOf(f),
                                               out |-> "empty", ended |-> FALSE])
               /\ nextTmp' = nextTmp + 1
               /\ sent' = [sent EXCEPT ![t].delta = "begun"]
               /\ UNCHANGED <<disk, dirTok, fileTok, execTok, closing, pc, view, issued,
                              unchecked, drive>>
  BY DEF ApplyTextDelta
<1> DEFINE f == fileTok[t]
           p == sent[t].path
           tmp == Tmp(f.dest, t, nextTmp + 1)
           d == [dest |-> f.dest, tmp |-> tmp, base |-> BaseOf(f), out |-> "empty", ended |-> FALSE]
           refusal == /\ Refuse(Refusal(t)) /\ Unwritten
                      /\ \/ ~NoLink(f.dest)
                         \/ checked /\ Kind(f.dest) = "dir"
                         \/ checked /\ f.from # NoPath
                         \/ checked /\ BaseOf(f) # sent[t].base
                         \/ tmp \in temps
                         \/ Kind(Parent(f.dest)) # "dir"
<1>2. Active /\ closing = Idle
  BY <1>1 DEF Active, IInv, PlaceInv
<1>3. /\ t \in DOMAIN sent /\ sent[t] \in FileEntries /\ t \in Nat
      /\ t \in DOMAIN fileTok /\ fileTok[t] \in FileTokens
      /\ p \in Paths /\ FileOK(t) /\ DOMAIN fileTok = SentFiles /\ DOMAIN pending \subseteq SentFiles
      /\ clean => CleanFile(t)
  BY <1>2, FileFacts
<1>4. /\ f.dest = p /\ f.from = sent[t].from /\ t \notin DOMAIN pending
      /\ t \in DOMAIN execTok <=> sent[t].told
      /\ t \in DOMAIN execTok => execTok[t] = sent[t].exec
  BY <1>1, <1>2, <1>3 DEF FileOK
<1>5. /\ NoLink(p) <=> disk[p].kind # "link"
      /\ Kind(p) = disk[p].kind /\ Kind(Parent(p)) = "dir" /\ disk[p] \in Nodes
      /\ ~Through(p) <=> disk[p].kind # "link"
      /\ clean => /\ Agree(disk[p], view[p])
                  /\ fileTok[t].added => disk[p].kind = "none" /\ disk[p].exec = "-"
                  /\ ~fileTok[t].added => disk[p].kind = "file"
                  /\ fileTok[t].added => view[p] = Nothing
  BY <1>1, PlaceOfFile
<1>6. BaseOf(f) \in Contents
  BY <1>4, <1>5 DEF BaseOf, Contents, Nodes
<1>7. ASSUME clean, sent[t].from = NoPath PROVE BaseOf(f) = sent[t].base
  <2>1. sent[t].base = view[p].content
    BY <1>3, <1>7 DEF CleanFile
  <2>2. CASE fileTok[t].added
    BY <2>1, <2>2, <1>4, <1>5, <1>7, NodeFacts DEF BaseOf
  <2>3. CASE ~fileTok[t].added
    BY <2>1, <2>3, <1>4, <1>5, <1>7 DEF BaseOf, Agree
  <2> QED
    BY <2>2, <2>3
<1>8. tmp \in TmpType /\ tmp.dest = p /\ tmp.token = t
  <2>1. nextTmp + 1 \in Nat
    BY DEF IInv, EditorInv
  <2> QED
    BY <2>1, <1>3, <1>4 DEF Tmp, TmpType
<1>9. Own = {pending[u].tmp : u \in DOMAIN pending} /\ Own \subseteq temps /\ temps \subseteq Own \cup start.temps
  BY <1>1, <1>2 DEF Own, IInv, TempsAccounted
<1>10. ASSUME clean PROVE tmp \notin temps
  <2>1. start.temps = {}
    BY <1>2, <1>10 DEF IInv, CleanInv
  <2>2. \A u \in DOMAIN pending : pending[u].tmp.token = u
    BY <1>2 DEF IInv, TokenInv, DeltaOK
  <2> QED
    BY <2>1, <2>2, <1>4, <1>8, <1>9
<1>11. CASE refusal
  <2>1. ASSUME clean, sent[t].from = NoPath PROVE FALSE
    BY <2>1, <1>4, <1>5, <1>7, <1>10, <1>11
  <2>2. Refusal(t) = "refused" => ~clean
    BY <2>1, RefusalFacts
  <2> QED
    BY <2>2, <1>11, RefusalFacts, Refuses
<1>12. CASE ~refusal
  <2>1. /\ NoLink(p)
        /\ temps' = temps \cup {tmp} /\ outside' = (outside \/ Through(p))
        /\ pending' = Set(pending, t, d)
        /\ nextTmp' = nextTmp + 1
        /\ sent' = [sent EXCEPT ![t].delta = "begun"]
        /\ disk' = disk /\ dirTok' = dirTok /\ fileTok' = fileTok /\ execTok' = execTok
        /\ closing' = closing /\ pc' = pc /\ view' = view /\ issued' = issued
        /\ unchecked' = unchecked /\ drives' = drives /\ start' = start /\ clean' = clean
    BY <1>1, <1>3, <1>4, <1>12, RefusalFacts DEF drive
  <2>2. d \in Deltas /\ d.dest = p /\ d.tmp = tmp /\ d.base = BaseOf(f) /\ ~d.ended /\ d.out = "empty"
    <3>1. "empty" \in Contents
      BY DEF Contents
    <3> QED
      BY <3>1, <1>3, <1>4, <1>6, <1>8 DEF Deltas
  <2> HIDE DEF d, tmp, refusal
  <2>3. /\ sent' \in [DOMAIN sent -> DirEntries \cup FileEntries] /\ sent'[t] \in FileEntries
        /\ sent'[t] = [sent[t] EXCEPT !.delta = "begun"]
        /\ \A u \in DOMAIN sent : u # t => sent'[u] = sent[u]
    <3>1. [sent[t] EXCEPT !.delta = "begun"] \in FileEntries
      BY <1>3, EntryFacts, EntryChanges
    <3> QED
      BY <3>1, <2>1, <1>3 DEF IInv, ServerInv
  <2>4. /\ sent'[t].path = p /\ sent'[t].from = sent[t].from /\ sent'[t].told = sent[t].told
        /\ sent'[t].exec = sent[t].exec /\ sent'[t].base = sent[t].base
        /\ sent'[t].content = sent[t].content /\ sent'[t].delta = "begun"
    BY <2>3, <1>3 DEF FileEntries
  <2>5. /\ DOMAIN pending' = DOMAIN pending \cup {t} /\ pending'[t] = d
        /\ \A u \in DOMAIN pending : u # t => pending'[u] = pending[u]
        /\ \A u : u # t => (u \in DOMAIN pending' <=> u \in DOMAIN pending)
    BY <2>1 DEF Set
  <2>6. FileOK(t)'
    BY <2>1, <2>4, <2>5, <1>4 DEF FileOK
  <2>7. DeltaOK(t)'
    BY <2>1, <2>2, <2>4, <2>5, <1>4, <1>8 DEF DeltaOK
  <2>8. clean => CleanFile(t)' /\ CleanDelta(t)'
    <3> SUFFICES ASSUME clean PROVE CleanFile(t)' /\ CleanDelta(t)'
      OBVIOUS
    <3>1. CleanFile(t)'
      BY <1>1, <1>3, <2>1, <2>4 DEF CleanFile
    <3>2. CleanDelta(t)'
      BY <1>7, <2>2, <2>4, <2>5 DEF CleanDelta
    <3> QED
      BY <3>1, <3>2
  <2>9. /\ ServerInv' /\ DriveInv' /\ PlaceInv' /\ TokenInv' /\ OpenInv' /\ ClosingInv'
        /\ VerifiedContent' /\ CleanInv'
    BY <1>1, <2>1, <2>3, <2>4, <2>5, <2>6, <2>7, <2>8, OneFile
  <2>10. DiskInv'
    BY <2>1, <1>5, <1>8 DEF IInv, DiskInv
  <2>11. EditorInv'
    <3>1. pending' \in [DOMAIN pending' -> Deltas]
      BY <2>1, <2>2, SetType DEF IInv, EditorInv
    <3> QED
      BY <3>1, <2>1, <2>5, <1>3 DEF IInv, EditorInv
  <2>12. TempsAccounted'
    <3>1. Own' = Own \cup {tmp}
      <4>1. Own' = {pending'[u].tmp : u \in DOMAIN pending'}
        BY <2>1, <1>2 DEF Own
      <4> QED
        BY <4>1, <1>4, <1>9, <2>2, <2>5
    <3> QED
      BY <3>1, <1>9, <2>1 DEF TempsAccounted
  <2> QED
    BY <2>9, <2>10, <2>11, <2>12 DEF IInv
<1> QED
  BY <1>11, <1>12

LEMMA TextDeltaChunkStep == ASSUME IInv, TextDeltaChunk PROVE IInv'
<1>1. PICK t \in SentFiles, v \in Versions, full \in BOOLEAN :
         /\ pc = "driving" /\ sent[t].delta = "begun"
         /\ LET applies == full \/ pending[t].base = sent[t].base IN
            \/ /\ t \notin DOMAIN pending \/ ~applies
               /\ Refuse(IF sent[t].from = NoPath THEN "refused" ELSE "copyRefused") /\ Unwritten
            \/ /\ t \in DOMAIN pending
               /\ pending' = [pending EXCEPT ![t].out = IF applies THEN v ELSE "junk"]
               /\ sent' = [sent EXCEPT ![t].delta = "sent", ![t].content = v]
               /\ UNCHANGED <<files, dirTok, fileTok, execTok, nextTmp, closing, pc, view,
                              issued, unchecked, drive>>
  BY DEF TextDeltaChunk
<1> DEFINE p == sent[t].path
           out == IF full \/ pending[t].base = sent[t].base THEN v ELSE "junk"
           refusal == /\ Refuse(Refusal(t)) /\ Unwritten
                      /\ pending[t].base # sent[t].base
<1>2. Active /\ closing = Idle
  BY <1>1 DEF Active, IInv, PlaceInv
<1>3. /\ t \in DOMAIN sent /\ sent[t] \in FileEntries
      /\ t \in DOMAIN fileTok /\ p \in Paths
      /\ FileOK(t) /\ DOMAIN fileTok = SentFiles /\ DOMAIN pending \subseteq SentFiles
      /\ t \in DOMAIN pending => DeltaOK(t) /\ pending[t] \in Deltas
      /\ clean => /\ CleanFile(t)
                  /\ t \in DOMAIN pending => CleanDelta(t)
  BY <1>2, FileFacts
<1>4. /\ fileTok[t].dest = p /\ fileTok[t].from = sent[t].from /\ t \in DOMAIN pending
      /\ t \in DOMAIN execTok <=> sent[t].told
      /\ t \in DOMAIN execTok => execTok[t] = sent[t].exec
  BY <1>1, <1>2, <1>3 DEF FileOK
<1>5. out \in Contents /\ v \in Contents
  BY DEF Contents
<1>6. CASE refusal
  <2>1. clean /\ sent[t].from = NoPath => pending[t].base = sent[t].base
    BY <1>3, <1>4 DEF CleanDelta
  <2> QED
    BY <2>1, <1>6, RefusalFacts, Refuses
<1>7. CASE ~refusal
  <2>1. /\ pending' = [pending EXCEPT ![t].out = out]
        /\ sent' = [sent EXCEPT ![t].delta = "sent", ![t].content = v]
        /\ disk' = disk /\ temps' = temps /\ outside' = outside
        /\ dirTok' = dirTok /\ fileTok' = fileTok /\ execTok' = execTok /\ nextTmp' = nextTmp
        /\ closing' = closing /\ pc' = pc /\ view' = view /\ issued' = issued
        /\ unchecked' = unchecked /\ drives' = drives /\ start' = start /\ clean' = clean
    BY <1>1, <1>4, <1>7, RefusalFacts DEF files, drive
  <2>2. clean /\ sent[t].from = NoPath => out = v
    BY <1>3, <1>4 DEF CleanDelta
  <2> HIDE DEF out, refusal
  <2>3. /\ sent' \in [DOMAIN sent -> DirEntries \cup FileEntries] /\ sent'[t] \in FileEntries
        /\ sent'[t] = [sent[t] EXCEPT !.delta = "sent", !.content = v]
        /\ \A u \in DOMAIN sent : u # t => sent'[u] = sent[u]
    <3>1. [sent[t] EXCEPT !.delta = "sent", !.content = v] \in FileEntries
      BY <1>3, <1>5, EntryFacts, EntryChanges
    <3> QED
      BY <3>1, <2>1, <1>3 DEF IInv, ServerInv
  <2>4. /\ sent'[t].path = p /\ sent'[t].from = sent[t].from /\ sent'[t].told = sent[t].told
        /\ sent'[t].exec = sent[t].exec /\ sent'[t].base = sent[t].base
        /\ sent'[t].content = v /\ sent'[t].delta = "sent"
    BY <2>3, <1>3 DEF FileEntries
  <2>5. /\ DOMAIN pending' = DOMAIN pending
        /\ pending' \in [DOMAIN pending' -> Deltas]
        /\ \A u \in DOMAIN pending : u # t => pending'[u] = pending[u]
        /\ pending'[t].dest = pending[t].dest /\ pending'[t].tmp = pending[t].tmp
        /\ pending'[t].base = pending[t].base /\ pending'[t].ended = pending[t].ended
        /\ pending'[t].out = out
    <3>1. pending \in [DOMAIN pending -> Deltas]
      BY DEF IInv, EditorInv
    <3>2. pending[t] \in Deltas
      BY <1>3, <1>4
    <3> QED
      BY <3>1, <3>2, <2>1, <1>4, <1>5 DEF Deltas
  <2>6. FileOK(t)'
    BY <2>1, <2>4, <2>5, <1>4 DEF FileOK
  <2>7. DeltaOK(t)'
    <3>1. DeltaOK(t) /\ ~pending[t].ended
      BY <1>1, <1>3, <1>4 DEF DeltaOK
    <3> QED
      BY <3>1, <2>4, <2>5 DEF DeltaOK
  <2>8. clean => CleanFile(t)' /\ CleanDelta(t)'
    <3> SUFFICES ASSUME clean PROVE CleanFile(t)' /\ CleanDelta(t)'
      OBVIOUS
    <3>1. CleanFile(t)'
      BY <1>3, <2>1, <2>4 DEF CleanFile
    <3>2. CleanDelta(t)'
      BY <1>3, <1>4, <2>2, <2>4, <2>5 DEF CleanDelta
    <3> QED
      BY <3>1, <3>2
  <2>9. /\ ServerInv' /\ DriveInv' /\ PlaceInv' /\ TokenInv' /\ OpenInv' /\ ClosingInv'
        /\ VerifiedContent' /\ CleanInv'
    BY <1>1, <2>1, <2>3, <2>4, <2>5, <2>6, <2>7, <2>8, OneFile
  <2>10. DiskInv' /\ EditorInv'
    BY <2>1, <2>5 DEF IInv, DiskInv, EditorInv
  <2>11. TempsAccounted'
    <3>1. \A u \in DOMAIN pending : pending'[u].tmp = pending[u].tmp
      BY <2>5
    <3>2. Own' = Own
      BY <3>1, <2>1, <2>5, <1>2 DEF Own
    <3> QED
      BY <3>2, <2>1 DEF IInv, TempsAccounted
  <2> QED
    BY <2>9, <2>10, <2>11 DEF IInv
<1> QED
  BY <1>6, <1>7

LEMMA TextDeltaEndStep == ASSUME IInv, TextDeltaEnd PROVE IInv'
<1>1. PICK t \in SentFiles :
         /\ pc = "driving" /\ sent[t].delta \in {"begun", "sent"}
         /\ pending' = [pending EXCEPT ![t].ended = TRUE,
                         ![t].out = IF sent[t].delta = "begun" THEN pending[t].base ELSE @]
         /\ sent' = [sent EXCEPT ![t].delta = "ended"]
         /\ UNCHANGED <<files, dirTok, fileTok, execTok, nextTmp, closing, pc, view, issued,
                        unchecked, drive>>
  BY DEF TextDeltaEnd
<1> DEFINE p == sent[t].path
           out == IF sent[t].delta = "begun" THEN pending[t].base ELSE pending[t].out
<1>2. Active /\ closing = Idle
  BY <1>1 DEF Active, IInv, PlaceInv
<1>3. /\ t \in DOMAIN sent /\ sent[t] \in FileEntries
      /\ t \in DOMAIN fileTok /\ p \in Paths
      /\ FileOK(t) /\ DOMAIN fileTok = SentFiles /\ DOMAIN pending \subseteq SentFiles
      /\ t \in DOMAIN pending => DeltaOK(t) /\ pending[t] \in Deltas
      /\ clean => /\ CleanFile(t)
                  /\ t \in DOMAIN pending => CleanDelta(t)
  BY <1>2, FileFacts
<1>4. /\ fileTok[t].dest = p /\ fileTok[t].from = sent[t].from /\ t \in DOMAIN pending
      /\ t \in DOMAIN execTok <=> sent[t].told
      /\ t \in DOMAIN execTok => execTok[t] = sent[t].exec
  BY <1>1, <1>2, <1>3 DEF FileOK
<1>5. pending[t] \in Deltas /\ DeltaOK(t) /\ out \in Contents
  BY <1>3, <1>4 DEF Deltas
<1>6. /\ disk' = disk /\ temps' = temps /\ outside' = outside
      /\ dirTok' = dirTok /\ fileTok' = fileTok /\ execTok' = execTok /\ nextTmp' = nextTmp
      /\ closing' = closing /\ pc' = pc /\ view' = view /\ issued' = issued
      /\ unchecked' = unchecked /\ drives' = drives /\ start' = start /\ clean' = clean
  BY <1>1 DEF files, drive
<1>7. /\ sent' \in [DOMAIN sent -> DirEntries \cup FileEntries] /\ sent'[t] \in FileEntries
      /\ sent'[t] = [sent[t] EXCEPT !.delta = "ended"]
      /\ \A u \in DOMAIN sent : u # t => sent'[u] = sent[u]
  <2>1. [sent[t] EXCEPT !.delta = "ended"] \in FileEntries
    BY <1>3, EntryFacts, EntryChanges
  <2> QED
    BY <2>1, <1>1, <1>3 DEF IInv, ServerInv
<1>8. /\ sent'[t].path = p /\ sent'[t].from = sent[t].from /\ sent'[t].told = sent[t].told
      /\ sent'[t].exec = sent[t].exec /\ sent'[t].base = sent[t].base
      /\ sent'[t].content = sent[t].content /\ sent'[t].delta = "ended"
  BY <1>3, <1>7 DEF FileEntries
<1>9. /\ DOMAIN pending' = DOMAIN pending
      /\ pending' \in [DOMAIN pending' -> Deltas]
      /\ \A u \in DOMAIN pending : u # t => pending'[u] = pending[u]
      /\ pending'[t].dest = pending[t].dest /\ pending'[t].tmp = pending[t].tmp
      /\ pending'[t].base = pending[t].base /\ pending'[t].ended
      /\ pending'[t].out = out
  <2>1. pending \in [DOMAIN pending -> Deltas]
    BY DEF IInv, EditorInv
  <2>2. /\ DOMAIN pending' = DOMAIN pending
        /\ \A u \in DOMAIN pending : u # t => pending'[u] = pending[u]
        /\ pending'[t] = [pending[t] EXCEPT !.ended = TRUE, !.out = out]
    BY <2>1, <1>1, <1>4
  <2>3. /\ [pending[t] EXCEPT !.ended = TRUE, !.out = out] \in Deltas
        /\ [pending[t] EXCEPT !.ended = TRUE, !.out = out].dest = pending[t].dest
        /\ [pending[t] EXCEPT !.ended = TRUE, !.out = out].tmp = pending[t].tmp
        /\ [pending[t] EXCEPT !.ended = TRUE, !.out = out].base = pending[t].base
        /\ [pending[t] EXCEPT !.ended = TRUE, !.out = out].ended
        /\ [pending[t] EXCEPT !.ended = TRUE, !.out = out].out = out
    BY <1>5 DEF Deltas
  <2>4. pending' \in [DOMAIN pending' -> Deltas]
    BY <2>1, <2>2, <2>3, <1>1
  <2> QED
    BY <2>2, <2>3, <2>4
<1> HIDE DEF out
<1>10. FileOK(t)'
  BY <1>6, <1>8, <1>9, <1>4 DEF FileOK
<1>11. DeltaOK(t)'
  BY <1>5, <1>8, <1>9 DEF DeltaOK
<1>12. clean => CleanFile(t)' /\ CleanDelta(t)'
  <2> SUFFICES ASSUME clean PROVE CleanFile(t)' /\ CleanDelta(t)'
    OBVIOUS
  <2>1. CleanFile(t)'
    BY <1>6, <1>3, <1>8 DEF CleanFile
  <2>2. CleanDelta(t)'
    BY <1>1, <1>3, <1>4, <1>8, <1>9 DEF CleanDelta, CleanFile, out
  <2> QED
    BY <2>1, <2>2
<1>13. /\ ServerInv' /\ DriveInv' /\ PlaceInv' /\ TokenInv' /\ OpenInv' /\ ClosingInv'
       /\ VerifiedContent' /\ CleanInv'
  BY <1>6, <1>1, <1>7, <1>8, <1>9, <1>10, <1>11, <1>12, OneFile
<1>14. DiskInv' /\ EditorInv'
  BY <1>6, <1>9 DEF IInv, DiskInv, EditorInv
<1>15. TempsAccounted'
  <2>1. \A u \in DOMAIN pending : pending'[u].tmp = pending[u].tmp
    BY <1>9
  <2>2. Own' = Own
    BY <1>6, <2>1, <1>9, <1>2 DEF Own
  <2> QED
    BY <1>6, <2>2 DEF IInv, TempsAccounted
<1> QED
  BY <1>13, <1>14, <1>15 DEF IInv

LEMMA ChangeFilePropStep == ASSUME IInv, ChangeFileProp PROVE IInv'
<1>1. PICK t \in SentFiles, exec \in {"x", "-"} :
         /\ pc = "driving" /\ ~sent[t].told
         /\ \/ t \notin DOMAIN fileTok
            \/ /\ t \in DOMAIN fileTok
               /\ execTok' = Set(execTok, t, exec)
               /\ sent' = [sent EXCEPT ![t].told = TRUE, ![t].exec = exec]
               /\ UNCHANGED <<files, dirTok, fileTok, pending, nextTmp, closing, pc, view,
                              issued, unchecked, drive>>
  BY DEF ChangeFileProp
<1> DEFINE p == sent[t].path
<1>2. Active /\ closing = Idle
  BY <1>1 DEF Active, IInv, PlaceInv
<1>3. /\ t \in DOMAIN sent /\ sent[t] \in FileEntries
      /\ t \in DOMAIN fileTok /\ p \in Paths
      /\ FileOK(t) /\ DOMAIN fileTok = SentFiles /\ DOMAIN pending \subseteq SentFiles
      /\ t \in DOMAIN pending => DeltaOK(t)
      /\ clean => /\ CleanFile(t)
                  /\ t \in DOMAIN pending => CleanDelta(t)
  BY <1>2, FileFacts
<1>4. /\ execTok' = Set(execTok, t, exec)
      /\ sent' = [sent EXCEPT ![t].told = TRUE, ![t].exec = exec]
      /\ disk' = disk /\ temps' = temps /\ outside' = outside
      /\ dirTok' = dirTok /\ fileTok' = fileTok /\ pending' = pending /\ nextTmp' = nextTmp
      /\ closing' = closing /\ pc' = pc /\ view' = view /\ issued' = issued
      /\ unchecked' = unchecked /\ drives' = drives /\ start' = start /\ clean' = clean
  BY <1>1, <1>3 DEF files, drive
<1>5. /\ sent' \in [DOMAIN sent -> DirEntries \cup FileEntries] /\ sent'[t] \in FileEntries
      /\ sent'[t] = [sent[t] EXCEPT !.told = TRUE, !.exec = exec]
      /\ \A u \in DOMAIN sent : u # t => sent'[u] = sent[u]
  <2>1. [sent[t] EXCEPT !.told = TRUE, !.exec = exec] \in FileEntries
    BY <1>3, EntryFacts, EntryChanges DEF Execs
  <2> QED
    BY <2>1, <1>4, <1>3 DEF IInv, ServerInv
<1>6. /\ sent'[t].path = p /\ sent'[t].from = sent[t].from /\ sent'[t].told
      /\ sent'[t].exec = exec /\ sent'[t].base = sent[t].base
      /\ sent'[t].content = sent[t].content /\ sent'[t].delta = sent[t].delta
  BY <1>3, <1>5 DEF FileEntries
<1>7. /\ DOMAIN execTok' = DOMAIN execTok \cup {t} /\ execTok'[t] = exec
      /\ \A u \in DOMAIN execTok : u # t => execTok'[u] = execTok[u]
      /\ \A u : u # t => (u \in DOMAIN execTok' <=> u \in DOMAIN execTok)
  BY <1>4 DEF Set
<1>8. FileOK(t)'
  BY <1>3, <1>4, <1>6, <1>7 DEF FileOK
<1>9. t \in DOMAIN pending' => DeltaOK(t)'
  BY <1>3, <1>4, <1>6 DEF DeltaOK
<1>10. clean => CleanFile(t)' /\ (t \in DOMAIN pending' => CleanDelta(t)')
  BY <1>3, <1>4, <1>6 DEF CleanFile, CleanDelta
<1>11. /\ ServerInv' /\ DriveInv' /\ PlaceInv' /\ TokenInv' /\ OpenInv' /\ ClosingInv'
       /\ VerifiedContent' /\ CleanInv'
  BY <1>1, <1>4, <1>5, <1>6, <1>7, <1>8, <1>9, <1>10, OneFile
<1>12. DiskInv' /\ TempsAccounted'
  BY <1>1, <1>4, SameTrees
<1>13. EditorInv'
  <2>1. execTok' \in [DOMAIN execTok' -> {"x", "-"}]
    BY <1>4, SetType DEF IInv, EditorInv
  <2> QED
    BY <2>1, <1>3, <1>4, <1>7 DEF IInv, EditorInv
<1> QED
  BY <1>11, <1>12, <1>13 DEF IInv

-----------------------------------------------------------------------------
(* close-file.                                                             *)

\* A close-file takes its file and the text delta out of the hands of the
\* editor, and touches nothing on the disk but the place of the file.
LEMMA CloseBegins ==
    ASSUME IInv, NEW t \in SentFiles, pc = "driving", pc' = "closing",
           NEW p, p = sent[t].path, disk[p].kind # "dir",
           closing' \in Closings, closing'.token = t, closing'.dest = p,
           unchecked \subseteq unchecked', unchecked' \subseteq unchecked \cup {p},
           disk' \in [Paths -> Nodes], IsTree(disk'), outside' = outside,
           \A q \in Paths : q # p => \/ disk'[q] = disk[q]
                                     \/ disk'[q] \in {Dir, Nothing} /\ disk'[q].kind = disk[q].kind,
           pending' \in [DOMAIN pending' -> Deltas], DOMAIN pending' = DOMAIN pending \ {t},
           \A u \in DOMAIN pending' : pending'[u] = pending[u],
           dirTok' = dirTok, fileTok' = fileTok, execTok' = execTok, nextTmp' = nextTmp,
           temps' = temps, view' = view, sent' = sent, issued' = issued, drives' = drives,
           start' = start, clean' = clean,
           ClosingInv', TempsAccounted', clean => CleanClosing'
    PROVE  IInv'
<1>1. Active /\ Active' /\ closing = Idle /\ closing' # Idle
  BY ClosingFacts DEF Active, IInv, PlaceInv
<1>2. SentFiles' = SentFiles /\ SentDirs' = SentDirs
  BY DEF SentFiles, SentDirs
<1>3. /\ t \in DOMAIN sent /\ p \in Paths /\ Firm(Parent(p))
      /\ DOMAIN fileTok = SentFiles /\ DOMAIN pending \subseteq SentFiles
  BY <1>1, FileFacts
<1>4. DiskInv' /\ EditorInv'
  BY DEF IInv, DiskInv, EditorInv
<1>5. ServerInv' /\ DriveInv' /\ PlaceInv'
  <2>1. unchecked' \subseteq Paths
    BY <1>3 DEF IInv, ServerInv
  <2> QED
    BY <1>1, <2>1 DEF IInv, ServerInv, DriveInv, PlaceInv, Between, Places
<1>6. TokenInv'
  <2>1. ASSUME NEW u \in SentFiles PROVE FileOK(u)'
    <3>1. FileOK(u) /\ pc # "closing"
      BY <1>1 DEF IInv, TokenInv
    <3> QED
      BY <3>1 DEF FileOK
  <2>2. ASSUME NEW u \in DOMAIN pending' PROVE DeltaOK(u)'
    <3>1. DeltaOK(u)
      BY <1>1, <2>2 DEF IInv, TokenInv
    <3> QED
      BY <2>2, <3>1 DEF DeltaOK
  <2> QED
    BY <1>1, <1>2, <2>1, <2>2 DEF IInv, TokenInv
<1>7. \A q \in Paths : disk[q].kind = "dir" => disk'[q].kind = "dir"
  OBVIOUS
<1>8. ASSUME NEW d \in Homes, Firm(d) PROVE Firm(d)'
  <2>1. Prefixes(d) \subseteq Paths
    BY HomePrefixes
  <2> QED
    BY <1>7, <1>8, <2>1 DEF Firm
<1>9. OpenInv'
  <2>1. ASSUME NEW u \in SentDirs PROVE Firm(sent[u].path)'
    BY <1>1, <1>8, SentFacts DEF IInv, OpenInv
  <2>2. ASSUME NEW u \in SentFiles
        PROVE  Firm(Parent(sent[u].path))' /\ view'[sent'[u].path].kind # "dir"
    <3>1. sent[u].path \in Paths /\ Firm(Parent(sent[u].path)) /\ view[sent[u].path].kind # "dir"
      BY <1>1, FileFacts
    <3>2. Firm(Parent(sent[u].path))'
      BY <3>1, <1>8, ParentFacts DEF Homes
    <3> QED
      BY <3>1, <3>2
  <2> QED
    BY <1>1, <1>2, <2>1, <2>2 DEF IInv, OpenInv
<1>10. VerifiedContent'
  <2>1. ASSUME NEW q \in Paths, disk'[q].kind = "file", q # p
        PROVE  disk'[q].content \in {start.disk[q].content, view'[q].content} \/ q \in unchecked'
    <3>1. disk'[q] = disk[q]
      BY <2>1, NodeFacts
    <3> QED
      BY <3>1, <2>1, <1>1 DEF IInv, VerifiedContent
  <2> QED
    BY <2>1, <1>1 DEF VerifiedContent
<1>11. CleanInv'
  <2> SUFFICES ASSUME clean PROVE CleanInv'
    BY DEF CleanInv
  <2>1. ASSUME NEW q \in Paths, q # p PROVE Agree(disk'[q], view'[q])
    <3>1. Agree(disk[q], view[q])
      BY <1>1 DEF IInv, CleanInv
    <3>2. CASE disk'[q] = disk[q]
      BY <3>1, <3>2
    <3>3. CASE disk'[q] = Dir /\ disk[q].kind = "dir"
      <4>1. view[q] = Dir
        BY <3>1, <3>3 DEF Agree, IInv, ServerInv, IsPlain
      <4> QED
        BY <3>3, <4>1 DEF Agree
    <3>4. CASE disk'[q] = Nothing /\ disk[q].kind = "none"
      <4>1. view[q] = Nothing
        BY <3>1, <3>4 DEF Agree, IInv, ServerInv, IsPlain
      <4> QED
        BY <3>4, <4>1 DEF Agree
    <3> QED
      BY <2>1, <3>2, <3>3, <3>4, NodeFacts
  <2>2. ASSUME NEW u \in SentFiles PROVE CleanFile(u)'
    BY <1>1 DEF IInv, CleanInv, CleanFile
  <2>3. ASSUME NEW u \in DOMAIN pending' PROVE CleanDelta(u)'
    <3>1. CleanDelta(u)
      BY <1>1, <2>3 DEF IInv, CleanInv
    <3> QED
      BY <2>3, <3>1 DEF CleanDelta
  <2>4. start.temps = {}
    BY <1>1 DEF IInv, CleanInv
  <2> QED
    BY <1>1, <1>2, <2>1, <2>2, <2>3, <2>4 DEF CleanInv
<1> QED
  BY <1>4, <1>5, <1>6, <1>9, <1>10, <1>11 DEF IInv

\* The steps of a close-file that has been begun.
LEMMA CloseGoesOn ==
    ASSUME IInv, pc = "closing", pc' = "closing",
           closing' \in Closings, closing'.token = closing.token, closing'.dest = closing.dest,
           disk' \in [Paths -> Nodes], IsTree(disk'), outside' = outside,
           \A q \in Paths : q # closing.dest => disk'[q] = disk[q],
           disk[closing.dest].kind # "dir",
           temps' \subseteq temps, editor' = editor, server' = server, drive' = drive,
           ClosingInv', TempsAccounted', clean => CleanClosing'
    PROVE  IInv'
<1>1. Active /\ Active' /\ closing' # Idle
  BY ClosingFacts DEF Active
<1>2. /\ dirTok' = dirTok /\ fileTok' = fileTok /\ execTok' = execTok /\ nextTmp' = nextTmp
      /\ pending' = pending /\ view' = view /\ sent' = sent /\ issued' = issued
      /\ unchecked' = unchecked /\ drives' = drives /\ start' = start /\ clean' = clean
  BY DEF editor, server, drive
<1>3. SentFiles' = SentFiles /\ SentDirs' = SentDirs
  BY <1>2 DEF SentFiles, SentDirs
<1>4. closing.dest \in Paths
  BY ClosingFacts DEF IInv, PlaceInv
<1>5. DiskInv' /\ EditorInv' /\ ServerInv' /\ DriveInv' /\ PlaceInv'
  BY <1>1, <1>2 DEF IInv, DiskInv, EditorInv, ServerInv, DriveInv, PlaceInv, Between
<1>6. TokenInv'
  <2>1. ASSUME NEW u \in SentFiles PROVE FileOK(u)'
    BY <1>1, <1>2 DEF IInv, TokenInv, FileOK
  <2>2. ASSUME NEW u \in DOMAIN pending PROVE DeltaOK(u)'
    BY <1>1, <1>2 DEF IInv, TokenInv, DeltaOK
  <2> QED
    BY <1>1, <1>2, <1>3, <2>1, <2>2 DEF IInv, TokenInv
<1>7. ASSUME NEW d \in Homes, Firm(d) PROVE Firm(d)'
  <2>1. Prefixes(d) \subseteq Paths
    BY HomePrefixes
  <2> QED
    BY <1>2, <1>7, <2>1 DEF Firm
<1>8. OpenInv'
  <2>1. ASSUME NEW u \in SentDirs PROVE Firm(sent[u].path)'
    BY <1>1, <1>2, <1>7, SentFacts DEF IInv, OpenInv
  <2>2. ASSUME NEW u \in SentFiles
        PROVE  Firm(Parent(sent[u].path))' /\ view'[sent'[u].path].kind # "dir"
    <3>1. sent[u].path \in Paths /\ Firm(Parent(sent[u].path)) /\ view[sent[u].path].kind # "dir"
      BY <1>1, FileFacts
    <3>2. Firm(Parent(sent[u].path))'
      BY <3>1, <1>2, <1>7, ParentFacts DEF Homes
    <3> QED
      BY <3>1, <3>2, <1>2
  <2> QED
    BY <1>1, <1>2, <1>3, <2>1, <2>2 DEF IInv, OpenInv
<1>9. VerifiedContent'
  BY <1>1, <1>2 DEF IInv, VerifiedContent
<1>10. CleanInv'
  <2> SUFFICES ASSUME clean PROVE CleanInv'
    BY <1>2 DEF CleanInv
  <2>1. ASSUME NEW q \in Paths, q # closing.dest PROVE Agree(disk'[q], view'[q])
    BY <1>1, <1>2, <2>1 DEF IInv, CleanInv
  <2>2. ASSUME NEW u \in SentFiles PROVE CleanFile(u)'
    BY <1>1, <1>2 DEF IInv, CleanInv, CleanFile
  <2>3. ASSUME NEW u \in DOMAIN pending PROVE CleanDelta(u)'
    BY <1>1, <1>2 DEF IInv, CleanInv, CleanDelta
  <2>4. start.temps = {}
    BY <1>1 DEF IInv, CleanInv
  <2> QED
    BY <1>1, <1>2, <1>3, <2>1, <2>2, <2>3, <2>4 DEF CleanInv
<1> QED
  BY <1>5, <1>6, <1>8, <1>9, <1>10 DEF IInv

LEMMA NewClosing ==
    ASSUME NEW s \in Steps, NEW t \in Nat, NEW p \in Paths, NEW c \in Contents, NEW b \in BOOLEAN,
           NEW k, k = [step |-> s, token |-> t, dest |-> p, content |-> c, checked |-> b]
    PROVE  /\ k \in Closings /\ k.step = s /\ k.token = t /\ k.dest = p /\ k.content = c
           /\ k.checked <=> b
BY DEF Closings

LEMMA CloseDeltaStep == ASSUME IInv, CloseDelta PROVE IInv'
<1>1. PICK t \in DOMAIN pending, checked \in BOOLEAN :
       /\ Closes(t)
       /\ LET d == pending[t]
              sound == NoLink(d.dest) /\ d.ended /\ (fileTok[t].from # NoPath => checked) IN
          \/ /\ ~sound /\ pc' = Refusal(t) /\ Unwritten
             /\ pending' = IF fileTok[t].from # NoPath /\ ~checked THEN pending
                           ELSE Drop(pending, t)
             /\ UNCHANGED <<closing, unchecked>>
          \/ /\ sound /\ ~Verified(d.out, checked, sent[t].content)
             /\ pc' = Refusal(t) /\ temps' = temps \ {d.tmp}
             /\ pending' = Drop(pending, t)
             /\ UNCHANGED <<disk, outside, closing, unchecked>>
          \/ /\ sound /\ Verified(d.out, checked, sent[t].content) /\ ~FileOrNone(d.dest)
             /\ pc' = Refusal(t) /\ Unwritten
             /\ pending' = Drop(pending, t)
             /\ UNCHANGED <<closing, unchecked>>
          \/ /\ sound /\ Verified(d.out, checked, sent[t].content) /\ FileOrNone(d.dest)
             /\ disk' = Removed(disk, d.dest)
             /\ pending' = Drop(pending, t)
             /\ Carry(t, checked, [do |-> "rename", tmp |-> d.tmp], d.out)
             /\ UNCHANGED <<temps, outside>>
       /\ UNCHANGED <<dirTok, fileTok, execTok, nextTmp, view, sent, issued, drive>>
  BY DEF CloseDelta
<1> DEFINE d == pending[t]
           p == sent[t].path
           refused == /\ pc' = Refusal(t) /\ temps' \subseteq temps /\ disk' = disk
                      /\ outside' = outside /\ pending' \in {pending, Drop(pending, t)}
                      /\ closing' = closing /\ unchecked' = unchecked
                      /\ \/ ~NoLink(p)
                         \/ fileTok[t].from # NoPath
                         \/ ~Verified(d.out, checked, sent[t].content)
                         \/ ~FileOrNone(p)
<1>2. t \in SentFiles /\ pc = "driving" /\ sent[t].delta \in {"none", "ended"}
  BY <1>1 DEF Closes
<1>3. Active /\ closing = Idle
  BY <1>2 DEF Active, IInv, PlaceInv
<1>4. /\ t \in DOMAIN sent /\ sent[t] \in FileEntries /\ t \in Nat
      /\ p \in Paths /\ view[p].kind # "dir" /\ FileOK(t)
      /\ DOMAIN pending \subseteq SentFiles
      /\ DeltaOK(t) /\ pending[t] \in Deltas
      /\ clean => CleanFile(t) /\ CleanDelta(t)
  BY <1>2, <1>3, FileFacts
<1>5. /\ fileTok[t].dest = p /\ fileTok[t].from = sent[t].from /\ sent[t].delta = "ended"
      /\ d.ended /\ d.dest = p /\ d.tmp.token = t /\ d.out \in Contents /\ d.tmp \in TmpType
  BY <1>2, <1>4 DEF FileOK, DeltaOK, Deltas
<1>6. /\ NoLink(p) <=> disk[p].kind # "link"
      /\ FileOrNone(p) <=> disk[p].kind \in {"file", "none"}
      /\ clean => /\ fileTok[t].added => disk[p].kind = "none"
                  /\ ~fileTok[t].added => disk[p].kind = "file"
  BY <1>2, PlaceOfFile
<1>7. /\ dirTok' = dirTok /\ fileTok' = fileTok /\ execTok' = execTok /\ nextTmp' = nextTmp
      /\ view' = view /\ sent' = sent /\ issued' = issued /\ drive' = drive
  BY <1>1
<1>8. pending \in [DOMAIN pending -> Deltas]
  BY DEF IInv, EditorInv
<1>9. CASE refused
  <2>1. clean /\ sent[t].from = NoPath => FALSE
    <3> SUFFICES ASSUME clean, sent[t].from = NoPath PROVE FALSE
      OBVIOUS
    <3>1. NoLink(p) /\ FileOrNone(p)
      BY <1>6
    <3>2. d.out = sent[t].content
      BY <1>4, <1>5 DEF CleanDelta
    <3> QED
      BY <3>1, <3>2, <1>5, <1>9 DEF Verified
  <2>2. Refusal(t) = "refused" => ~clean
    BY <2>1, RefusalFacts
  <2>3. pending' \in [DOMAIN pending' -> Deltas] /\ DOMAIN pending' \subseteq DOMAIN pending
    <3>1. CASE pending' = pending
      BY <3>1, <1>8
    <3>2. CASE pending' = Drop(pending, t)
      <4>1. Drop(pending, t) \in [DOMAIN Drop(pending, t) -> Deltas]
        BY <1>8, DropType
      <4>2. DOMAIN Drop(pending, t) \subseteq DOMAIN pending
        BY DropFacts
      <4> QED
        BY <3>2, <4>1, <4>2
    <3> QED
      BY <3>1, <3>2, <1>9
  <2>4. server' = server
    BY <1>7, <1>9 DEF server
  <2> QED
    BY <1>7, <1>9, <2>2, <2>3, <2>4, RefusalFacts, Fails
<1>10. CASE ~refused
  <2>0. PICK step, tmp, place, text :
           /\ step = [do |-> "rename", tmp |-> d.tmp] /\ tmp = d.tmp
           /\ place = p /\ text = d.out
    OBVIOUS
  <2>1. /\ Verified(d.out, checked, sent[t].content) /\ FileOrNone(p)
        /\ sent[t].from # NoPath => checked
        /\ disk' = Removed(disk, p) /\ pending' = Drop(pending, t)
        /\ Carry(t, checked, step, d.out) /\ temps' = temps /\ outside' = outside
    BY <1>1, <1>5, <1>10, <2>0 DEF Unwritten, files
  <2>2. /\ pc' = "closing"
        /\ closing' = [step |-> step, token |-> t, dest |-> p, content |-> d.out,
                       checked |-> checked]
        /\ unchecked' = IF checked THEN unchecked ELSE unchecked \cup {p}
    BY <2>1, <1>5 DEF Carry
  <2>3. step \in Steps /\ step.do = "rename" /\ step.tmp = tmp
    BY <2>0, <1>5 DEF Steps, Renames
  <2> HIDE DEF refused
  <2>4. /\ closing' \in Closings /\ closing'.step = step /\ closing'.token = t
        /\ closing'.dest = place /\ closing'.content = text
        /\ closing'.checked <=> checked
    BY <2>0, <2>2, <2>3, <1>4, <1>5, NewClosing
  <2>5. /\ disk' \in [Paths -> Nodes] /\ IsTree(disk') /\ disk'[p] = Nothing
        /\ disk[p].kind # "dir"
        /\ \A q \in Paths : q # p => \/ disk'[q] = disk[q]
                                     \/ disk'[q] \in {Dir, Nothing} /\ disk'[q].kind = disk[q].kind
    <3>1. disk \in [Paths -> Nodes] /\ IsTree(disk)
      BY DEF IInv, DiskInv
    <3>2. /\ disk' \in [Paths -> Nodes] /\ IsTree(disk')
          /\ \A q \in Paths : p \in Prefixes(q) => disk'[q] = Nothing
          /\ \A q \in Paths : p \notin Prefixes(q) => disk'[q] = disk[q]
      BY <3>1, <2>1, <1>4, RemovedTree
    <3>3. disk[p].kind # "dir"
      BY <2>1, <1>6
    <3>4. \A q \in Paths : q # p /\ p \in Prefixes(q) => disk[q].kind = "none"
      BY <3>1, <3>3 DEF IsTree
    <3> QED
      BY <3>2, <3>3, <3>4, <1>4, NodeFacts, PrefixFacts
  <2>6. /\ DOMAIN pending' = DOMAIN pending \ {t}
        /\ \A u \in DOMAIN pending' : pending'[u] = pending[u]
        /\ pending' \in [DOMAIN pending' -> Deltas]
    BY <2>1, <1>8 DEF Drop
  <2>7. /\ drives' = drives /\ start' = start /\ clean' = clean
    BY <1>7 DEF drive
  <2>8. SentFiles' = SentFiles
    BY <1>7 DEF SentFiles
  <2>9. ClosingInv'
    <3>1. /\ closing'.step.do = "rename" /\ closing'.step.tmp.token = closing'.token
          /\ closing'.token = t /\ closing'.dest = p
      BY <2>0, <2>3, <2>4, <1>5
    <3>2. disk'[closing'.dest] = Nothing /\ sent'[closing'.token].delta = "ended"
      BY <3>1, <2>5, <1>5, <1>7
    <3>3. StepOK(closing.step, disk[closing.dest], sent[closing.token])'
      BY <3>1, <3>2 DEF StepOK
    <3>4. ~closing'.checked => closing'.dest \in unchecked'
      BY <3>1, <2>2, <2>4
    <3>5. closing'.checked => closing'.content = sent'[closing'.token].content
      BY <3>1, <2>0, <2>1, <2>4, <1>7 DEF Verified
    <3>6. /\ closing'.dest = sent'[closing'.token].path
          /\ closing'.token \in SentFiles' \ DOMAIN pending'
      BY <3>1, <2>6, <2>8, <1>2, <1>7
    <3> QED
      BY <3>1, <3>3, <3>4, <3>5, <3>6 DEF ClosingInv
  <2>10. TempsAccounted'
    <3>1. closing' # Idle
      BY <2>4, ClosingFacts
    <3>2. Own' = {pending'[u].tmp : u \in DOMAIN pending'} \cup {tmp}
      BY <2>3, <2>4, <3>1 DEF Own
    <3>3. Own = {pending[u].tmp : u \in DOMAIN pending}
      BY <1>3 DEF Own
    <3>4. Own' = Own
      BY <2>0, <3>2, <3>3, <2>6
    <3>5. Own \subseteq temps /\ temps \subseteq Own \cup start.temps
      BY <1>2 DEF IInv, TempsAccounted
    <3> QED
      BY <3>4, <3>5, <2>1, <2>7 DEF TempsAccounted
  <2>11. clean => CleanClosing'
    <3>1. clean => text = sent'[t].content
      <4>1. CASE sent[t].from = NoPath
        BY <4>1, <2>0, <1>4, <1>5, <1>7 DEF CleanDelta
      <4>2. CASE sent[t].from # NoPath
        BY <4>2, <2>0, <2>1, <1>7 DEF Verified
      <4> QED
        BY <4>1, <4>2
    <3>2. closing'.step.do = "rename" /\ closing'.token = t /\ closing'.content = text
      BY <2>3, <2>4
    <3> QED
      BY <3>1, <3>2 DEF CleanClosing
  <2>12. unchecked \subseteq unchecked' /\ unchecked' \subseteq unchecked \cup {p}
    BY <2>2
  <2> QED
    BY <1>2, <1>7, <2>0, <2>1, <2>2, <2>4, <2>5, <2>6, <2>7, <2>9, <2>10, <2>11, <2>12, CloseBegins
<1> QED
  BY <1>9, <1>10

\* The temporary file takes its place.
LEMMA RenameStep == ASSUME IInv, Rename PROVE IInv'
<1> DEFINE p == closing.dest
           t == closing.token
           node == Node("file", closing.content, "-")
<1>1. /\ pc = "closing" /\ closing.step.do = "rename" /\ pc' = "closing"
      /\ disk' = [disk EXCEPT ![p] = node]
      /\ outside' = (outside \/ Through(Parent(p)))
      /\ temps' = temps \ {closing.step.tmp}
      /\ closing' = [closing EXCEPT !.step = [do |-> "exec"]]
      /\ editor' = editor /\ server' = server /\ drive' = drive
  BY DEF Rename
<1>2. Active /\ closing \in Closings /\ closing # Idle
  BY <1>1 DEF Active, IInv, PlaceInv
<1>3. /\ t \in SentFiles \ DOMAIN pending /\ p = sent[t].path
      /\ StepOK(closing.step, disk[p], sent[t])
      /\ closing.step.tmp.token = t
      /\ ~closing.checked => p \in unchecked
      /\ closing.checked => closing.content = sent[t].content
  BY <1>1 DEF IInv, ClosingInv
<1>4. disk[p] = Nothing /\ sent[t].delta = "ended"
  BY <1>1, <1>3 DEF StepOK
<1>5. /\ p \in Paths /\ Firm(Parent(p)) /\ sent[t] \in FileEntries
  BY <1>2, <1>3, FileFacts
<1>6. /\ Parent(p) \in Homes
      /\ \A q \in Prefixes(p) \ {p} : disk[q].kind = "dir"
  BY <1>5, BelowFirm
<1>7. ~Through(Parent(p)) /\ outside' = outside
  <2>1. outside = FALSE
    BY DEF IInv, DiskInv
  <2> QED
    BY <2>1, <1>1, <1>5, <1>6, FirmFacts
<1>8. [do |-> "exec"] \in Steps /\ [do |-> "exec"].do = "exec"
  BY DEF Steps
<1>9. /\ closing' \in Closings /\ closing'.token = t /\ closing'.dest = p
      /\ closing'.step.do = "exec" /\ closing'.content = closing.content
      /\ closing'.checked = closing.checked
  BY <1>1, <1>2, <1>8 DEF Closings
<1>10. /\ node \in Nodes /\ node.kind = "file" /\ node.content = closing.content /\ node.exec = "-"
  BY <1>2, ClosingFacts, NodeFacts
<1> HIDE DEF node
<1>11. disk' \in [Paths -> Nodes] /\ IsTree(disk') /\ disk[p].kind # "dir"
       /\ disk'[p] = node /\ \A q \in Paths : q # p => disk'[q] = disk[q]
  <2>1. disk \in [Paths -> Nodes] /\ IsTree(disk)
    BY DEF IInv, DiskInv
  <2>2. disk[p].kind # "dir" /\ node.kind # "dir"
    BY <1>4, <1>10, NodeFacts
  <2>3. disk' \in [Paths -> Nodes] /\ IsTree(disk')
    BY <2>1, <2>2, <1>1, <1>5, <1>6, <1>10, PlacedTree
  <2> QED
    BY <2>1, <2>2, <2>3, <1>1, <1>5
<1>12. /\ pending' = pending /\ sent' = sent /\ unchecked' = unchecked /\ start' = start
       /\ clean' = clean /\ SentFiles' = SentFiles
  BY <1>1 DEF editor, server, drive, SentFiles
<1>13. ClosingInv'
  <2>1. StepOK(closing.step, disk[closing.dest], sent[closing.token])'
    BY <1>9, <1>10, <1>11, <1>12 DEF StepOK
  <2> QED
    BY <2>1, <1>3, <1>9, <1>12 DEF ClosingInv
<1>14. TempsAccounted'
  <2>1. Own = {pending[u].tmp : u \in DOMAIN pending} \cup {closing.step.tmp}
    BY <1>1, <1>2 DEF Own
  <2>2. Own' = {pending[u].tmp : u \in DOMAIN pending}
    BY <1>9, <1>12 DEF Own
  <2>3. \A u \in DOMAIN pending : pending[u].tmp # closing.step.tmp
    BY <1>2, <1>3 DEF IInv, TokenInv, DeltaOK
  <2>4. Own \subseteq temps /\ temps \subseteq Own \cup start.temps
    BY <1>1 DEF IInv, TempsAccounted
  <2>5. Own' \subseteq temps' /\ temps' \subseteq Own' \cup start.temps
    BY <2>1, <2>2, <2>3, <2>4, <1>1
  <2> QED
    BY <2>5, <1>12 DEF TempsAccounted
<1>15. clean => CleanClosing'
  <2> SUFFICES ASSUME clean PROVE CleanClosing'
    OBVIOUS
  <2>1. CleanClosing
    BY <1>1 DEF IInv, CleanInv
  <2>2. sent[t].told \/ SaidExec(sent[t]) \in {"any", "-"}
    BY <1>4, <1>5, EntryFacts DEF SaidExec, Execs
  <2> QED
    BY <2>1, <2>2, <1>9, <1>10, <1>11, <1>12 DEF CleanClosing
<1> QED
  BY <1>1, <1>7, <1>9, <1>11, <1>13, <1>14, <1>15, CloseGoesOn


\* A file is written at its place, in directories that are there.
Placed(p, node) == [WithDirs(disk, Parent(p)) EXCEPT ![p] = node]
LEMMA Written ==
    ASSUME IInv, pc = "driving", NEW t \in SentFiles, NEW p, p = sent[t].path, FileOrNone(p),
           NEW node \in Nodes, node.kind = "file"
    PROVE  /\ Placed(p, node) \in [Paths -> Nodes] /\ IsTree(Placed(p, node))
           /\ Placed(p, node)[p] = node
           /\ disk[p].kind # "dir" /\ ~Through(p) /\ WithDirs(disk, Parent(p))[p] = disk[p]
           /\ \A q \in Paths : q # p => \/ Placed(p, node)[q] = disk[q]
                                        \/ Placed(p, node)[q] = Dir /\ disk[q].kind = "dir"
<1>1. Active /\ p \in Paths /\ Firm(Parent(p))
  BY FileFacts DEF Active
<1>2. disk \in [Paths -> Nodes] /\ IsTree(disk)
  BY DEF IInv, DiskInv
<1>3. /\ disk[p].kind \in {"file", "none"} /\ ~Through(p)
      /\ \A q \in Prefixes(p) \ {p} : disk[q].kind = "dir"
  BY PlaceOfFile
<1>4. Parent(p) = Root \/ Parent(p) \in Paths
  BY <1>1, ParentFacts
<1>5. Prefixes(Parent(p)) = Prefixes(p) \ {p}
  BY <1>1, ParentFacts
<1> DEFINE made == WithDirs(disk, Parent(p))
           tree == Placed(p, node)
<1>6. /\ made \in [Paths -> Nodes] /\ IsTree(made)
      /\ \A q \in Prefixes(p) \ {p} : q \in Paths /\ made[q] = Dir
      /\ \A q \in Paths \ (Prefixes(p) \ {p}) : made[q] = disk[q]
  BY <1>2, <1>3, <1>4, <1>5, WithDirsTree
<1>7. tree = [made EXCEPT ![p] = node]
  BY DEF Placed
<1> HIDE DEF made, tree
<1>8. made[p] = disk[p]
  BY <1>1, <1>6
<1>9. tree \in [Paths -> Nodes] /\ IsTree(tree)
  <2>1. made[p].kind # "dir" /\ node.kind # "dir"
    BY <1>3, <1>8
  <2>2. \A q \in Prefixes(p) \ {p} : made[q].kind = "dir"
    BY <1>6, NodeFacts
  <2>3. [made EXCEPT ![p] = node] \in [Paths -> Nodes] /\ IsTree([made EXCEPT ![p] = node])
    BY <1>1, <1>6, <2>1, <2>2, PlacedTree
  <2> QED
    BY <2>3, <1>7
<1>10. tree[p] = node /\ \A q \in Paths : q # p => tree[q] = made[q]
  BY <1>1, <1>6, <1>7
<1>11. \A q \in Paths : q # p => tree[q] = disk[q] \/ (tree[q] = Dir /\ disk[q].kind = "dir")
  BY <1>3, <1>6, <1>10
<1> QED
  BY <1>3, <1>8, <1>9, <1>10, <1>11 DEF made, tree

\* A close-file of a file that has no text delta.
LEMMA ClosesPlain ==
    ASSUME IInv, pc = "driving", NEW t \in SentFiles, t \notin DOMAIN pending, pc' = "closing",
           NEW p, p = sent[t].path, NEW checked \in BOOLEAN, NEW text \in Contents,
           NEW way \in {"copy", "verify"},
           closing' = [step |-> [do |-> way], token |-> t, dest |-> p, content |-> text,
                       checked |-> checked],
           unchecked' = IF checked THEN unchecked ELSE unchecked \cup {p},
           disk' \in [Paths -> Nodes], IsTree(disk'), disk[p].kind # "dir",
           outside' = outside, temps' = temps, editor' = editor, drive' = drive,
           view' = view, sent' = sent, issued' = issued,
           \A q \in Paths : q # p => disk'[q] = disk[q] \/ (disk'[q] = Dir /\ disk[q].kind = "dir"),
           disk'[p].kind = "file",
           way = "copy" => sent[t].from # NoPath /\ (checked => text = sent[t].content),
           way = "verify" => sent[t].from = NoPath /\ disk'[p].content = text,
           clean => /\ text = sent[t].content
                    /\ way = "verify" => \/ sent[t].told
                                         \/ SaidExec(sent[t]) \in {"any", disk'[p].exec}
    PROVE  IInv'
<1>1. Active /\ closing = Idle
  BY DEF Active, IInv, PlaceInv
<1>2. t \in DOMAIN sent /\ t \in Nat /\ p \in Paths
  BY <1>1, FileFacts
<1>3. /\ dirTok' = dirTok /\ fileTok' = fileTok /\ execTok' = execTok /\ nextTmp' = nextTmp
      /\ pending' = pending /\ drives' = drives /\ start' = start /\ clean' = clean
  BY DEF editor, drive
<1>4. PICK step : step = [do |-> way] /\ step \in Steps /\ step.do = way
  BY DEF Steps
<1>5. /\ closing' \in Closings /\ closing'.step = step /\ closing'.token = t
      /\ closing'.dest = p /\ closing'.content = text
      /\ closing'.checked <=> checked
  BY <1>2, <1>4, NewClosing
<1>6. closing' # Idle /\ step.do # "rename" /\ step.do # "exec"
  BY <1>4, <1>5, ClosingFacts
<1>7. SentFiles' = SentFiles
  BY DEF SentFiles
<1>8. PICK place : place = p
  OBVIOUS
<1>9. ClosingInv'
  <2>1. StepOK(closing.step, disk[closing.dest], sent[closing.token])'
    BY <1>4, <1>5, <1>6 DEF StepOK
  <2>2. closing'.token \in SentFiles' \ DOMAIN pending' /\ closing'.dest = sent'[closing'.token].path
    BY <1>3, <1>5, <1>7
  <2>3. ~closing'.checked => closing'.dest \in unchecked'
    BY <1>5
  <2>4. closing'.checked /\ closing'.step.do # "verify" => closing'.content = sent'[closing'.token].content
    BY <1>4, <1>5
  <2> QED
    BY <2>1, <2>2, <2>3, <2>4, <1>5, <1>6 DEF ClosingInv
<1>10. TempsAccounted'
  <2>1. Own' = Own
    BY <1>1, <1>3, <1>5, <1>6 DEF Own
  <2> QED
    BY <2>1, <1>3 DEF IInv, TempsAccounted
<1>11. clean => CleanClosing'
  <2>1. closing'.step.do = way
    BY <1>4, <1>5
  <2> QED
    BY <2>1, <1>5 DEF CleanClosing, SaidExec
<1>12. unchecked \subseteq unchecked' /\ unchecked' \subseteq unchecked \cup {p}
  OBVIOUS
<1>13. \A q \in Paths : q # p => \/ disk'[q] = disk[q]
                                 \/ disk'[q] \in {Dir, Nothing} /\ disk'[q].kind = disk[q].kind
  BY NodeFacts
<1>14. /\ DOMAIN pending' = DOMAIN pending \ {t}
       /\ \A u \in DOMAIN pending' : pending'[u] = pending[u]
       /\ pending' \in [DOMAIN pending' -> Deltas]
  BY <1>3 DEF IInv, EditorInv
<1>15. /\ IInv /\ t \in SentFiles /\ pc = "driving" /\ pc' = "closing" /\ p = sent[t].path
       /\ disk[p].kind # "dir" /\ disk' \in [Paths -> Nodes] /\ IsTree(disk')
       /\ outside' = outside /\ temps' = temps /\ view' = view /\ sent' = sent
       /\ issued' = issued
  OBVIOUS
<1> QED
  BY ONLY <1>3, <1>5, <1>9, <1>10, <1>11, <1>12, <1>13, <1>14, <1>15, CloseBegins


LEMMA CloseCopyStep == ASSUME IInv, CloseCopy PROVE IInv'
<1>1. PICK t \in SentFiles, checked \in BOOLEAN :
       /\ Closes(t) /\ t \in DOMAIN fileTok \ DOMAIN pending /\ fileTok[t].from # NoPath
       /\ LET f == fileTok[t]
              fine == /\ checked /\ NoLink(f.from) /\ Kind(f.from) = "file"
                      /\ Verified(disk[f.from].content, checked, sent[t].content)
                      /\ CanMake(Parent(f.dest)) /\ FileOrNone(f.dest) IN
          \/ ~fine /\ Refuse(Refusal(t)) /\ Unwritten
          \/ /\ fine
             /\ disk' = [WithDirs(disk, Parent(f.dest)) EXCEPT ![f.dest] =
                           Node("file", "part", disk[f.from].exec)]
             /\ outside' = (outside \/ Through(f.dest))
             /\ Carry(t, checked, [do |-> "copy"], disk[f.from].content)
             /\ UNCHANGED <<temps, editor, view, sent, issued, drive>>
  BY DEF CloseCopy
<1> DEFINE p == sent[t].path
           from == fileTok[t].from
           node == Node("file", "part", disk[from].exec)
           text == disk[from].content
<1>2. pc = "driving" /\ t \notin DOMAIN pending /\ Active
  BY <1>1 DEF Closes, Active
<1>3. /\ fileTok[t].dest = p /\ fileTok[t] \in FileTokens /\ from = sent[t].from
      /\ sent[t].from # NoPath
  BY <1>1, <1>2, FileFacts DEF FileOK
<1>4. CASE Refuse(Refusal(t)) /\ Unwritten
  BY <1>3, <1>4, RefusalFacts, Refuses
<1>5. CASE ~(Refuse(Refusal(t)) /\ Unwritten)
  <2>1. /\ checked /\ text = sent[t].content /\ FileOrNone(p)
        /\ disk' = Placed(p, node)
        /\ outside' = (outside \/ Through(p))
        /\ Carry(t, checked, [do |-> "copy"], text)
        /\ temps' = temps /\ editor' = editor /\ drive' = drive
        /\ view' = view /\ sent' = sent /\ issued' = issued
    BY <1>1, <1>3, <1>5 DEF Verified, Placed
  <2>2. disk[from] \in Nodes
    <3>1. from \in Paths
      BY <1>1, <1>3 DEF FileTokens, Homes, NoPath
    <3> QED
      BY <3>1 DEF IInv, DiskInv
  <2>3. text \in Contents /\ node \in Nodes /\ node.kind = "file"
    <3>1. text \in Contents /\ disk[from].exec \in {"x", "-", "any"} /\ "part" \in Contents
      BY <2>2 DEF Nodes, Contents
    <3> QED
      BY <3>1, NodeFacts
  <2> HIDE DEF node
  <2>4. /\ disk' \in [Paths -> Nodes] /\ IsTree(disk') /\ disk'[p] = node
        /\ disk[p].kind # "dir" /\ ~Through(p)
        /\ \A q \in Paths : q # p => disk'[q] = disk[q] \/ (disk'[q] = Dir /\ disk[q].kind = "dir")
    BY <1>2, <2>1, <2>3, Written
  <2>5. outside' = outside
    BY <2>1, <2>4 DEF IInv, DiskInv
  <2>6. /\ pc' = "closing"
        /\ closing' = [step |-> [do |-> "copy"], token |-> t, dest |-> p, content |-> text,
                       checked |-> checked]
        /\ unchecked' = IF checked THEN unchecked ELSE unchecked \cup {p}
    BY <2>1, <1>3 DEF Carry
  <2> HIDE DEF text
  <2> QED
    BY <1>2, <1>3, <2>1, <2>3, <2>4, <2>5, <2>6, ClosesPlain, ZenonT(40)
<1> QED
  BY <1>4, <1>5

LEMMA CloseUnchangedStep == ASSUME IInv, CloseUnchanged PROVE IInv'
<1>1. PICK t \in SentFiles, checked \in BOOLEAN :
       /\ Closes(t) /\ t \in DOMAIN fileTok \ DOMAIN pending /\ fileTok[t].from = NoPath
       /\ LET f == fileTok[t]
              fine == IF f.added
                      THEN /\ Verified("empty", checked, sent[t].content)
                           /\ CanMake(Parent(f.dest)) /\ FileOrNone(f.dest)
                      ELSE NoLink(f.dest) /\ Kind(f.dest) = "file" IN
          \/ ~fine /\ Refuse(Refusal(t)) /\ Unwritten
          \/ /\ fine
             /\ disk' = IF f.added
                        THEN [WithDirs(disk, Parent(f.dest)) EXCEPT ![f.dest] =
                                Node("file", "empty", @.exec)]
                        ELSE disk
             /\ outside' = (outside \/ Through(f.dest))
             /\ Carry(t, checked, [do |-> "verify"], disk'[f.dest].content)
             /\ UNCHANGED <<temps, editor, view, sent, issued, drive>>
  BY DEF CloseUnchanged
<1> DEFINE p == sent[t].path
           f == fileTok[t]
           node == Node("file", "empty", disk[p].exec)
<1>2. pc = "driving" /\ t \notin DOMAIN pending /\ Active
  BY <1>1 DEF Closes, Active
<1>3. /\ f.dest = p /\ f \in FileTokens /\ sent[t].from = NoPath /\ sent[t].delta = "none"
      /\ p \in Paths
  BY <1>1, <1>2, FileFacts, EntryFacts DEF FileOK
<1>4. /\ NoLink(p) <=> disk[p].kind # "link"
      /\ Kind(p) = disk[p].kind /\ disk[p] \in Nodes
      /\ ~Through(p) <=> disk[p].kind # "link"
      /\ FileOrNone(p) <=> disk[p].kind \in {"file", "none"}
      /\ CanMake(Parent(p))
  BY <1>2, PlaceOfFile
<1>5. ASSUME clean
      PROVE  /\ Agree(disk[p], view[p])
             /\ f.added => disk[p].kind = "none" /\ disk[p].exec = "-" /\ view[p] = Nothing
             /\ ~f.added => disk[p].kind = "file"
             /\ sent[t].content = view[p].content
             /\ sent[t].told \/ sent[t].exec = view[p].exec
  <2>1. CleanFile(t)
    BY <1>2, <1>5, FileFacts
  <2>2. /\ sent[t].content = view[p].content
        /\ sent[t].told \/ sent[t].exec = view[p].exec
    BY <2>1, <1>3 DEF CleanFile
  <2> QED
    BY <2>2, <1>2, <1>5, PlaceOfFile
<1>6. CASE Refuse(Refusal(t)) /\ Unwritten /\ ~clean
  BY <1>6, RefusalFacts, Refuses
<1>7. CASE ~(Refuse(Refusal(t)) /\ Unwritten /\ ~clean)
  <2>1. clean => IF f.added
                 THEN /\ Verified("empty", checked, sent[t].content)
                      /\ CanMake(Parent(p)) /\ FileOrNone(p)
                 ELSE NoLink(p) /\ Kind(p) = "file"
    BY <1>4, <1>5, NodeFacts DEF Verified
  <2>2. /\ IF f.added THEN FileOrNone(p) ELSE NoLink(p) /\ Kind(p) = "file"
        /\ disk' = IF f.added THEN [WithDirs(disk, Parent(p)) EXCEPT ![p] = Node("file", "empty", @.exec)]
                   ELSE disk
        /\ outside' = (outside \/ Through(p))
        /\ Carry(t, checked, [do |-> "verify"], disk'[p].content)
        /\ temps' = temps /\ editor' = editor /\ drive' = drive
        /\ view' = view /\ sent' = sent /\ issued' = issued
    BY <1>1, <1>3, <1>7, <2>1
  <2>3. disk \in [Paths -> Nodes] /\ IsTree(disk)
    BY DEF IInv, DiskInv
  <2>4. /\ disk' \in [Paths -> Nodes] /\ IsTree(disk') /\ disk'[p].kind = "file"
        /\ disk[p].kind # "dir" /\ ~Through(p)
        /\ \A q \in Paths : q # p => disk'[q] = disk[q] \/ (disk'[q] = Dir /\ disk[q].kind = "dir")
        /\ f.added => disk'[p].content = "empty" /\ disk'[p].exec = disk[p].exec
        /\ ~f.added => disk'[p] = disk[p]
    <3>1. CASE f.added
      <4>1. node \in Nodes /\ node.kind = "file" /\ node.content = "empty" /\ node.exec = disk[p].exec
        <5>1. "empty" \in Contents /\ disk[p].exec \in {"x", "-", "any"}
          BY <1>4 DEF Contents, Nodes
        <5> QED
          BY <5>1, NodeFacts
      <4>2. FileOrNone(p)
        BY <2>2, <3>1
      <4>3. WithDirs(disk, Parent(p))[p] = disk[p]
        BY <1>2, <4>1, <4>2, Written
      <4>4. disk' = Placed(p, node)
        BY <2>2, <3>1, <4>3 DEF Placed
      <4> HIDE DEF node
      <4>5. /\ disk' \in [Paths -> Nodes] /\ IsTree(disk') /\ disk'[p] = node
            /\ disk[p].kind # "dir" /\ ~Through(p)
            /\ \A q \in Paths : q # p => disk'[q] = disk[q] \/ (disk'[q] = Dir /\ disk[q].kind = "dir")
        BY <1>2, <4>1, <4>2, <4>4, Written
      <4> QED
        BY <3>1, <4>1, <4>5
    <3>2. CASE ~f.added
      BY <3>2, <2>2, <2>3, <1>4
    <3> QED
      BY <3>1, <3>2
  <2>5. outside' = outside
    BY <2>2, <2>4 DEF IInv, DiskInv
  <2>6. PICK text : text = disk'[p].content
    OBVIOUS
  <2>7. text \in Contents
    <3>1. disk'[p] \in Nodes
      BY <2>4, <1>3
    <3> QED
      BY <3>1, <2>6 DEF Nodes
  <2>8. /\ pc' = "closing"
        /\ closing' = [step |-> [do |-> "verify"], token |-> t, dest |-> p, content |-> text,
                       checked |-> checked]
        /\ unchecked' = IF checked THEN unchecked ELSE unchecked \cup {p}
    BY <2>2, <2>6, <1>3 DEF Carry
  <2>9. clean => /\ text = sent[t].content
                 /\ sent[t].told \/ SaidExec(sent[t]) \in {"any", disk'[p].exec}
    <3> SUFFICES ASSUME clean
                 PROVE  /\ text = sent[t].content
                        /\ sent[t].told \/ SaidExec(sent[t]) \in {"any", disk'[p].exec}
      OBVIOUS
    <3>1. SaidExec(sent[t]) = sent[t].exec
      BY <1>3 DEF SaidExec
    <3>2. CASE f.added
      BY <3>1, <3>2, <1>5, <2>4, <2>6, NodeFacts
    <3>3. CASE ~f.added
      BY <3>1, <3>3, <1>5, <2>4, <2>6 DEF Agree
    <3> QED
      BY <3>2, <3>3
  <2> QED
    BY <1>2, <1>3, <2>2, <2>4, <2>5, <2>6, <2>7, <2>8, <2>9, ClosesPlain, ZenonT(40)
<1> QED
  BY <1>6, <1>7


\* The place of the file that is being closed changes no more than its text and
\* its executable bit.
LEMMA ClosingPlace ==
    ASSUME IInv, pc = "closing"
    PROVE  /\ Active /\ closing \in Closings /\ closing # Idle
           /\ closing.token \in SentFiles /\ closing.token \notin DOMAIN pending
           /\ closing.dest \in Paths /\ closing.dest = sent[closing.token].path
           /\ StepOK(closing.step, disk[closing.dest], sent[closing.token])
           /\ disk[closing.dest] \in Nodes /\ disk \in [Paths -> Nodes] /\ IsTree(disk)
           /\ ~closing.checked => closing.dest \in unchecked
           /\ closing.checked /\ closing.step.do # "verify" =>
                 closing.content = sent[closing.token].content
           /\ clean => CleanClosing
<1>1. Active /\ closing \in Closings /\ closing # Idle
  BY DEF Active, IInv, PlaceInv
<1>2. closing.dest \in Paths
  BY <1>1, ClosingFacts
<1> QED
  BY <1>1, <1>2 DEF IInv, ClosingInv, CleanInv, DiskInv

\* A step of close-file that leaves nothing to do but the executable bit.
LEMMA ClosingMoves ==
    ASSUME IInv, pc = "closing", pc' = "closing", closing.step.do \in {"copy", "verify"},
           closing' = [closing EXCEPT !.step = [do |-> "exec"]],
           NEW node \in Nodes, node.kind = "file", node.content = closing.content,
           disk[closing.dest].kind = "file",
           disk' = [disk EXCEPT ![closing.dest] = node],
           outside' = outside, temps' = temps, editor' = editor, server' = server, drive' = drive,
           closing.checked => closing.content = sent[closing.token].content,
           clean => \/ sent[closing.token].told
                    \/ SaidExec(sent[closing.token]) \in {"any", node.exec}
    PROVE  IInv'
<1> DEFINE p == closing.dest
           t == closing.token
<1>1. /\ Active /\ closing \in Closings /\ closing # Idle
      /\ t \in SentFiles /\ t \notin DOMAIN pending /\ p \in Paths /\ p = sent[t].path
      /\ disk \in [Paths -> Nodes] /\ IsTree(disk)
      /\ ~closing.checked => p \in unchecked
      /\ clean => CleanClosing
  BY ClosingPlace
<1>2. [do |-> "exec"] \in Steps /\ [do |-> "exec"].do = "exec"
  BY DEF Steps
<1>3. /\ closing' \in Closings /\ closing'.token = t /\ closing'.dest = p
      /\ closing'.step.do = "exec" /\ closing'.content = closing.content
      /\ closing'.checked = closing.checked
  BY <1>1, <1>2 DEF Closings
<1>4. /\ disk' \in [Paths -> Nodes] /\ IsTree(disk') /\ disk[p].kind # "dir"
      /\ disk'[p] = node /\ \A q \in Paths : q # p => disk'[q] = disk[q]
  BY <1>1, RetouchedTree
<1>5. /\ pending' = pending /\ sent' = sent /\ unchecked' = unchecked /\ start' = start
      /\ clean' = clean /\ SentFiles' = SentFiles
  BY DEF editor, server, drive, SentFiles
<1>6. ClosingInv'
  <2>1. StepOK(closing.step, disk[closing.dest], sent[closing.token])'
    BY <1>3, <1>4, <1>5 DEF StepOK
  <2> QED
    BY <2>1, <1>1, <1>3, <1>5 DEF ClosingInv
<1>7. TempsAccounted'
  <2>1. Own' = Own
    BY <1>3, <1>5 DEF Own
  <2> QED
    BY <2>1, <1>5 DEF IInv, TempsAccounted
<1>8. clean => CleanClosing'
  <2>1. clean => closing.content = sent[t].content
    BY <1>1 DEF CleanClosing
  <2> QED
    BY <2>1, <1>3, <1>4, <1>5 DEF CleanClosing, SaidExec
<1> QED
  BY <1>3, <1>4, <1>6, <1>7, <1>8, CloseGoesOn

LEMMA CopiedStep == ASSUME IInv, Copied PROVE IInv'
<1> DEFINE p == closing.dest
           node == [disk[p] EXCEPT !.content = closing.content]
<1>1. /\ pc = "closing" /\ closing.step.do = "copy" /\ pc' = "closing"
      /\ closing' = [closing EXCEPT !.step = [do |-> "exec"]]
      /\ disk' = [disk EXCEPT ![p] = node]
      /\ outside' = outside /\ temps' = temps /\ editor' = editor /\ server' = server
      /\ drive' = drive
  BY DEF Copied
<1>2. /\ closing \in Closings /\ disk[p] \in Nodes
      /\ StepOK(closing.step, disk[p], sent[closing.token])
      /\ closing.checked /\ closing.step.do # "verify" =>
            closing.content = sent[closing.token].content
      /\ Active /\ closing.token \in SentFiles
  BY <1>1, ClosingPlace
<1>3. disk[p].kind = "file" /\ sent[closing.token].from # NoPath
  BY <1>1, <1>2 DEF StepOK
<1>4. node \in Nodes /\ node.kind = "file" /\ node.content = closing.content
  BY <1>2, <1>3, ClosingFacts DEF Nodes
<1>5. clean => \/ sent[closing.token].told
               \/ SaidExec(sent[closing.token]) = "any"
  <2>1. clean => sent[closing.token].told \/ sent[closing.token].exec = "any"
    BY <1>2, <1>3, FileFacts DEF CleanFile
  <2> QED
    BY <2>1 DEF SaidExec
<1> HIDE DEF node
<1> QED
  BY <1>1, <1>2, <1>3, <1>4, <1>5, ClosingMoves

LEMMA VerifyStep == ASSUME IInv, Verify PROVE IInv'
<1> DEFINE p == closing.dest
           t == closing.token
<1>1. /\ pc = "closing" /\ closing.step.do = "verify"
      /\ editor' = editor /\ server' = server /\ drive' = drive
      /\ disk' = disk /\ outside' = outside /\ temps' = temps
  BY DEF Verify, files
<1>2. /\ closing \in Closings /\ disk[p] \in Nodes /\ disk \in [Paths -> Nodes] /\ p \in Paths
      /\ StepOK(closing.step, disk[p], sent[t])
      /\ clean => CleanClosing
  BY <1>1, ClosingPlace
<1>3. disk[p].kind = "file" /\ disk[p].content = closing.content
  BY <1>1, <1>2 DEF StepOK
<1>4. clean => /\ closing.content = sent[t].content
               /\ sent[t].told \/ SaidExec(sent[t]) \in {"any", disk[p].exec}
  BY <1>1, <1>2 DEF CleanClosing
<1>5. CASE ~Verified(closing.content, closing.checked, sent[t].content)
  <2>1. ~clean
    BY <1>4, <1>5 DEF Verified
  <2>2. pc' = Refusal(t) /\ closing' = closing
    BY <1>5 DEF Verify
  <2>3. /\ fileTok' = fileTok /\ execTok' = execTok /\ nextTmp' = nextTmp /\ pending' = pending
        /\ pending \in [DOMAIN pending -> Deltas]
    BY <1>1 DEF editor, IInv, EditorInv
  <2> QED
    BY <1>1, <2>1, <2>2, <2>3, RefusalFacts, Fails
<1>6. CASE Verified(closing.content, closing.checked, sent[t].content)
  <2>1. closing' = [closing EXCEPT !.step = [do |-> "exec"]] /\ pc' = "closing"
    BY <1>1, <1>6 DEF Verify
  <2>2. closing.checked => closing.content = sent[t].content
    BY <1>6 DEF Verified
  <2>3. disk' = [disk EXCEPT ![p] = disk[p]]
    BY <1>1, <1>2
  <2> QED
    BY <1>1, <1>2, <1>3, <1>4, <2>1, <2>2, <2>3, ClosingMoves
<1> QED
  BY <1>5, <1>6


\* The executable bit is set, and the file is no longer open.
LEMMA FinishStep == ASSUME IInv, Finish PROVE IInv'
<1>1. PICK t, p, e, node, file :
         /\ t = closing.token /\ p = closing.dest /\ e = sent[t]
         /\ node = WithExec(disk[p], t) /\ file = Node("file", e.content, SaidExec(e))
  OBVIOUS
<1>2. pc = "closing" /\ closing.step.do = "exec"
  BY DEF Finish
<1>3. /\ Active /\ closing \in Closings /\ closing # Idle
      /\ t \in SentFiles /\ t \notin DOMAIN pending /\ p \in Paths /\ p = e.path
      /\ StepOK(closing.step, disk[p], e)
      /\ disk[p] \in Nodes /\ disk \in [Paths -> Nodes] /\ IsTree(disk)
      /\ ~closing.checked => p \in unchecked
      /\ closing.checked => closing.content = e.content
      /\ clean => CleanClosing
  BY <1>1, <1>2, ClosingPlace
<1>4. /\ disk' = [disk EXCEPT ![p] = node] /\ fileTok' = Drop(fileTok, t)
      /\ execTok' = Drop(execTok, t) /\ sent' = Drop(sent, t)
      /\ pc' = "driving" /\ closing' = Idle
      /\ temps' = temps /\ outside' = outside /\ dirTok' = dirTok /\ pending' = pending
      /\ nextTmp' = nextTmp /\ issued' = issued /\ unchecked' = unchecked
      /\ drives' = drives /\ start' = start /\ clean' = clean
  BY <1>1 DEF Finish, ClearFile, drive
<1>5. view' = [view EXCEPT ![p] = file]
  BY <1>1, <1>3 DEF Finish
<1>6. /\ t \in DOMAIN sent /\ e \in FileEntries /\ view[p].kind # "dir" /\ Firm(Parent(p))
      /\ FileOK(t) /\ DOMAIN fileTok = SentFiles /\ DOMAIN pending \subseteq SentFiles
  BY <1>1, <1>3, FileFacts
<1>7. /\ SentFiles' = SentFiles \ {t} /\ SentDirs' = SentDirs \ {t}
      /\ DOMAIN sent' = DOMAIN sent \ {t} /\ \A u \in DOMAIN sent' : sent'[u] = sent[u]
  BY <1>4, DropSent
<1>8. t \notin SentDirs
  BY <1>1, <1>3 DEF SentFiles, SentDirs
<1>9. disk[p].kind = "file" /\ disk[p].content = closing.content
  BY <1>2, <1>3 DEF StepOK
<1>10. /\ node \in Nodes /\ node.kind = "file" /\ node.content = closing.content
       /\ t \in DOMAIN execTok => node.exec = execTok[t]
       /\ t \notin DOMAIN execTok => node = disk[p]
  <2>1. CASE t \in DOMAIN execTok
    <3>1. execTok[t] \in {"x", "-"}
      BY <2>1 DEF IInv, EditorInv
    <3>2. node = [disk[p] EXCEPT !.exec = execTok[t]]
      BY <1>1, <2>1 DEF WithExec
    <3> QED
      BY <2>1, <3>1, <3>2, <1>3, <1>9 DEF Nodes
  <2>2. CASE t \notin DOMAIN execTok
    BY <2>2, <1>1, <1>3, <1>9 DEF WithExec
  <2> QED
    BY <2>1, <2>2
<1>11. /\ file \in Nodes /\ file.kind = "file" /\ file.content = e.content
       /\ file.exec = SaidExec(e)
  <2>1. e.content \in Contents /\ SaidExec(e) \in {"x", "-", "any"}
    BY <1>6, EntryFacts DEF SaidExec, Execs
  <2> QED
    BY <2>1, <1>1, NodeFacts
<1>12. /\ disk' \in [Paths -> Nodes] /\ IsTree(disk') /\ disk'[p] = node
       /\ \A q \in Paths : q # p => disk'[q] = disk[q]
  BY <1>3, <1>4, <1>9, <1>10, RetouchedTree
<1>13. /\ view' \in [Paths -> Nodes] /\ IsTree(view') /\ IsPlain(view') /\ view'[p] = file
       /\ \A q \in Paths : q # p => view'[q] = view[q]
  <2>1. view \in [Paths -> Nodes] /\ IsTree(view) /\ IsPlain(view)
    BY DEF IInv, ServerInv
  <2>2. \A q \in Prefixes(p) \ {p} : view[q].kind = "dir"
    BY <1>3, <1>6, BelowFirm
  <2>3. view' \in [Paths -> Nodes] /\ IsTree(view')
    BY <2>1, <2>2, <1>3, <1>5, <1>6, <1>11, PlacedTree
  <2>4. view'[p] = file /\ \A q \in Paths : q # p => view'[q] = view[q]
    BY <2>1, <1>3, <1>5
  <2>5. IsPlain(view')
    BY <2>1, <2>4, <1>11 DEF IsPlain
  <2> QED
    BY <2>3, <2>4, <2>5
<1>14. DiskInv' /\ EditorInv'
  <2>1. /\ fileTok' \in [DOMAIN fileTok' -> FileTokens]
        /\ execTok' \in [DOMAIN execTok' -> {"x", "-"}]
    BY <1>4, DropType DEF IInv, EditorInv
  <2>2. DOMAIN fileTok' = DOMAIN fileTok \ {t} /\ DOMAIN execTok' = DOMAIN execTok \ {t}
    BY <1>4, DropFacts
  <2> QED
    BY <2>1, <2>2, <1>3, <1>4, <1>12 DEF IInv, DiskInv, EditorInv
<1>15. ServerInv' /\ DriveInv' /\ PlaceInv' /\ ClosingInv' /\ Active'
  <2>1. sent' \in [DOMAIN sent' -> DirEntries \cup FileEntries]
    BY <1>4, DropType DEF IInv, ServerInv
  <2>2. ServerInv'
    BY <2>1, <1>4, <1>7, <1>13 DEF IInv, ServerInv
  <2> QED
    BY <2>2, <1>4 DEF IInv, DriveInv, PlaceInv, ClosingInv, Active, Places, Between
<1>16. ASSUME NEW u \in SentFiles, u # t
       PROVE  /\ u \in DOMAIN sent /\ sent'[u] = sent[u] /\ sent[u].path # p /\ sent[u].path \in Paths
              /\ view'[sent[u].path] = view[sent[u].path]
              /\ fileTok'[u] = fileTok[u]
              /\ u \in DOMAIN execTok' <=> u \in DOMAIN execTok
              /\ u \in DOMAIN execTok => execTok'[u] = execTok[u]
  <2>1. u \in DOMAIN sent /\ sent'[u] = sent[u] /\ sent[u].path \in Paths
    BY <1>3, <1>7, <1>16, FileFacts
  <2>2. sent[u].path # p
    BY <1>1, <1>3, <1>16 DEF IInv, OpenInv
  <2>3. u \in DOMAIN fileTok
    BY <1>6
  <2> QED
    BY <2>1, <2>2, <2>3, <1>4, <1>13, <1>16 DEF Drop
<1>17. TokenInv'
  <2>1. ASSUME NEW u \in SentFiles, u # t PROVE FileOK(u)'
    <3>1. FileOK(u) /\ closing.token # u
      BY <1>1, <1>3, <2>1 DEF IInv, TokenInv
    <3> QED
      BY <3>1, <2>1, <1>4, <1>16 DEF FileOK
  <2>2. ASSUME NEW u \in DOMAIN pending PROVE DeltaOK(u)'
    <3>1. DeltaOK(u) /\ u \in SentFiles /\ u # t
      BY <1>3, <1>6 DEF IInv, TokenInv
    <3> QED
      BY <3>1, <1>4, <1>16 DEF DeltaOK
  <2>3. DOMAIN dirTok' = SentDirs' /\ DOMAIN fileTok' = SentFiles'
    BY <1>3, <1>4, <1>6, <1>7, <1>8, DropFacts DEF IInv, TokenInv
  <2> QED
    BY <2>1, <2>2, <2>3, <1>4, <1>7 DEF TokenInv
<1>18. ASSUME NEW d \in Homes, Firm(d) PROVE Firm(d)'
  <2>1. Prefixes(d) \subseteq Paths
    BY HomePrefixes
  <2>2. p \notin Prefixes(d)
    BY <1>6, <1>18 DEF Firm
  <2> QED
    BY <2>1, <2>2, <1>12, <1>13, <1>18 DEF Firm
<1>19. OpenInv'
  <2>1. ASSUME NEW u \in SentDirs PROVE Firm(sent[u].path)'
    <3>1. u \in DOMAIN sent /\ sent[u].path \in Homes /\ Firm(sent[u].path)
      BY <1>3, SentFacts DEF IInv, OpenInv
    <3>2. sent'[u] = sent[u]
      BY <3>1, <1>7, <1>8
    <3>3. PICK d \in Homes : d = sent[u].path
      BY <3>1
    <3>4. Firm(d)'
      BY <3>1, <3>3, <1>18
    <3> QED
      BY <3>2, <3>3, <3>4
  <2>2. ASSUME NEW u \in SentFiles, u # t
        PROVE  Firm(Parent(sent[u].path))' /\ view'[sent'[u].path].kind # "dir"
    <3>1. sent[u].path \in Paths /\ Firm(Parent(sent[u].path)) /\ view[sent[u].path].kind # "dir"
      BY <1>3, FileFacts
    <3>2. PICK d \in Homes : d = Parent(sent[u].path)
      BY <3>1, ParentFacts DEF Homes
    <3>3. Firm(d)'
      BY <3>1, <3>2, <1>18
    <3> QED
      BY <3>1, <3>2, <3>3, <2>2, <1>16
  <2>3. \A u, v \in SentFiles' : u # v => sent'[u].path # sent'[v].path
    BY <1>3, <1>7, <1>16 DEF IInv, OpenInv
  <2> QED
    BY <2>1, <2>2, <2>3, <1>7 DEF OpenInv
<1>20. VerifiedContent'
  <2>1. ASSUME NEW q \in Paths, disk'[q].kind = "file"
        PROVE  disk'[q].content \in {start.disk[q].content, view'[q].content} \/ q \in unchecked
    <3>1. CASE q = p
      BY <3>1, <1>3, <1>10, <1>11, <1>12, <1>13
    <3>2. CASE q # p
      BY <3>2, <2>1, <1>1, <1>12, <1>13 DEF IInv, VerifiedContent
    <3> QED
      BY <3>1, <3>2
  <2> QED
    BY <2>1, <1>4 DEF VerifiedContent
<1>21. TempsAccounted'
  <2>1. Own' = Own
    BY <1>2, <1>4 DEF Own
  <2> QED
    BY <2>1, <1>2, <1>4 DEF IInv, TempsAccounted
<1>22. CleanInv'
  <2> SUFFICES ASSUME clean PROVE CleanInv'
    BY <1>4 DEF CleanInv
  <2>1. Agree(disk'[p], view'[p])
    <3>1. node.content = file.content
      BY <1>1, <1>3, <1>10, <1>11 DEF CleanClosing
    <3>2. SaidExec(e) # "any" => node.exec = SaidExec(e)
      <4>1. CASE e.told
        <5>1. t \in DOMAIN execTok /\ execTok[t] = e.exec
          BY <4>1, <1>1, <1>6 DEF FileOK
        <5>2. SaidExec(e) = e.exec
          BY <4>1 DEF SaidExec
        <5> QED
          BY <5>1, <5>2, <1>10
      <4>2. CASE ~e.told
        <5>1. t \notin DOMAIN execTok
          BY <4>2, <1>1, <1>6 DEF FileOK
        <5>2. SaidExec(e) \in {"any", disk[p].exec}
          BY <4>2, <1>1, <1>2, <1>3 DEF CleanClosing
        <5> QED
          BY <5>1, <5>2, <1>10
      <4> QED
        BY <4>1, <4>2
    <3> QED
      BY <3>1, <3>2, <1>10, <1>11, <1>12, <1>13 DEF Agree
  <2>2. ASSUME NEW q \in Paths, q # p PROVE Agree(disk'[q], view'[q])
    <3>1. Agree(disk[q], view[q])
      BY <2>2, <1>1, <1>3 DEF IInv, CleanInv
    <3> QED
      BY <3>1, <2>2, <1>12, <1>13
  <2>3. ASSUME NEW u \in SentFiles, u # t PROVE CleanFile(u)'
    <3>1. CleanFile(u)
      BY <1>3 DEF IInv, CleanInv
    <3> QED
      BY <3>1, <2>3, <1>16 DEF CleanFile
  <2>4. ASSUME NEW u \in DOMAIN pending PROVE CleanDelta(u)'
    <3>1. CleanDelta(u) /\ u \in SentFiles /\ u # t
      BY <1>3, <1>6 DEF IInv, CleanInv
    <3> QED
      BY <3>1, <1>4, <1>16 DEF CleanDelta
  <2>5. start.temps = {}
    BY <1>3 DEF IInv, CleanInv
  <2> QED
    BY <2>1, <2>2, <2>3, <2>4, <2>5, <1>4, <1>7 DEF CleanInv
<1> QED
  BY <1>14, <1>15, <1>17, <1>19, <1>20, <1>21, <1>22 DEF IInv


-----------------------------------------------------------------------------
(* Theorems.                                                               *)

LEMMA Stutters == ASSUME IInv, UNCHANGED vars PROVE IInv'
<1>1. /\ disk' = disk /\ temps' = temps /\ outside' = outside
      /\ dirTok' = dirTok /\ fileTok' = fileTok /\ execTok' = execTok /\ pending' = pending
      /\ nextTmp' = nextTmp /\ closing' = closing /\ pc' = pc
      /\ view' = view /\ sent' = sent /\ issued' = issued /\ unchecked' = unchecked
      /\ drives' = drives /\ start' = start /\ clean' = clean
  BY DEF vars, files, editor, server, drive
<1>2. DiskInv' /\ EditorInv' /\ ServerInv' /\ DriveInv' /\ PlaceInv'
  BY <1>1 DEF IInv, DiskInv, EditorInv, ServerInv, DriveInv, PlaceInv
<1>3. Active' = Active /\ SentFiles' = SentFiles /\ SentDirs' = SentDirs /\ Own' = Own
  BY <1>1 DEF Active, SentFiles, SentDirs, Own
<1>4. TokenInv'
  BY <1>1, <1>3 DEF IInv, TokenInv, FileOK, DeltaOK
<1>5. OpenInv' /\ ClosingInv'
  BY <1>1, <1>3 DEF IInv, OpenInv, Firm, ClosingInv, StepOK
<1>6. VerifiedContent' /\ TempsAccounted'
  BY <1>1, <1>3 DEF IInv, VerifiedContent, TempsAccounted
<1>7. CleanInv'
  BY <1>1, <1>3 DEF IInv, CleanInv, CleanFile, CleanDelta, CleanClosing, SaidExec
<1> QED
  BY <1>2, <1>4, <1>5, <1>6, <1>7 DEF IInv

LEMMA NextStep == IInv /\ [Next]_vars => IInv'
<1> SUFFICES ASSUME IInv, [Next]_vars PROVE IInv'
  OBVIOUS
<1>1. CASE OpenRoot \/ AddDir \/ CopyDir \/ OpenDir \/ CloseDir \/ DeleteEntry
  BY <1>1, OpenRootStep, AddDirStep, CopyDirStep, OpenDirStep, CloseDirStep, DeleteEntryStep
<1>2. CASE AddFile \/ CopyFile \/ OpenFile
  BY <1>2, AddFileStep, CopyFileStep, OpenFileStep
<1>3. CASE ApplyTextDelta \/ TextDeltaChunk \/ TextDeltaEnd \/ ChangeFileProp
  BY <1>3, ApplyTextDeltaStep, TextDeltaChunkStep, TextDeltaEndStep, ChangeFilePropStep
<1>4. CASE CloseDelta \/ Rename \/ CloseCopy \/ Copied \/ CloseUnchanged \/ Verify \/ Finish
  BY <1>4, CloseDeltaStep, RenameStep, CloseCopyStep, CopiedStep, CloseUnchangedStep,
     VerifyStep, FinishStep
<1>5. CASE CloseEdit \/ AbortEdit \/ Break \/ BreakDelete \/ Again
  BY <1>5, CloseEditStep, AbortEditStep, BreakStep, BreakDeleteStep, AgainStep
<1>6. CASE UNCHANGED vars
  BY <1>6, Stutters
<1> QED
  BY <1>1, <1>2, <1>3, <1>4, <1>5, <1>6 DEF Next

\* The inductive invariant holds: editor and server agree on what is open, the
\* directories of what is open are there, each step of a close-file finds what the
\* step before has left, and a drive that began on the tree of its report has
\* built what it was sent.
THEOREM Invariance == Spec => []IInv
<1>1. Init => IInv
  BY StartsWell
<1>2. IInv /\ [Next]_vars => IInv'
  BY NextStep
<1> QED
  BY <1>1, <1>2, PTL DEF Spec

\* TypeOK, a part of DiskIsSound: no entry without its directory on the disk, and
\* nothing kept of a file that is not open.
LEMMA Shape == IInv => TypeOK
<1> SUFFICES ASSUME IInv PROVE TypeOK
  OBVIOUS
<1>1. /\ disk \in [Paths -> Nodes] /\ view \in [Paths -> Nodes]
      /\ pc \in Places /\ outside \in BOOLEAN /\ clean \in BOOLEAN
  <2>1. disk \in [Paths -> Nodes] /\ view \in [Paths -> Nodes] /\ pc \in Places
    BY DEF IInv, DiskInv, ServerInv, DriveInv
  <2>2. outside \in BOOLEAN /\ clean \in BOOLEAN
    BY Zenon DEF IInv, DiskInv, DriveInv
  <2> QED
    BY <2>1, <2>2
<1>2. ASSUME NEW p \in Paths, disk[p].kind # "none" PROVE Kind(Parent(p)) = "dir"
  <2>1. CASE Parent(p) = Root
    BY <2>1, KindFacts
  <2>2. CASE Parent(p) \in Prefixes(p) \ {p}
    <3>1. Parent(p) \in Paths
      BY <2>2, PathType
    <3>2. disk[Parent(p)].kind = "dir"
      BY <2>2, <1>2 DEF IInv, DiskInv, IsTree
    <3> QED
      BY <3>1, <3>2, KindFacts
  <2> QED
    BY <2>1, <2>2, ParentFacts
<1>3. /\ DOMAIN pending \subseteq DOMAIN fileTok /\ DOMAIN execTok \subseteq DOMAIN fileTok
      /\ nextTmp \in Nat
  BY DEF IInv, EditorInv
<1>4. pc = "driving" => DOMAIN dirTok = SentDirs /\ DOMAIN fileTok = SentFiles
  BY DEF IInv, TokenInv, Active
<1>5. unchecked \subseteq Paths /\ drives \in 0 .. MaxDrives
  BY DEF IInv, ServerInv, DriveInv
<1> QED
  BY <1>1, <1>2, <1>3, <1>4, <1>5 DEF TypeOK

\* What is on the disk: a tree below the root, nothing written through a symbolic
\* link, and no text that was not verified, however the drives end and whatever
\* was there before (ensure_no_symlink_prefix, close-file).
THEOREM DiskStaysSound == Spec => []DiskIsSound
<1>1. IInv => DiskIsSound
  BY Shape DEF IInv, DiskInv, DiskIsSound, StaysInside
<1> QED
  BY <1>1, Invariance, PTL

\* No temporary file is lost and none is left by a drive that was closed or
\* aborted (apply-textdelta, close-file, abort-edit).
THEOREM NoTempIsLost == Spec => []TempsAccounted
<1>1. IInv => TempsAccounted
  BY DEF IInv
<1> QED
  BY <1>1, Invariance, PTL

\* A drive over the tree its report spoke of is refused at no event, unless it
\* copies: the editor's own checks of tokens, links, kinds and texts are never in
\* the way of a drive that is well-formed.
THEOREM NoCleanDriveIsRefused == Spec => []CleanDriveIsAccepted
<1>1. IInv => CleanDriveIsAccepted
  BY DEF IInv, CleanInv, CleanDriveIsAccepted
<1> QED
  BY <1>1, Invariance, PTL

\* After such a drive every path below the root is what the server made it, with
\* the executable bit the server has spoken of.
THEOREM ExportsWhatWasSent == Spec => []AsSent
<1>1. IInv => AsSent
  BY DEF IInv, CleanInv, AsSent
<1> QED
  BY <1>1, Invariance, PTL

==============================================================================
