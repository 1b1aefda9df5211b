------------------------------ MODULE CommitPlan ------------------------------
(***************************************************************************)
(* CommitBuilder and CommitStreamBuilder (commit/): changes asked for in   *)
(* any order become one editor drive.  The builder folds the changes into  *)
(* operations per path, asks the server what exists at the base revision,  *)
(* and walks the sorted paths with a stack of open directories.  The       *)
(* server at the end applies the drive to a transaction, command by        *)
(* command, and rejects it at the first one that makes no sense.           *)
(*                                                                         *)
(* A path is a sequence of names.  Paths are sorted as strings, so that a  *)
(* name that continues another one with a byte below `/' (a.txt after a)   *)
(* comes before everything inside the other one.                           *)
(***************************************************************************)
EXTENDS Integers, Sequences, FiniteSets, SequencesExt

CONSTANTS
    Names,      \* the names of entries, numbered in their byte order
    LowStems,   \* pairs <<n, m>>: m is n continued by a byte below `/'
    Depth,      \* bound on the length of a path
    Trees,      \* what may exist at the base revision
    Menu,       \* the changes a caller may ask for
    MaxChanges  \* bound on the changes of a commit

Root == <<>>
Paths == UNION {[1 .. d -> Names] : d \in 1 .. Depth}
Kinds == {"none", "file", "dir"}
Ops == {"put", "mkdir", "delete", "copy", "fileprop", "dirprop"}
Modes == {"AddOrReplace", "Add", "Replace", "Ensure", "Any", "File", "Dir"}
Changes == [op : Ops, path : Paths \cup {Root}, mode : Modes, from : Paths]

ASSUME NameAssumption == Names \subseteq Nat /\ LowStems \subseteq Names \X Names
ASSUME TreeAssumption == Trees \subseteq [Paths -> Kinds]
ASSUME MenuAssumption == Menu \subseteq Changes
ASSUME BoundAssumption == Depth \in Nat /\ MaxChanges \in Nat

VARIABLES
    base,     \* what exists at base_rev
    stream,   \* TRUE for a CommitStreamBuilder
    changes,  \* the changes asked for
    todo,     \* those that have not been folded yet
    pc,       \* how far the builder or the server is
    fileOps,  \* path -> FileOp
    dirOps,   \* path -> DirOp
    deletes,  \* delete_paths
    copies,   \* copy_ops that have not been looked at
    dirPlans, \* path -> DirPlanKind
    tasks,    \* what is left to walk
    stack,    \* the open directories
    tokens,   \* TokenGen
    commands, \* the editor drive, the part that the server has not applied
    opened,   \* the directories the drive has opened or added, in order
    txn,      \* the server's transaction
    held      \* token -> path of what the drive holds open on the server

plan == <<fileOps, dirOps, deletes, copies>>
walk == <<dirPlans, tasks, stack, tokens, commands, opened>>
server == <<txn, held>>
vars == <<base, stream, changes, todo, pc, plan, walk, server>>

-----------------------------------------------------------------------------
(* Paths.                                                                  *)

Parent(p) == SubSeq(p, 1, Len(p) - 1)
DirPrefixes(p) == [i \in 1 .. Len(p) |-> SubSeq(p, 1, i)]
Inside(p, d) == Len(p) > Len(d) /\ SubSeq(p, 1, Len(d)) = d

\* The byte order of the paths p and q.
Before(p, q) ==
    \/ Inside(q, p)
    \/ \E i \in DOMAIN p \cap DOMAIN q :
          /\ SubSeq(p, 1, i - 1) = SubSeq(q, 1, i - 1)
          /\ \/ <<q[i], p[i]>> \in LowStems /\ i < Len(q)
             \/ p[i] < q[i] /\ ~(<<p[i], q[i]>> \in LowStems /\ i < Len(p))

KindAt(tree, p) ==
    IF p = Root THEN "dir" ELSE IF p \in DOMAIN tree THEN tree[p] ELSE "none"

-----------------------------------------------------------------------------
(* The builder's methods.                                                  *)

Ask(new) ==
    /\ pc = "ask" /\ Len(changes) + Len(new) <= MaxChanges
    /\ changes' = changes \o new
    /\ UNCHANGED <<base, stream, todo, pc, plan, walk, server>>

\* put_file, add_file, replace_file; and their namesakes with a reader.
PutFile == \E c \in Menu : c.op = "put" /\ ~stream /\ Ask(<<c>>)
PutReader == \E c \in Menu : c.op = "put" /\ stream /\ Ask(<<c>>)
MkdirP == \E c \in Menu : c.op = "mkdir" /\ ~stream /\ Ask(<<c>>)
Delete == \E c \in Menu : c.op = "delete" /\ ~stream /\ Ask(<<c>>)
Copy == \E c \in Menu : c.op = "copy" /\ ~stream /\ Ask(<<c>>)
Prop == \E c \in Menu : c.op \in {"fileprop", "dirprop"} /\ ~stream /\ Ask(<<c>>)

\* move_path: a copy and a delete of its source.
Move ==
    \E c, d \in Menu :
       /\ c.op = "copy" /\ d.op = "delete" /\ d.path = c.from
       /\ ~stream /\ Ask(<<c, d>>)

Fail ==
    /\ pc' = "failed"
    /\ UNCHANGED <<base, stream, changes, todo, plan, walk, server>>

GoOn(place) ==
    /\ pc' = place
    /\ UNCHANGED <<base, stream, changes, todo, plan, walk, server>>

\* build_editor_commands and CommitStreamBuilder::commit look at the number of
\* changes, the zlib level, HEAD and the svndiff version first.
Begin ==
    /\ pc = "ask"
    /\ \/ Fail
       \/ /\ changes # <<>>
          /\ pc' = "fold" /\ todo' = changes
          /\ UNCHANGED <<base, stream, changes, plan, walk, server>>

Build == ~stream /\ Begin
Stream == stream /\ Begin

\* A check_path fails.
SessionFails == pc \in {"copies", "plan", "resolve"} /\ Fail

-----------------------------------------------------------------------------
(* The changes become operations per path.                                 *)

NoOp == [action |-> "none", mode |-> "Any", from |-> Root, props |-> 0]
OpAt(ops, p) == IF p \in DOMAIN ops THEN ops[p] ELSE NoOp
Put(ops, p, op) == [q \in DOMAIN ops \cup {p} |-> IF q = p THEN op ELSE ops[q]]

\* What the loop over the changes refuses: only a directory may be the root.
Refused(c) ==
    \/ c.path = Root /\ c.op \notin {"mkdir", "dirprop"}
    \/ /\ c.op \in {"put", "fileprop", "mkdir", "dirprop"}
       /\ c.path # Root /\ c.path \in deletes
    \/ c.op = "put" /\ OpAt(fileOps, c.path).action # "none"
    \/ /\ c.op = "mkdir" /\ c.mode = "Add"
       /\ OpAt(dirOps, c.path).action = "mkdir" /\ OpAt(dirOps, c.path).mode = "Add"

\* add-dir stays add-dir when mkdir-p names the same directory.
Stricter(p, mode) ==
    IF OpAt(dirOps, p).action = "mkdir" /\ OpAt(dirOps, p).mode = "Add" THEN "Add" ELSE mode

\* What a change makes of the operation at its path.
PutOp(c) == [OpAt(fileOps, c.path) EXCEPT !.action = "put", !.mode = c.mode]
MkdirOp(c) == [OpAt(dirOps, c.path) EXCEPT !.action = "mkdir",
                                             !.mode = Stricter(c.path, c.mode)]
PropOp(ops, c) == [OpAt(ops, c.path) EXCEPT !.props = @ + 1]

Fold(c) ==
    \/ /\ c.op = "put" /\ fileOps' = Put(fileOps, c.path, PutOp(c))
       /\ UNCHANGED <<dirOps, deletes, copies>>
    \/ /\ c.op = "fileprop" /\ fileOps' = Put(fileOps, c.path, PropOp(fileOps, c))
       /\ UNCHANGED <<dirOps, deletes, copies>>
    \/ /\ c.op = "mkdir" /\ dirOps' = Put(dirOps, c.path, MkdirOp(c))
       /\ UNCHANGED <<fileOps, deletes, copies>>
    \/ /\ c.op = "dirprop" /\ dirOps' = Put(dirOps, c.path, PropOp(dirOps, c))
       /\ UNCHANGED <<fileOps, deletes, copies>>
    \/ /\ c.op = "delete" /\ deletes' = deletes \cup {c.path}
       /\ UNCHANGED <<fileOps, dirOps, copies>>
    \/ /\ c.op = "copy" /\ copies' = Append(copies, c)
       /\ UNCHANGED <<fileOps, dirOps, deletes>>

Take ==
    /\ pc = "fold" /\ todo # <<>>
    /\ \/ Refused(Head(todo)) /\ Fail
       \/ /\ ~Refused(Head(todo))
          /\ Fold(Head(todo))
          /\ todo' = Tail(todo)
          /\ UNCHANGED <<base, stream, changes, pc, walk, server>>

FoldChange == ~stream /\ Take

\* A second reader for a path is refused.
TakeReader == stream /\ Take

Folded == pc = "fold" /\ todo = <<>> /\ ~stream /\ GoOn("copies")

\* The stream builder has no copies, and looks at its files before the directories.
ReadersTaken == pc = "fold" /\ todo = <<>> /\ stream /\ GoOn("resolve")

\* A copy whose source does not exist or is not of the kind that was asked for,
\* or whose destination is taken by another change.
CopyRefused(c) ==
    LET kind == KindAt(base, c.from) IN
    \/ c.path \in deletes
    \/ kind = "none"
    \/ kind = "file" /\ (c.mode = "Dir" \/ OpAt(fileOps, c.path).action # "none")
    \/ kind = "dir" /\ (c.mode = "File" \/ OpAt(dirOps, c.path).action # "none")

\* Mutant: the source of the copy is forgotten.
CopyOfNothing(ops, c) == [OpAt(ops, c.path) EXCEPT !.action = "copy"]

CopyOp(ops, c) == [OpAt(ops, c.path) EXCEPT !.action = "copy", !.from = c.from]

TakeCopy ==
    /\ pc = "copies" /\ copies # <<>>
    /\ LET c == Head(copies) IN
       \/ CopyRefused(c) /\ Fail
       \/ /\ ~CopyRefused(c)
          /\ IF KindAt(base, c.from) = "file"
             THEN fileOps' = Put(fileOps, c.path, CopyOp(fileOps, c)) /\ UNCHANGED dirOps
             ELSE dirOps' = Put(dirOps, c.path, CopyOp(dirOps, c)) /\ UNCHANGED fileOps
          /\ copies' = Tail(copies)
          /\ UNCHANGED <<base, stream, changes, todo, pc, deletes, walk, server>>

Touched == DOMAIN fileOps \cup DOMAIN dirOps
CopiedDirs == {d \in DOMAIN dirOps : dirOps[d].action = "copy"}

\* A change at or below a deleted path, or below a copied directory.
Conflict ==
    \/ \E d \in deletes : \E p \in Touched : p = d \/ Inside(p, d)
    \/ \E d \in CopiedDirs : \E p \in Touched \cup deletes : Inside(p, d)

CheckConflicts ==
    /\ pc = "copies" /\ copies = <<>>
    /\ \/ Conflict /\ Fail
       \/ ~Conflict /\ GoOn("plan")

-----------------------------------------------------------------------------
(* What exists at the base revision.                                       *)

\* The directories a task at p walks through: its own path, or its parent's.
Dirs(kind, p) == IF kind = "dir" THEN DirPrefixes(p) ELSE DirPrefixes(Parent(p))

Tasks ==
    {[kind |-> "dir", path |-> p] : p \in DOMAIN dirOps}
    \cup {[kind |-> "file", path |-> p] : p \in DOMAIN fileOps}
    \cup {[kind |-> "delete", path |-> p] : p \in deletes}

Required == UNION {Range(Dirs(t.kind, t.path)) : t \in Tasks}

\* A required directory that is a file, or that exists although it is to be
\* added or copied.
DirRefused(d) ==
    \/ KindAt(base, d) = "file"
    \/ /\ KindAt(base, d) = "dir"
       /\ \/ OpAt(dirOps, d).action = "copy"
          \/ OpAt(dirOps, d).action = "mkdir" /\ OpAt(dirOps, d).mode = "Add"

PlanTo(place) ==
    /\ pc = "plan"
    /\ \/ (\E d \in Required : DirRefused(d)) /\ Fail
       \/ /\ \A d \in Required : ~DirRefused(d)
          /\ dirPlans' = [d \in Required |-> IF KindAt(base, d) = "dir" THEN "open" ELSE "add"]
          /\ pc' = place
          /\ UNCHANGED <<base, stream, changes, todo, plan, tasks, stack, tokens,
                         commands, opened, server>>

PlanDirs == ~stream /\ PlanTo("resolve")
PlanParents == stream /\ PlanTo("sort")

FileRefused(p) ==
    LET kind == KindAt(base, p) op == fileOps[p] IN
    \/ kind = "dir"
    \/ op.action = "none" /\ kind = "none"
    \/ op.action = "put" /\ op.mode = "Add" /\ kind = "file"
    \/ op.action = "put" /\ op.mode = "Replace" /\ kind = "none"
    \/ op.action = "copy" /\ kind = "file"

Unresolved ==
    \/ \E p \in DOMAIN fileOps : FileRefused(p)
    \/ \E d \in deletes : KindAt(base, d) = "none"

ResolveTo(place) ==
    /\ pc = "resolve"
    /\ \/ Unresolved /\ Fail
       \/ ~Unresolved /\ GoOn(place)

Resolve == ~stream /\ ResolveTo("sort")
ResolveReaders == stream /\ ResolveTo("plan")

-----------------------------------------------------------------------------
(* The walk.                                                               *)

\* tasks.sort_by is stable: at one path, directories come first.
TaskRank(kind) == CASE kind = "dir" -> 1 [] kind = "file" -> 2 [] OTHER -> 3

\* Mutant: the tasks stay in the order of the three lists.
ByList(t, u) ==
    \/ TaskRank(t.kind) < TaskRank(u.kind)
    \/ TaskRank(t.kind) = TaskRank(u.kind) /\ Before(t.path, u.path)

InOrder(t, u) ==
    \/ Before(t.path, u.path)
    \/ t.path = u.path /\ TaskRank(t.kind) < TaskRank(u.kind)

Sorted ==
    CHOOSE s \in [1 .. Cardinality(Tasks) -> Tasks] :
       \A i, j \in DOMAIN s : i < j => InOrder(s[i], s[j])

Command(cmd, path, token, parent) ==
    [cmd |-> cmd, path |-> path, token |-> token, parent |-> parent, from |-> Root]
RootToken == <<"r", 0>>

OpenRoot ==
    /\ pc = "sort"
    /\ pc' = "walk"
    /\ tasks' = Sorted
    /\ stack' = <<[path |-> Root, token |-> RootToken]>>
    /\ commands' = <<Command("open-root", Root, RootToken, RootToken)>>
    /\ UNCHANGED <<base, stream, changes, todo, plan, dirPlans, tokens, opened, server>>

\* How many of dirs are open already.
Common(dirs) ==
    Cardinality({i \in DOMAIN dirs :
       /\ i + 1 <= Len(stack)
       /\ \A j \in 1 .. i : stack[j + 1].path = dirs[j]})

CloseDir(entry) == Command("close-dir", entry.path, entry.token, RootToken)

\* The directories above the first k of the stack are closed, innermost first.
Closing(k) == [i \in 1 .. Len(stack) - k |-> CloseDir(stack[Len(stack) + 1 - i])]

\* dirs[k + 1], dirs[k + 2], ... are opened or added on top of the shared ones.
Entered(dirs, k) ==
    SubSeq(stack, 1, k + 1) \o
    [i \in 1 .. Len(dirs) - k |->
       [path |-> dirs[k + i], token |-> <<"d", tokens.dir + i>>]]

Opening(dirs, k) ==
    [i \in 1 .. Len(dirs) - k |->
       LET d == dirs[k + i] IN
       [Command(IF dirPlans[d] = "open" THEN "open-dir" ELSE "add-dir", d,
                <<"d", tokens.dir + i>>, Entered(dirs, k)[k + i].token)
          EXCEPT !.from = IF OpAt(dirOps, d).action = "copy" THEN dirOps[d].from ELSE Root]]

Repeat(n, command) == [i \in 1 .. n |-> command]

\* What a task does in its directory once it is on top of the stack.
DirCommands(p, token) ==
    Repeat(dirOps[p].props, Command("change-dir-prop", p, token, RootToken))

FileCommands(p, parent) ==
    LET op == fileOps[p]
        token == <<"f", tokens.file + 1>>
        add == op.action = "copy" \/ KindAt(base, p) = "none"
        On(cmd) == Command(cmd, p, token, RootToken) IN
    <<[Command(IF add THEN "add-file" ELSE "open-file", p, token, parent)
         EXCEPT !.from = op.from]>>
    \o (IF op.action = "put" THEN <<On("apply-textdelta"), On("textdelta-chunk"),
                                    On("textdelta-end")>> ELSE <<>>)
    \o Repeat(op.props, On("change-file-prop"))
    \o <<On("close-file")>>

TaskCommands(t, token) ==
    CASE t.kind = "dir" -> DirCommands(t.path, token)
      [] t.kind = "file" -> FileCommands(t.path, token)
      [] OTHER -> <<Command("delete-entry", t.path, RootToken, token)>>

Walk ==
    /\ pc = "walk" /\ tasks # <<>>
    /\ LET t == Head(tasks)
           dirs == Dirs(t.kind, t.path)
           k == Common(dirs)
           entered == Entered(dirs, k) IN
       /\ commands' = commands \o Closing(k + 1) \o Opening(dirs, k)
                        \o TaskCommands(t, entered[Len(entered)].token)
       /\ stack' = entered
       /\ opened' = opened \o SubSeq(dirs, k + 1, Len(dirs))
       /\ tokens' = [dir |-> tokens.dir + Len(dirs) - k,
                     file |-> tokens.file + IF t.kind = "file" THEN 1 ELSE 0]
    /\ tasks' = Tail(tasks)
    /\ UNCHANGED <<base, stream, changes, todo, pc, plan, dirPlans, server>>

WalkTask == ~stream /\ Walk

\* The stream builder sends what the other one collects, a file at a time.
SendFile == stream /\ Walk

CloseAll ==
    /\ pc = "walk" /\ tasks = <<>>
    /\ commands' = commands \o Closing(0)
                     \o <<Command("close-edit", Root, RootToken, RootToken)>>
    /\ stack' = <<>>
    /\ pc' = "drive"
    /\ UNCHANGED <<base, stream, changes, todo, plan, dirPlans, tasks, tokens, opened, server>>

-----------------------------------------------------------------------------
(* The server (external): a transaction based on the base revision.        *)

HeldAt(token, p) == token \in DOMAIN held /\ held[token] = p
Free(token) == token \notin DOMAIN held

\* The tree with an entry of that kind at p, copied from `from' or made anew.
Entry(tree, p, kind, from) ==
    [q \in Paths |->
       IF q = p THEN kind
       ELSE IF Inside(q, p) /\ from # Root
       THEN KindAt(base, from \o SubSeq(q, Len(p) + 1, Len(q)))
       ELSE tree[q]]
Without(tree, p) == [q \in Paths |-> IF q = p \/ Inside(q, p) THEN "none" ELSE tree[q]]

Opens == {"open-dir", "open-file", "add-dir", "add-file"}
Closes == {"close-dir", "close-file"}
Expected(cmd) == CASE cmd = "open-dir" -> "dir" [] cmd = "open-file" -> "file" [] OTHER -> "none"

\* What makes sense to the commit editor of the server.
Acceptable(c) ==
    CASE c.cmd = "open-root" -> TRUE
      [] c.cmd \in Opens -> /\ HeldAt(c.parent, Parent(c.path)) /\ Free(c.token)
                            /\ txn[c.path] = Expected(c.cmd)
      [] c.cmd = "delete-entry" -> HeldAt(c.parent, Parent(c.path)) /\ txn[c.path] # "none"
      [] c.cmd \in Closes -> /\ HeldAt(c.token, c.path)
                             /\ \A t \in DOMAIN held : ~Inside(held[t], c.path)
      [] c.cmd = "close-edit" -> DOMAIN held = {}
      [] OTHER -> HeldAt(c.token, c.path)

Effect(c) ==
    /\ held' = IF c.cmd \in Opens \cup {"open-root"} THEN Put(held, c.token, c.path)
               ELSE IF c.cmd \in Closes THEN [t \in DOMAIN held \ {c.token} |-> held[t]]
               ELSE held
    /\ txn' = CASE c.cmd = "add-dir" -> Entry(txn, c.path, "dir", c.from)
                [] c.cmd = "add-file" -> Entry(txn, c.path, "file", c.from)
                [] c.cmd = "delete-entry" -> Without(txn, c.path)
                [] OTHER -> txn

Apply ==
    /\ pc = "drive" /\ commands # <<>>
    /\ UNCHANGED <<base, stream, changes, todo, plan, dirPlans, tasks, stack, tokens, opened>>
    /\ LET c == Head(commands) IN
       \/ /\ Acceptable(c) /\ Effect(c)
          /\ commands' = Tail(commands)
          /\ pc' = IF c.cmd = "close-edit" THEN "committed" ELSE pc
       \/ /\ ~Acceptable(c)
          /\ pc' = "rejected"
          /\ UNCHANGED <<commands, server>>

-----------------------------------------------------------------------------

Init ==
    /\ base \in Trees /\ txn = base
    /\ stream \in BOOLEAN
    /\ changes = <<>> /\ todo = <<>>
    /\ pc = "ask"
    /\ fileOps = <<>> /\ dirOps = <<>> /\ deletes = {} /\ copies = <<>>
    /\ dirPlans = <<>> /\ tasks = <<>> /\ stack = <<>> /\ opened = <<>>
    /\ tokens = [dir |-> 0, file |-> 0]
    /\ commands = <<>> /\ held = <<>>

Next ==
    \/ PutFile \/ PutReader \/ MkdirP \/ Delete \/ Copy \/ Prop \/ Move
    \/ Build \/ Stream \/ SessionFails
    \/ FoldChange \/ TakeReader \/ Folded \/ ReadersTaken
    \/ TakeCopy \/ CheckConflicts \/ PlanDirs \/ PlanParents \/ Resolve \/ ResolveReaders
    \/ OpenRoot \/ WalkTask \/ SendFile \/ CloseAll \/ Apply

Spec == Init /\ [][Next]_vars

-----------------------------------------------------------------------------
(* Properties.                                                             *)

Asked == Range(changes)

\* The path of a change becomes, or has to be, a file.
IsFileChange(c) ==
    c.op \in {"put", "fileprop"} \/ (c.op = "copy" /\ KindAt(base, c.from) = "file")
IsDirChange(c) == c.op # "delete" /\ ~IsFileChange(c)

\* Changes that can all be true of one tree: nothing is asked for below a file or
\* below a deleted path, and no path is to be a file and a directory.
Consistent ==
    \A c, d \in Asked :
       /\ IsFileChange(c) \/ c.op = "delete" => ~Inside(d.path, c.path)
       /\ ~(IsFileChange(c) /\ IsDirChange(d) /\ c.path = d.path)

\* What a path is to be, read off the changes as a set.
Wanted(p) ==
    IF \E c \in Asked : c.op = "delete" /\ (p = c.path \/ Inside(p, c.path)) THEN "none"
    ELSE IF \E c \in Asked : IsFileChange(c) /\ c.path = p THEN "file"
    ELSE IF \E c \in Asked : Inside(c.path, p) \/ (IsDirChange(c) /\ c.path = p) THEN "dir"
    ELSE IF \E c \in Asked : c.op = "copy" /\ Inside(p, c.path)
    THEN LET c == CHOOSE c \in Asked : c.op = "copy" /\ Inside(p, c.path)
         IN KindAt(base, c.from \o SubSeq(p, Len(c.path) + 1, Len(p)))
    ELSE base[p]

OpType == [action : {"none", "put", "mkdir", "copy"}, mode : Modes,
           from : Paths \cup {Root}, props : 0 .. MaxChanges]
Steps == {"ask", "fold", "copies", "plan", "resolve", "sort", "walk", "drive",
          "failed", "committed", "rejected"}

\* The shape of the state.
TypeOK ==
    /\ base \in [Paths -> Kinds] /\ txn \in [Paths -> Kinds]
    /\ stream \in BOOLEAN /\ pc \in Steps
    /\ Range(changes) \subseteq Changes /\ Range(todo) \subseteq Changes
    /\ DOMAIN fileOps \subseteq Paths /\ Range(fileOps) \subseteq OpType
    /\ DOMAIN dirOps \subseteq Paths \cup {Root} /\ Range(dirOps) \subseteq OpType
    /\ deletes \subseteq Paths /\ Range(copies) \subseteq Changes
    /\ DOMAIN dirPlans \subseteq Paths /\ Range(dirPlans) \subseteq {"open", "add"}
    /\ Range(opened) \subseteq Paths
    /\ \A t \in DOMAIN held : held[t] \in Paths \cup {Root}
    /\ pc = "walk" => \A i \in 2 .. Len(stack) : Parent(stack[i].path) = stack[i - 1].path

\* A drive that the builder has made of consistent changes is one the server
\* accepts from the first command to the last (build.rs: `a low-level editor
\* command sequence suitable for RaSvnSession::commit').
DriveIsAccepted == Consistent => pc # "rejected"

\* What is committed is what was asked for, whatever the order of the changes:
\* every path is the file or directory it was to be, or is gone, and nothing
\* else has changed.
ResultIsAsAsked ==
    pc = "committed" /\ Consistent => txn = [p \in Paths |-> Wanted(p)]

\* The drive goes depth first: no directory is opened or added a second time.
OpenedOnce ==
    Consistent => \A i, j \in DOMAIN opened : opened[i] = opened[j] => i = j

\* What the walk opens and what it leaves behind: no directory twice, no file in
\* the wrong one, and the tree that was asked for.
BuildsTheTree == TypeOK /\ OpenedOnce /\ ResultIsAsAsked
===============================================================================
