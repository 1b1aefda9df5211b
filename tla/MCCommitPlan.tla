----------------------------- MODULE MCCommitPlan -----------------------------
(***************************************************************************)
(* Small instances of CommitPlan.  Names 1, 2, 3 may be read as a, a.txt   *)
(* and b.                                                                  *)
(***************************************************************************)
EXTENDS CommitPlan

Tree(files, dirs) ==
    [p \in Paths |-> IF p \in files THEN "file" ELSE IF p \in dirs THEN "dir" ELSE "none"]

\* Nothing; a directory with a file and a directory in it; one with a file alone,
\* and nothing beside it; a file in its place.
SomeTrees ==
    {Tree({}, {}), Tree({<<1, 1>>, <<3>>}, {<<1>>, <<1, 3>>}), Tree({<<1, 1>>}, {<<1>>}),
     Tree({<<1>>}, {<<3>>})}

Change(op, path, mode, from) == [op |-> op, path |-> path, mode |-> mode, from |-> from]

Contents ==
    {Change("put", <<1>>, "Add", <<1>>), Change("put", <<1, 1>>, "Replace", <<1>>),
     Change("put", <<3>>, "AddOrReplace", <<1>>), Change("put", <<3, 1>>, "Add", <<1>>),
     Change("put", <<1, 3, 1>>, "AddOrReplace", <<1>>)}
Dirs3 ==
    {Change("mkdir", <<1>>, "Ensure", <<1>>), Change("mkdir", <<3, 3>>, "Add", <<1>>),
     Change("mkdir", <<1, 3>>, "Add", <<1>>)}
Removals ==
    {Change("delete", <<1>>, "Any", <<1>>), Change("delete", <<1, 3>>, "Any", <<1>>),
     Change("delete", Root, "Any", <<1>>)}
CopiesOfAll ==
    {Change("copy", <<3>>, "Any", <<1>>), Change("copy", <<3, 1>>, "File", <<1, 1>>),
     Change("copy", <<3, 3>>, "Dir", <<1>>)}
Props ==
    {Change("fileprop", <<1, 1>>, "Any", <<1>>), Change("dirprop", <<1, 3>>, "Any", <<1>>),
     Change("dirprop", Root, "Any", <<1>>)}

EveryChange == Contents \cup Dirs3 \cup Removals \cup CopiesOfAll \cup Props
TwoNames == {1, 3}

\* The neighbours of which one name continues the other.
Neighbours ==
    {Change("mkdir", <<1>>, "Ensure", <<1>>), Change("put", <<2>>, "Add", <<1>>),
     Change("put", <<1, 1>>, "Add", <<1>>)}
EmptyTree == {Tree({}, {})}
AfterStem == {<<1, 2>>}
===============================================================================
