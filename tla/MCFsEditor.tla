------------------------------ MODULE MCFsEditor ------------------------------
(***************************************************************************)
(* Small instances of FsEditor: a directory with a file, and a file.       *)
(***************************************************************************)
EXTENDS FsEditor

ThreePaths == {<<1>>, <<1, 1>>, <<2>>}

Tree(dir, inner, other) ==
    [p \in ThreePaths |-> CASE p = <<1>> -> dir [] p = <<1, 1>> -> inner [] p = <<2>> -> other]
File(content, exec) == Node("file", content, exec)
Link == Node("link", "empty", "-")

Empty == Tree(Nothing, Nothing, Nothing)
Full == Tree(Dir, File("v1", "x"), Nothing)

\* What the reports say; a changed file, a link, a directory in the way.
SomeDisks ==
    {Empty, Full, Tree(Dir, File("junk", "-"), Nothing), Tree(Link, Nothing, File("v1", "-")),
     Tree(Nothing, Nothing, Dir)}
SomeViews == {Empty, Full}
===============================================================================
