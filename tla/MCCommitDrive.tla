---------------------------- MODULE MCCommitDrive ----------------------------
(***************************************************************************)
(* Small instances of CommitDrive.                                         *)
(***************************************************************************)
EXTENDS CommitDrive

Edit(n) == [k \in 1 .. n |-> IF k < n THEN "open" ELSE "close-edit"]

\* Edits of one to three batches of two, and every way to get one wrong.
GoodScripts == {Edit(n) : n \in 1 .. 6}
BadScripts == {<<>>, <<"open">>, <<"open", "open">>, <<"close-edit", "open">>,
               <<"open", "abort-edit">>, <<"open", "close-edit", "close-edit">>,
               <<"open", "bad", "close-edit">>}
AllScripts == GoodScripts \cup BadScripts
==============================================================================
