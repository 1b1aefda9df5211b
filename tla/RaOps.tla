-------------------------------- MODULE RaOps --------------------------------
(***************************************************************************)
(* The operations of an RaSvnSession, seen from the connection: which      *)
(* items the client reads back after it has written the command, and what  *)
(* it does with the connection when the operation fails.                   *)
(*                                                                         *)
(* An operation is a record                                                *)
(*   script   the read positions it goes through, in order                 *)
(*   retry    TRUE when it runs inside with_retry (or a loop of its own    *)
(*            that restarts it) on a retryable error                       *)
(*   drops    TRUE when it sets conn = None on should_drop_connection      *)
(*   each     TRUE when stream entries go to a caller's callback           *)
(*   dedup    TRUE when revisions already seen are suppressed              *)
(*   moves    TRUE for reparent, the one operation that changes the URL    *)
(*                                                                         *)
(* Read positions:                                                         *)
(*   "auth"   the auth-request that precedes every answer                  *)
(*   "any"    a command response of which only `success' is looked at      *)
(*   "chunks" the strings of get-file up to the empty one                  *)
(*   "stream" a list of entries up to the word `done'                      *)
(*   other    a command response whose parameters must have that shape     *)
(***************************************************************************)
EXTENDS Sequences

\* A command with one response, run inside with_retry.
Query(shape) ==
    [script |-> <<"auth", shape>>, retry |-> TRUE, drops |-> FALSE,
     each |-> FALSE, dedup |-> FALSE, moves |-> FALSE]

\* A command whose entries are collected inside with_retry.
Collect == [Query("any") EXCEPT !.script = <<"auth", "stream", "any">>]

\* A command that is written at most once; the connection is dropped on
\* Protocol and Io errors.
Once(shape) == [Query(shape) EXCEPT !.retry = FALSE, !.drops = TRUE]

\* A command whose entries are handed to a callback as they arrive.
Stream == [Collect EXCEPT !.retry = FALSE, !.drops = TRUE, !.each = TRUE]

-----------------------------------------------------------------------------
(* meta.rs, list.rs, data/*.rs, locks.rs and history.rs: idempotent reads.  *)

GetLatestRev == Query("rev")
GetDatedRev == Query("rev")
GetMergeinfo == Query("mergeinfo")
ListDir == Query("dir")
ListDirWithFields == Query("dir")
CheckPath == Query("kind")
Stat == Query("stat")
GetDeletedRev == Query("rev")
GetFileProplist == Query("file")
InheritedProps == Query("iprops")
RevProplist == Query("props")
RevProp == Query("prop")
GetLock == Query("lock")
GetLocks == Query("locks")
List == Collect
GetLocations == Collect
GetLocationSegments == Collect
GetFileRevs == Collect
LogWithOptions == Collect

(* session.rs: reparent ignores the parameters of the response and moves    *)
(* base_url when it returns.                                                *)
Reparent == [Query("any") EXCEPT !.moves = TRUE]

(* Mutant: change-rev-prop inside with_retry.                               *)
ChangeRevPropRetried == Query("any")

(* Operations with an effect on the server: never retried.                  *)
ChangeRevProp == Once("any")
ChangeRevProp2 == Once("any")
Lock == Once("lock")
Unlock == Once("any")

(* Streaming variants.                                                      *)
ListEach == Stream
GetFileRevsEach == Stream
LogEach == Stream
LogEachRetrying == [Stream EXCEPT !.retry = TRUE, !.dedup = TRUE]

(* data/file.rs: every `?' and `return Err' of get_file_with_options leaves *)
(* the function, so neither its retry arm nor its drop arm is ever reached. *)
GetFile == [Query("file") EXCEPT
              !.script = <<"auth", "file", "chunks", "any">>, !.retry = FALSE]

-----------------------------------------------------------------------------

\* The shapes of a command response: "any", or what its parameters must be.
Shapes == {"any", "rev", "mergeinfo", "dir", "kind", "stat", "file", "iprops",
           "props", "prop", "lock", "locks"}

Positions == Shapes \cup {"auth", "chunks", "stream"}

StreamScript == <<"auth", "stream", "any">>
FileScript == <<"auth", "file", "chunks", "any">>
Scripts == {<<"auth", shape>> : shape \in Shapes} \cup {StreamScript, FileScript}

\* What one callback is given arrives once: a method that hands out entries as
\* they come restarts only if it can tell those it has handed out.
OpType ==
    {op \in [script : Scripts, retry : BOOLEAN, drops : BOOLEAN,
             each : BOOLEAN, dedup : BOOLEAN, moves : BOOLEAN] :
        /\ op.each => op.script = StreamScript /\ (op.retry => op.dedup)
        /\ op.dedup => op.each}

\* The operations after which the caller may not be left guessing whether
\* the server acted twice.
Mutating == {ChangeRevProp, ChangeRevProp2, Lock, Unlock}
==============================================================================
