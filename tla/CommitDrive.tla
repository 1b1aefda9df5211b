----------------------------- MODULE CommitDrive -----------------------------
(***************************************************************************)
(* RaSvnSession::commit and commit_drive (commit_ops.rs): the client       *)
(* streams editor commands in batches to a server that answers only when   *)
(* something is wrong or at the end, and looks for such an answer before   *)
(* each batch.  The pipe to the server is bounded.                         *)
(***************************************************************************)
EXTENDS Integers, Sequences

CONSTANTS
    Scripts,   \* what callers try to send: sequences of EditorCommands
    BatchSize, \* MAX_COMMANDS_PER_BATCH
    Pipe,      \* commands the pipe to the server holds
    MaxCalls,  \* bound on the commits of a behaviour
    Faults     \* what may go wrong, a subset of CommitFaults

\* "open" stands for the commands of an edit, "bad" for one of them whose
\* encoding fails.
EditorCommands == {"open", "bad", "close-edit", "abort-edit"}
CommitFaults == {"eof", "timeout", "refuse", "rogue", "caller"}

ASSUME ScriptAssumption == Scripts \subseteq Seq(EditorCommands)
ASSUME SizeAssumption ==
    BatchSize \in Nat \ {0} /\ Pipe \in Nat \ {0} /\ MaxCalls \in Nat
ASSUME FaultAssumption == Faults \subseteq CommitFaults

VARIABLES
    call,    \* the commit in progress and its locals
    kept,    \* FALSE when conn = None
    up,      \* the transport works
    out,     \* commands on their way to the server
    in,      \* items on their way to the client
    srv,     \* the server's side of the edit
    outcome, \* what each commit returned
    orphans, \* edits on lost connections that the server may still complete
    commits, \* how often the server has committed the edit of a call
    late     \* commands written since the server's answer was there to be seen

vars == <<call, kept, up, out, in, srv, outcome, orphans, commits, late>>
CallIds == 1 .. MaxCalls
NoEdit == [at |-> "idle", got |-> <<>>]

-----------------------------------------------------------------------------
(* How a commit ends.                                                      *)

\* A connection that is dropped may leave a whole edit behind.
Orphaned ==
    IF srv.at = "edit" /\ srv.got \o out = call.script
       /\ call.script # <<>> /\ call.script[Len(call.script)] = "close-edit"
    THEN {call.no} ELSE {}

\* Mutant: only errors of the transport and the protocol drop the connection.
FailKeeping(err) ==
    /\ call' = [call EXCEPT !.pc = "idle"]
    /\ outcome' = [outcome EXCEPT ![call.no] = err]
    /\ UNCHANGED <<kept, up, out, in, srv, orphans, commits, late>>

\* Any error: self.conn = None.
Fail(err) ==
    /\ call' = [call EXCEPT !.pc = "idle"]
    /\ outcome' = [outcome EXCEPT ![call.no] = err]
    /\ kept' = FALSE /\ up' = FALSE /\ out' = <<>> /\ in' = <<>> /\ srv' = NoEdit
    /\ orphans' = orphans \cup Orphaned
    /\ UNCHANGED <<commits, late>>

GoOn(place, rest) ==
    /\ call' = [call EXCEPT !.pc = place]
    /\ in' = rest
    /\ UNCHANGED <<kept, up, out, srv, outcome, orphans, commits, late>>

\* One command goes into the pipe, when there is room, or the write fails.
Write(command, next) ==
    \/ /\ up /\ Len(out) < Pipe
       /\ out' = Append(out, command)
       /\ call' = next
       /\ late' = IF in = <<>> THEN late ELSE late + 1
       /\ UNCHANGED <<kept, up, in, srv, outcome, orphans, commits>>
    \/ ~up /\ Fail("eof")

-----------------------------------------------------------------------------
(* commit and commit_drive.                                                *)

Idle == [no |-> 0, pc |-> "idle", script |-> <<>>, streamed |-> FALSE, i |-> 1,
         batch |-> <<>>, sincePoll |-> 0, closed |-> FALSE]

\* commit() refuses a list that does not end with its only close-edit, before
\* it looks at the connection.
WellFormed(script) ==
    /\ script # <<>> /\ script[Len(script)] = "close-edit"
    /\ \A k \in 1 .. Len(script) - 1 : script[k] \notin {"close-edit", "abort-edit"}

Start(script, streamed) ==
    /\ call.pc = "idle" /\ call.no < MaxCalls
    /\ call' = [Idle EXCEPT !.no = call.no + 1, !.script = script,
                            !.streamed = streamed, !.pc = "check"]
    /\ outcome' = [outcome EXCEPT ![call.no + 1] = "open"]
    /\ late' = 0
    /\ UNCHANGED <<kept, up, out, in, srv, orphans, commits>>

\* The commands are refused, or ensure_connected.
Check ==
    /\ call.pc = "check"
    /\ UNCHANGED <<out, in, srv, orphans, commits, late>>
    /\ \/ /\ ~call.streamed /\ ~WellFormed(call.script)
          /\ call' = [call EXCEPT !.pc = "idle"]
          /\ outcome' = [outcome EXCEPT ![call.no] = "protocol"]
          /\ UNCHANGED <<kept, up>>
       \/ /\ call.streamed \/ WellFormed(call.script)
          /\ call' = [call EXCEPT !.pc = "command"]
          /\ kept' = TRUE /\ up' = IF kept THEN up ELSE TRUE
          /\ UNCHANGED outcome

\* The server lacks commit-revprops and the options need it; or a path of a
\* lock token does not validate.
RefuseOptions ==
    /\ "caller" \in Faults /\ call.pc = "command"
    /\ \E err \in {"protocol", "other"} : Fail(err)

SendCommit == call.pc = "command" /\ Write("commit", [call EXCEPT !.pc = "auth"])

ReadAuth ==
    /\ call.pc \in {"auth", "auth2"} /\ in # <<>>
    /\ \/ Head(in) = "auth" /\ GoOn(IF call.pc = "auth" THEN "reply" ELSE "info", Tail(in))
       \/ Head(in) # "auth" /\ Fail("server")

ReadReply ==
    /\ call.pc = "reply" /\ in # <<>>
    /\ \/ Head(in) = "success" /\ GoOn("next", Tail(in))
       \/ Head(in) # "success" /\ Fail("server")

\* Mutant: the server is listened to only before the first batch.
PollsOnce == call.i = 1

\* A batch begins.
PollDue == call.sincePoll = 0

\* The command goes to the batch; a full batch goes to the pipe, one of BatchSize
\* commands or one whose commands are large (MAX_BATCH_BYTES).
Batched(large) ==
    [call EXCEPT !.batch = Append(@, call.script[call.i]), !.i = @ + 1,
                 !.sincePoll = @ + 1,
                 !.closed = call.script[call.i] = "close-edit",
                 !.pc = IF large \/ call.sincePoll + 1 >= BatchSize THEN "flush" ELSE "next"]

\* CommitDrive::send refuses a command after close-edit, and abort-edit.
Sendable ==
    ~call.streamed \/ (~call.closed /\ call.script[call.i] # "abort-edit")

\* One turn of the loop of commit(), or one CommitDrive::send.
NextCommand ==
    /\ call.pc = "next" /\ call.i <= Len(call.script)
    /\ \/ ~Sendable /\ Fail("protocol")
       \/ /\ Sendable /\ PollDue /\ in = <<>> /\ ~up
          /\ Fail("eof")
       \/ /\ Sendable /\ PollDue /\ in # <<>>
          /\ GoOn("abort", in)
       \/ /\ Sendable /\ (PollDue => in = <<>> /\ up)
          /\ call.script[call.i] = "bad" /\ Fail("other")
       \/ /\ Sendable /\ (PollDue => in = <<>> /\ up)
          /\ call.script[call.i] # "bad"
          /\ \E large \in BOOLEAN : call' = Batched(large)
          /\ UNCHANGED <<kept, up, out, in, srv, outcome, orphans, commits, late>>

\* What a flush leaves of since_poll.
SincePollReset == 0

\* write_wire_bytes: the batch, piece by piece.
Flush ==
    /\ call.pc = "flush"
    /\ \/ /\ call.batch # <<>>
          /\ Write(Head(call.batch), [call EXCEPT !.batch = Tail(@)])
       \/ /\ call.batch = <<>>
          /\ call' = [call EXCEPT !.sincePoll = SincePollReset,
                         !.pc = IF call.i > Len(call.script) THEN "end" ELSE "next"]
          /\ UNCHANGED <<kept, up, out, in, srv, outcome, orphans, commits, late>>

\* check_for_edit_status: there is something to read before its time.
SendAbort == call.pc = "abort" /\ Write("abort-edit", [call EXCEPT !.pc = "early"])

\* Mutant: the caller is told that there was an answer, not which.
LeaveEarly == call.pc = "early" /\ in # <<>> /\ Fail("protocol")

ReadEarlyStatus ==
    /\ call.pc = "early" /\ in # <<>>
    /\ \/ Head(in) = "success" /\ Fail("protocol")
       \/ Head(in) # "success" /\ Fail("server")

\* The caller's closure fails: its reader, say.
CallerFails ==
    /\ "caller" \in Faults /\ call.streamed /\ call.pc = "next"
    /\ Fail("other")

\* Mutant: finish() does not ask whether close-edit was sent.
EndUnchecked == TRUE

\* What finish() demands, and commit() has checked at the start.
EndAllowed == call.closed

\* The commands are at an end: the rest of the batch goes out.
Finish ==
    /\ \/ call.pc = "next" /\ call.i > Len(call.script)
       \/ call.pc = "end" /\ call.batch = <<>>
    /\ \/ ~EndAllowed /\ Fail("protocol")
       \/ EndAllowed /\ GoOn("final", in)

FinalFlush ==
    /\ call.pc = "final" /\ call.batch # <<>>
    /\ Write(Head(call.batch), [call EXCEPT !.batch = Tail(@)])

\* Mutant: any answer to the edit will do.
TakeAnyStatus ==
    /\ call.pc = "final" /\ call.batch = <<>> /\ in # <<>>
    /\ call' = [call EXCEPT !.pc = "idle"]
    /\ in' = Tail(in)
    /\ outcome' = [outcome EXCEPT ![call.no] = "ok"]
    /\ UNCHANGED <<kept, up, out, srv, orphans, commits, late>>

\* ensure_success of the response to the edit.
ReadStatus ==
    /\ call.pc = "final" /\ call.batch = <<>> /\ in # <<>>
    /\ \/ Head(in) = "success" /\ GoOn("auth2", Tail(in))
       \/ Head(in) # "success" /\ Fail("server")

\* parse_commit_info.
ReadInfo ==
    /\ call.pc = "info" /\ in # <<>>
    /\ \/ /\ Head(in) = "info"
          /\ call' = [call EXCEPT !.pc = "idle"]
          /\ in' = Tail(in)
          /\ outcome' = [outcome EXCEPT ![call.no] = "ok"]
          /\ UNCHANGED <<kept, up, out, srv, orphans, commits, late>>
       \/ Head(in) # "info" /\ Fail("protocol")

Reading == \/ call.pc \in {"auth", "auth2", "reply", "early", "info"}
           \/ call.pc = "final" /\ call.batch = <<>>

ReadEof == Reading /\ in = <<>> /\ ~up /\ Fail("eof")

\* read_timeout, or write_timeout on a full pipe.
TimesOut ==
    /\ "timeout" \in Faults /\ up
    /\ \/ Reading /\ in = <<>>
       \/ call.pc \in {"flush", "final"} /\ call.batch # <<>> /\ Len(out) = Pipe
    /\ Fail("timeout")

-----------------------------------------------------------------------------
(* The server (external).                                                  *)

Serve(items, next) ==
    /\ up
    /\ in' = in \o items
    /\ srv' = next
    /\ UNCHANGED <<call, kept, up, outcome, orphans, late>>

SrvCommit ==
    /\ srv.at = "idle" /\ out # <<>> /\ Head(out) = "commit"
    /\ out' = Tail(out) /\ UNCHANGED commits
    /\ \/ Serve(<<"auth", "success">>, [NoEdit EXCEPT !.at = "edit"])
       \/ "refuse" \in Faults /\ Serve(<<"auth", "failure">>, NoEdit)
       \/ "refuse" \in Faults /\ Serve(<<"failure">>, NoEdit)

SrvCommand ==
    /\ srv.at = "edit" /\ out # <<>> /\ Head(out) = "open"
    /\ out' = Tail(out) /\ UNCHANGED commits
    /\ \/ Serve(<<>>, [srv EXCEPT !.got = Append(@, Head(out))])
       \/ "refuse" \in Faults /\ Serve(<<"failure">>, [srv EXCEPT !.at = "drain"])
       \/ "rogue" \in Faults /\ Serve(<<"success">>, [srv EXCEPT !.got = Append(@, Head(out))])

SrvClose ==
    /\ srv.at = "edit" /\ out # <<>> /\ Head(out) = "close-edit"
    /\ out' = Tail(out)
    /\ \/ /\ commits' = [commits EXCEPT ![call.no] = @ + 1]
          /\ Serve(<<"success", "auth", "info">>, NoEdit)
       \/ /\ "refuse" \in Faults /\ UNCHANGED commits
          /\ Serve(<<"failure">>, [srv EXCEPT !.at = "drain"])

\* The server aborts an edit when it is told to.
SrvAbort ==
    /\ srv.at = "edit" /\ out # <<>> /\ Head(out) = "abort-edit"
    /\ out' = Tail(out) /\ UNCHANGED commits
    /\ Serve(<<"success">>, NoEdit)

\* After a failure the server reads and forgets, up to abort-edit.
SrvDrain ==
    /\ srv.at = "drain" /\ out # <<>>
    /\ out' = Tail(out) /\ UNCHANGED commits
    /\ Serve(<<>>, IF Head(out) = "abort-edit" THEN NoEdit ELSE srv)

Lose ==
    /\ "eof" \in Faults /\ up /\ kept
    /\ up' = FALSE /\ out' = <<>> /\ srv' = NoEdit
    /\ orphans' = IF call.pc # "idle" THEN orphans \cup Orphaned ELSE orphans
    /\ \E k \in 0 .. Len(in) : in' = SubSeq(in, 1, k)
    /\ UNCHANGED <<call, kept, outcome, commits, late>>

LateCommit ==
    \E c \in orphans :
       /\ orphans' = orphans \ {c}
       /\ commits' = [commits EXCEPT ![c] = @ + 1]
       /\ UNCHANGED <<call, kept, up, out, in, srv, outcome, late>>

-----------------------------------------------------------------------------

Init ==
    /\ call = Idle /\ kept = TRUE /\ up = TRUE /\ out = <<>> /\ in = <<>>
    /\ srv = NoEdit /\ late = 0 /\ orphans = {}
    /\ outcome = [c \in CallIds |-> "none"]
    /\ commits = [c \in CallIds |-> 0]

Client ==
    \/ Check \/ RefuseOptions \/ SendCommit \/ ReadAuth \/ ReadReply \/ NextCommand
    \/ Flush \/ SendAbort \/ ReadEarlyStatus \/ CallerFails \/ Finish
    \/ FinalFlush \/ ReadStatus \/ ReadInfo \/ ReadEof

Server == SrvCommit \/ SrvCommand \/ SrvClose \/ SrvAbort \/ SrvDrain

Next ==
    \/ \E script \in Scripts, streamed \in BOOLEAN : Start(script, streamed)
    \/ Client \/ Server \/ TimesOut \/ Lose \/ LateCommit

Spec == Init /\ [][Next]_vars

\* tokio polls the method, and the server reads what it is sent.
FairSpec == Spec /\ WF_vars(Client) /\ WF_vars(Server)

-----------------------------------------------------------------------------
(* Properties.                                                             *)

Errors == {"eof", "timeout", "protocol", "server", "other"}

\* The shape of the state.
TypeOK ==
    /\ call \in [no : 0 .. MaxCalls,
                 pc : {"idle", "check", "command", "auth", "reply", "next", "flush",
                       "abort", "early", "end", "final", "auth2", "info"},
                 script : Seq(EditorCommands), streamed : BOOLEAN, i : Nat,
                 batch : Seq(EditorCommands), sincePoll : 0 .. BatchSize,
                 closed : BOOLEAN]
    /\ kept \in BOOLEAN /\ up \in BOOLEAN
    /\ out \in Seq(EditorCommands \cup {"commit"})
    /\ in \in Seq({"auth", "success", "failure", "info"})
    /\ srv \in [at : {"idle", "edit", "drain"}, got : Seq(EditorCommands)]
    /\ outcome \in [CallIds -> Errors \cup {"none", "open", "ok"}]
    /\ orphans \subseteq CallIds /\ commits \in [CallIds -> Nat] /\ late \in Nat

\* The server commits the whole edit of a call or nothing of it: what it has
\* read when it commits is what the caller sent up to and with close-edit.
CommitIsWhole ==
    \A c \in CallIds :
        commits'[c] # commits[c] /\ c \notin orphans =>
           /\ c = call.no
           /\ \E k \in DOMAIN call.script :
                /\ call.script[k] = "close-edit"
                /\ Append(srv.got, "close-edit") = SubSeq(call.script, 1, k)
CommitsWholeEdit == [][CommitIsWhole]_vars

\* A connection is kept only when both ends are at the start of a command.
InSync ==
    call.pc = "idle" /\ kept /\ up => out = <<>> /\ in = <<>> /\ srv.at = "idle"

\* The state has its shape, and between calls both ends are at the same place.
InStep == TypeOK /\ InSync

\* Once the server's answer to a broken edit is there, the client sends at most
\* one more batch (`since_poll' and MAX_COMMANDS_PER_BATCH) and an abort-edit:
\* it does not upload the rest of a large commit in vain.
PromptAbort == late <= BatchSize + 1

\* The server's refusal is what the caller gets to see: a commit that has
\* noticed it, or has sent everything, does not end as anything else while the
\* transport works.
RefusalIsTheResult ==
    \A c \in CallIds :
        (/\ outcome[c] = "open" /\ outcome'[c] \notin {"open", "timeout"}
         /\ up /\ in # <<>> /\ Head(in) = "failure"
         /\ call.pc \in {"abort", "early", "final"})
        => outcome'[c] = "server"
RefusalIsReported == [][RefusalIsTheResult]_vars

\* What the server does and what the caller hears are the same thing.
TrueOutcome == CommitsWholeEdit /\ RefusalIsReported

\* Client and server never wait for each other: with both pipes working, every
\* commit returns without a timeout.
CommitReturns == \A c \in CallIds : outcome[c] = "open" ~> outcome[c] # "open"

-----------------------------------------------------------------------------
(* What a commit is to the owner of the session.                           *)

Phases ==
    [c \in CallIds |->
        CASE outcome[c] = "none" -> "new"
          [] outcome[c] = "open" -> "open"
          [] outcome[c] = "ok" -> "ok"
          [] OTHER -> "err"]
Begun == {c \in CallIds : outcome[c] # "none"}

Abstract == INSTANCE AtMostOnceCall WITH
    Calls <- CallIds, phase <- Phases, writing <- Begun, runs <- commits

\* A commit is executed at most once, and has been when it returns Ok.
ImplementsAtMostOnceCall == Abstract!Spec
==============================================================================
