------------------------------ MODULE EditDrive ------------------------------
(***************************************************************************)
(* The editor drives of an RaSvnSession: update, switch, diff and status   *)
(* (command, report, drive), replay (command, drive) and replay-range (one *)
(* drive per revision).  The server writes editor commands while the       *)
(* client may write a failure, through two pipes of bounded size: the      *)
(* client must be able to say no to a server that is not listening, and    *)
(* afterwards know where in the conversation it is.                        *)
(***************************************************************************)
EXTENDS Integers, Sequences

CONSTANTS
    Kinds,        \* the methods that are called, a subset of Methods
    NEvents,      \* editor commands of a drive before the last one
    NRevs,        \* revisions of a replay-range
    FailureParts, \* writes it takes to send a failure
    ToServer,     \* writes the pipe to the server holds
    ToClient,     \* items the pipe to the client holds
    MaxCalls,     \* bound on the calls made in a behaviour
    Faults        \* what may go wrong, a subset of DriveFaults

\* A method that drives an editor: whether it sends a report first, and over
\* how many revisions it goes.
Drive(name, reports, revs) == [name |-> name, reports |-> reports, revs |-> revs]

Update == Drive("update", TRUE, 1)
Switch == Drive("switch", TRUE, 1)
Diff == Drive("diff", TRUE, 1)
Status == Drive("status", TRUE, 1)
Replay == Drive("replay", FALSE, 1)
ReplayRange == Drive("replay-range", FALSE, NRevs)

\* The asynchronous handlers are called where the others are.
UpdateWithAsyncHandler == Update
SwitchWithAsyncHandler == Switch
DiffWithAsyncHandler == Diff
StatusWithAsyncHandler == Status
ReplayWithAsyncHandler == Replay
ReplayRangeWithAsyncHandler == ReplayRange

Methods == {Update, Switch, Diff, Status, Replay, ReplayRange}
DriveFaults == {"eof", "timeout", "rogue", "badpath", "abortreport", "refusefinish"}

ASSUME KindAssumption == Kinds \subseteq Methods /\ Kinds # {}
ASSUME SizeAssumption ==
    /\ NEvents \in Nat /\ NRevs \in Nat \ {0} /\ FailureParts \in Nat \ {0}
    /\ ToServer \in Nat \ {0} /\ ToClient \in Nat \ {0} /\ MaxCalls \in Nat
ASSUME FaultAssumption == Faults \subseteq DriveFaults

VARIABLES
    call,      \* the method in progress and its locals
    kept,      \* FALSE when conn = None
    up,        \* the transport works
    out,       \* what is on its way to the server
    in,        \* what is on its way to the client
    srv,       \* the server: where it is, what it has sent of this drive
    delivered  \* the events the handler accepted, in order

vars == <<call, kept, up, out, in, srv, delivered>>

Item(word) == [word |-> word, rev |-> 0, n |-> 0]
Event(rev, n) == [word |-> "event", rev |-> rev, n |-> n]

Quiet == [at |-> "idle", kind |-> Replay, rev |-> 0, sent |-> 0, nak |-> 0,
          failed |-> FALSE, rogue |-> FALSE]

\* The server once it has said its last word: it is remembered whether it left
\* the protocol in this drive.
Served == [Quiet EXCEPT !.rogue = srv.rogue]

-----------------------------------------------------------------------------
(* How a method ends.                                                      *)

ShouldDrop(err) == err \in {"eof", "timeout", "protocol"}

\* self.conn = None closes the socket; the server notices and goes away.
Disconnect ==
    /\ kept' = FALSE /\ up' = FALSE
    /\ out' = <<>> /\ in' = <<>> /\ srv' = Quiet

\* replay_range drops the connection on any error.
Ranges == call.kind = ReplayRange

\* The method returns; rest is what is left unread.
Leave(result, rest) ==
    /\ call' = [call EXCEPT !.pc = "idle", !.result = result]
    /\ UNCHANGED delivered
    /\ IF ShouldDrop(result) \/ (Ranges /\ result # "ok")
       THEN Disconnect
       ELSE in' = rest /\ UNCHANGED <<kept, up, out, srv>>

\* The method returns err after an aborted drive whose response could not be
\* read: drop_conn.
LeaveDropped(err, rest) ==
    /\ call' = [call EXCEPT !.pc = "idle", !.result = err]
    /\ UNCHANGED delivered
    /\ Disconnect

\* The method goes on at place, having read up to rest.
GoOn(place, rest) ==
    /\ call' = [call EXCEPT !.pc = place]
    /\ in' = rest
    /\ UNCHANGED <<kept, up, out, srv, delivered>>

-----------------------------------------------------------------------------
(* The methods up to the drive.                                            *)

Idle == [no |-> 0, kind |-> Replay, report |-> "good", pc |-> "idle", rev |-> 1,
         err |-> "none", drain |-> FALSE, left |-> 0, done |-> FALSE,
         result |-> "none"]

\* The two calls after which the code does not know where the server is: a
\* report cut short by a path that does not validate, and a FinishReplay that
\* the handler refused.  A behaviour ends with such a call.
Spoilt == call.report = "badpath" \/ call.err = "finish"

\* A method is called; a session without connection reconnects first.
Start(kind, report) ==
    /\ call.pc = "idle" /\ call.no < MaxCalls /\ ~Spoilt
    /\ report = "good" \/ (kind.reports /\ report \in Faults)
    /\ kept' = TRUE /\ up' = IF kept THEN up ELSE TRUE
    /\ call' = [Idle EXCEPT !.no = call.no + 1, !.kind = kind,
                            !.report = report, !.pc = "start"]
    /\ delivered' = <<>>
    /\ UNCHANGED <<out, in, srv>>

\* require_finish_report, before the connection is touched.
RefuseReport ==
    /\ call.pc = "start" /\ call.report = "abortreport"
    /\ call' = [call EXCEPT !.pc = "idle", !.result = "protocol"]
    /\ UNCHANGED <<kept, up, out, in, srv, delivered>>

\* A blocking write of one token: it waits for room, or fails.
Write(token, place) ==
    \/ /\ up /\ Len(out) < ToServer
       /\ out' = Append(out, token)
       /\ call' = [call EXCEPT !.pc = place]
       /\ UNCHANGED <<kept, up, in, srv, delivered>>
    \/ ~up /\ Leave("eof", in)

SendCommand ==
    /\ call.pc = "start" /\ call.report # "abortreport"
    /\ Write("command", "auth")

\* send_report: a path that does not validate ends it half-way.
SendReport ==
    /\ call.pc = "report"
    /\ \/ call.report = "badpath" /\ Leave("other", in)
       \/ call.report # "badpath" /\ Write("report", "auth2")

\* Where an accepted auth-request leads.
AfterAuth ==
    IF call.pc = "auth" /\ call.kind.reports THEN "report"
    ELSE IF Ranges THEN "revprops" ELSE "drive"

ReadAuth ==
    /\ call.pc \in {"auth", "auth2"} /\ in # <<>>
    /\ \/ Head(in).word = "auth" /\ GoOn(AfterAuth, Tail(in))
       \/ Head(in).word = "fail" /\ Leave("server", Tail(in))
       \/ Head(in).word \notin {"auth", "fail"} /\ Leave("protocol", Tail(in))

-----------------------------------------------------------------------------
(* drive_editor.                                                           *)

\* Mutant: an event that is refused is skipped.
RefuseSilently(err, drain) ==
    /\ in' = Tail(in)
    /\ UNCHANGED <<call, kept, up, out, srv, delivered>>

\* handle_editor_consumer_error: the failure is about to be written.
Refuse(err, drain) ==
    /\ call' = [call EXCEPT !.pc = "early", !.err = err, !.drain = drain,
                            !.left = FailureParts, !.done = FALSE]
    /\ in' = Tail(in)
    /\ UNCHANGED <<kept, up, out, srv, delivered>>

\* parse_replay_range_item: the revision properties in front of each drive.
ReadRevProps ==
    /\ call.pc = "revprops" /\ in # <<>>
    /\ \/ Head(in).word = "revprops" /\ GoOn("drive", Tail(in))
       \/ Head(in).word = "revprops" /\ Leave("other", Tail(in))
       \/ Head(in).word = "fail" /\ Leave("server", Tail(in))
       \/ Head(in).word \notin {"revprops", "fail"} /\ Leave("protocol", Tail(in))

\* parse_editor_event: an unknown word or a parameter that is missing or of the
\* wrong shape is a protocol error, a path that does not validate another one,
\* and so may be what the handler returns.
EventErrors == {"protocol", "other"}

\* An editor command that does not end the drive: parse_editor_event and the
\* handler accept it, or one of them does not.
ReadEvent ==
    /\ call.pc = "drive" /\ in # <<>> /\ Head(in).word = "event"
    /\ \/ /\ delivered' = Append(delivered, Head(in))
          /\ in' = Tail(in)
          /\ UNCHANGED <<call, kept, up, out, srv>>
       \/ \E err \in EventErrors : Refuse(err, TRUE)

ReadFailure ==
    /\ call.pc = "drive" /\ in # <<>> /\ Head(in).word = "fail"
    /\ Leave("server", Tail(in))

\* Where a completed drive leads.
AfterDrive ==
    IF call.rev < call.kind.revs THEN "revprops" ELSE "response"

\* close-edit and abort-edit are answered with success when the handler agrees.
ReadClose ==
    /\ call.pc = "drive" /\ in # <<>>
    /\ Head(in).word \in {"close-edit", "abort-edit"}
    /\ GoOn("ack", Tail(in)) \/ Refuse("other", FALSE)

WriteAck ==
    /\ call.pc = "ack"
    /\ \/ /\ up /\ Len(out) < ToServer
          /\ out' = Append(out, "success")
          /\ call' = [call EXCEPT !.pc = AfterDrive, !.rev = @ + 1]
          /\ UNCHANGED <<kept, up, in, srv, delivered>>
       \/ ~up /\ Leave("eof", in)

\* finish-replay is not answered, unless the handler refuses it.
ReadFinishReplay ==
    /\ call.pc = "drive" /\ in # <<>> /\ Head(in).word = "finish-replay"
    /\ \/ call.kind.reports /\ Leave("protocol", Tail(in))
       \/ /\ ~call.kind.reports
          /\ call' = [call EXCEPT !.pc = AfterDrive, !.rev = @ + 1]
          /\ in' = Tail(in)
          /\ UNCHANGED <<kept, up, out, srv, delivered>>
       \/ /\ ~call.kind.reports /\ "refusefinish" \in Faults
          /\ Refuse("finish", FALSE)

\* Mutant: an abort-edit that was read in passing is forgotten.
ForgetsAbort == call.done

\* What write_cmd_failure_early remembers of an item it had to read.
SawAbort == call.done \/ Head(in).word = "abort-edit"

\* Mutant: the writer waits for room whatever there is to read.
WaitForRoom ==
    /\ call.pc = "early" /\ call.left > 0
    /\ up /\ Len(out) < ToServer
    /\ out' = Append(out, "part")
    /\ call' = [call EXCEPT !.left = @ - 1]
    /\ UNCHANGED <<kept, up, in, srv, delivered>>

\* write_cmd_failure_early: write what there is room for, and read when there
\* is none.
WriteFailure ==
    /\ call.pc = "early" /\ call.left > 0
    /\ \/ /\ up /\ Len(out) < ToServer
          /\ out' = Append(out, "part")
          /\ call' = [call EXCEPT !.left = @ - 1]
          /\ UNCHANGED <<kept, up, in, srv, delivered>>
       \/ /\ up /\ Len(out) = ToServer /\ in # <<>>
          /\ call' = [call EXCEPT !.done = SawAbort]
          /\ in' = Tail(in)
          /\ UNCHANGED <<kept, up, out, srv, delivered>>
       \/ ~up /\ Leave("eof", in)

\* The failure is out: drain unless there is nothing to drain.
FailureWritten ==
    /\ call.pc = "early" /\ call.left = 0
    /\ GoOn(IF call.drain /\ ~call.done THEN "drain" ELSE "aborted", in)

\* drain_until_abort_or_success.
Drain ==
    /\ call.pc = "drain"
    /\ \/ in # <<>> /\ Head(in).word \in {"abort-edit", "success"}
             /\ GoOn("aborted", Tail(in))
       \/ in # <<>> /\ Head(in).word \notin {"abort-edit", "success"}
             /\ GoOn("drain", Tail(in))
       \/ in = <<>> /\ ~up /\ GoOn("aborted", in)

\* Mutant: the method returns without looking for the response.
ReturnAtOnce ==
    /\ call.pc = "aborted"
    /\ Leave(call.err, in)

\* EditorDriveStatus::Aborted: the response tells whether the connection can
\* be kept; replay-range does not look.
ReadAborted ==
    /\ call.pc = "aborted"
    /\ \/ Ranges /\ Leave(call.err, in)
       \/ /\ ~Ranges /\ in # <<>>
          /\ \/ Head(in).word \in {"success", "fail"} /\ Leave(call.err, Tail(in))
             \/ Head(in).word \notin {"success", "fail"}
                   /\ LeaveDropped(call.err, Tail(in))
       \/ /\ ~Ranges /\ in = <<>> /\ ~up
          /\ LeaveDropped(call.err, in)

ReadResponse ==
    /\ call.pc = "response" /\ in # <<>>
    /\ \/ Head(in).word = "success" /\ Leave("ok", Tail(in))
       \/ Head(in).word = "fail" /\ Leave("server", Tail(in))
       \/ Head(in).word \notin {"success", "fail"} /\ Leave("protocol", Tail(in))

\* The places where the method waits for an item.
Reading == {"auth", "auth2", "revprops", "drive", "response"}

ReadEof ==
    /\ call.pc \in Reading /\ in = <<>> /\ ~up
    /\ Leave("eof", in)

\* Nothing is under way and nobody is about to write.
InVain == out = <<>> /\ srv.at \in {"idle", "ack"}

\* read_timeout, and the deadline of write_cmd_failure_early.
TimesOut ==
    /\ up /\ ("timeout" \in Faults \/ InVain)
    /\ \/ call.pc \in Reading \cup {"drain"} /\ in = <<>> /\ Leave("timeout", in)
       \/ call.pc = "aborted" /\ in = <<>> /\ LeaveDropped(call.err, in)
       \/ /\ "timeout" \in Faults
          /\ call.pc = "early" /\ call.left > 0 /\ Leave("timeout", in)

-----------------------------------------------------------------------------
(* The server (external), as the tests play it: it may look at its input   *)
(* between two writes, and must when it has asked for an answer.           *)

Serve(item, next) ==
    /\ up /\ Len(in) < ToClient
    /\ in' = Append(in, item)
    /\ srv' = next
    /\ UNCHANGED <<call, kept, up, delivered>>

SrvCommand ==
    /\ srv.at = "idle" /\ out # <<>> /\ Head(out) = "command"
    /\ out' = Tail(out)
    /\ \/ Serve(Item("fail"), srv)
       \/ Serve(Item("auth"),
                [Quiet EXCEPT !.kind = call.kind, !.rev = 1,
                    !.at = IF call.kind.reports THEN "report"
                           ELSE IF Ranges THEN "revprops" ELSE "edit"])

\* A failure nobody asked for is an unknown command.
SrvUnknownCommand ==
    /\ srv.at = "idle" /\ out # <<>> /\ Head(out) = "part"
    /\ out' = Tail(out)
    /\ \/ /\ srv.nak + 1 < FailureParts
          /\ srv' = [srv EXCEPT !.nak = @ + 1]
          /\ UNCHANGED <<call, kept, up, in, delivered>>
       \/ /\ srv.nak + 1 = FailureParts
          /\ Serve(Item("fail"), Served)

SrvReport ==
    /\ srv.at = "report" /\ out # <<>> /\ Head(out) = "report"
    /\ out' = Tail(out)
    /\ Serve(Item("auth"), [srv EXCEPT !.at = "edit"]) \/ Serve(Item("fail"), Served)

SrvRevProps ==
    /\ srv.at = "revprops"
    /\ UNCHANGED out
    /\ \/ Serve(Item("revprops"), [srv EXCEPT !.at = "edit", !.sent = 0])
       \/ Serve(Item("fail"), Served)

SrvEvent ==
    /\ srv.at = "edit"
    /\ UNCHANGED out
    /\ \/ /\ srv.sent < NEvents
          /\ Serve(Event(srv.rev, srv.sent + 1), [srv EXCEPT !.sent = @ + 1])
       \/ srv.sent = 0 /\ srv.kind # ReplayRange /\ Serve(Item("fail"), Served)

\* What follows a drive of which the last word is out or answered.
Over(s) ==
    IF s.rev < s.kind.revs /\ ~s.failed
    THEN [s EXCEPT !.at = "revprops", !.rev = @ + 1, !.sent = 0]
    ELSE [s EXCEPT !.at = "respond"]

SrvCloses ==
    /\ srv.at = "edit" /\ srv.sent = NEvents
    /\ UNCHANGED out
    /\ \/ Serve(Item("close-edit"), [srv EXCEPT !.at = "ack"])
       \/ /\ ~srv.kind.reports \/ "rogue" \in Faults
          /\ Serve(Item("finish-replay"),
                   [Over(srv) EXCEPT !.rogue = srv.kind.reports])

\* An error of its own, or input while it edits, makes the server abort.
SrvAborts ==
    /\ srv.at = "edit"
    /\ UNCHANGED out
    /\ Serve(Item("abort-edit"), [srv EXCEPT !.at = "ack", !.failed = TRUE])

\* The answer to close-edit or abort-edit.  After a failed close-edit the
\* server aborts, or goes straight to its response.
SrvAck ==
    /\ srv.at = "ack" /\ out # <<>>
    /\ out' = Tail(out)
    /\ UNCHANGED <<call, kept, up, in, delivered>>
    /\ \/ Head(out) = "success" /\ srv' = Over(srv)
       \/ /\ Head(out) = "part" /\ srv.nak + 1 < FailureParts
          /\ srv' = [srv EXCEPT !.nak = @ + 1]
       \/ /\ Head(out) = "part" /\ srv.nak + 1 = FailureParts
          /\ \/ srv' = [srv EXCEPT !.at = "respond"]
             \/ ~srv.failed /\ srv' = [srv EXCEPT !.at = "abort", !.failed = TRUE]

SrvAbortAfterClose ==
    /\ srv.at = "abort"
    /\ UNCHANGED out
    /\ Serve(Item("abort-edit"), [srv EXCEPT !.at = "respond"])

SrvResponds ==
    /\ srv.at = "respond"
    /\ UNCHANGED out
    /\ Serve(Item(IF srv.failed THEN "fail" ELSE "success"), Served)

\* The transport dies, with what was in it.
Lose ==
    /\ "eof" \in Faults /\ up /\ kept
    /\ up' = FALSE /\ out' = <<>> /\ srv' = Quiet
    /\ \E k \in 0 .. Len(in) : in' = SubSeq(in, 1, k)
    /\ UNCHANGED <<call, kept, delivered>>

-----------------------------------------------------------------------------

Init ==
    /\ call = Idle /\ kept = TRUE /\ up = TRUE /\ out = <<>> /\ in = <<>>
    /\ srv = Quiet /\ delivered = <<>>

Client ==
    \/ RefuseReport \/ SendCommand \/ SendReport \/ ReadAuth \/ ReadRevProps
    \/ ReadEvent \/ ReadFailure \/ ReadClose \/ WriteAck \/ ReadFinishReplay
    \/ WriteFailure \/ FailureWritten \/ Drain \/ ReadAborted \/ ReadResponse
    \/ ReadEof

Server ==
    \/ SrvCommand \/ SrvUnknownCommand \/ SrvReport \/ SrvRevProps \/ SrvEvent
    \/ SrvCloses \/ SrvAborts \/ SrvAck \/ SrvAbortAfterClose \/ SrvResponds

Next ==
    \/ \E kind \in Kinds, report \in {"good", "badpath", "abortreport"} :
          Start(kind, report)
    \/ Client \/ Server \/ TimesOut \/ Lose

Spec == Init /\ [][Next]_vars

\* tokio polls the method while it can go on; the server keeps serving; a
\* wait that is in vain ends by its timeout.
GivesUp == InVain /\ TimesOut
FairSpec == Spec /\ WF_vars(Client) /\ WF_vars(Server) /\ WF_vars(GivesUp)

-----------------------------------------------------------------------------
(* Properties.                                                             *)

Words == {"auth", "fail", "success", "revprops", "event", "close-edit",
          "abort-edit", "finish-replay"}
Results == {"none", "ok", "eof", "timeout", "protocol", "server", "other",
            "finish"}

Items == [word : Words, rev : 0 .. NRevs, n : 0 .. NEvents]
Events == [word : {"event"}, rev : 1 .. NRevs, n : 1 .. NEvents]
Tokens == {"command", "report", "success", "part"}
CallType ==
    [no : 0 .. MaxCalls, kind : Methods, report : {"good", "badpath", "abortreport"},
     pc : Reading \cup {"idle", "start", "report", "ack", "early", "drain", "aborted"},
     rev : 1 .. NRevs + 1, err : Results, drain : BOOLEAN, left : 0 .. FailureParts,
     done : BOOLEAN, result : Results]
ServerType ==
    [at : {"idle", "report", "revprops", "edit", "ack", "abort", "respond"},
     kind : Methods, rev : 0 .. NRevs, sent : 0 .. NEvents, nak : 0 .. FailureParts - 1,
     failed : BOOLEAN, rogue : BOOLEAN]

\* The shape of the state.
TypeOK ==
    /\ call \in CallType /\ kept \in BOOLEAN /\ up \in BOOLEAN
    /\ out \in Seq(Tokens) /\ Len(out) <= ToServer
    /\ in \in Seq(Items) /\ Len(in) <= ToClient
    /\ srv \in ServerType /\ delivered \in Seq(Events)

\* A connection that is kept when a method returns is at the start of a new
\* command: nothing is under way in either direction and the server is not in
\* the middle of a report or a drive (`consumes the editor drive').
AlwaysInSync ==
    call.pc = "idle" /\ kept /\ up => out = <<>> /\ in = <<>> /\ srv.at = "idle"

\* The same after every call but the two of Spoilt.
InSync == ~Spoilt => AlwaysInSync

\* The handler sees the events in the order they were sent, none twice and
\* none left out in between, whatever it and the server do about failures.
InOrder ==
    \A i \in DOMAIN delivered :
       delivered[i] = Event(((i - 1) \div NEvents) + 1, ((i - 1) % NEvents) + 1)

\* Ok means that the handler has accepted every event of every revision and
\* that it has refused nothing.
OkIsComplete ==
    call.result = "ok" =>
       /\ call.err = "none"
       /\ Len(delivered) = NEvents * call.kind.revs

\* What the handler has seen, and what the caller is told of it, is the drive.
Delivery == TypeOK /\ InOrder /\ OkIsComplete

\* The client drains a drive only while the server still has something to say
\* about it: otherwise the error of the handler is lost to a read timeout
\* (update_returns_handler_error_even_if_server_succeeds).
NoVainDrain ==
    call.pc = "drain" /\ in = <<>> /\ up => ~InVain

\* The same where only abort-edit can end a drive: an abort that was read while
\* the failure was being written is remembered.
ReportsDrainOnce == call.kind.reports /\ ~srv.rogue => NoVainDrain

\* A method never ends in the middle of a drive because both sides wait for
\* each other: without timeouts, every method returns.
DriveReturns == call.pc # "idle" ~> call.pc = "idle"
==============================================================================
