------------------------------ MODULE RaSession ------------------------------
(***************************************************************************)
(* One RaSvnSession: the serial calls its owner makes, the connection it   *)
(* holds (or not), the two directions of the wire and the server at the    *)
(* other end.  Items on the wire carry the number of the call they answer; *)
(* the client never looks at it (ra_svn has no request identifiers), the   *)
(* properties do.                                                          *)
(***************************************************************************)
EXTENDS RaOps, Integers, FiniteSets

CONSTANTS
    Ops,            \* the operations the owner of the session uses
    Urls,           \* repository URLs on the session's host:port
    NoUrl,          \* the URL of a connection that does not exist
    MaxRetries,     \* RaSvnClient::reconnect_retries
    AllowReconnect, \* FALSE for open_session_with_stream
    MaxCalls,       \* bound on the calls made in a behaviour
    NEntries,       \* entries of every stream, chunks of every file
    Faults          \* what may go wrong, a subset of FaultKinds

FaultKinds == {"eof", "timeout", "refuse", "callback", "cancel", "limit"}

ASSUME OpsAssumption == Ops \subseteq OpType /\ Ops # {}
ASSUME UrlAssumption == NoUrl \notin Urls /\ Urls # {}
ASSUME RetryAssumption == MaxRetries \in Nat /\ AllowReconnect \in BOOLEAN
ASSUME BoundAssumption == MaxCalls \in Nat /\ NEntries \in Nat
ASSUME FaultAssumption == Faults \subseteq FaultKinds

VARIABLES
    conn,     \* RaSvnSession::conn with the socket and the server behind it
    baseUrl,  \* RaSvnClient::base_url of the session
    call,     \* the call in progress, its locals and its program counter
    outcome,  \* what each call returned
    writes,   \* the calls whose operation has an effect on the server
    orphans,  \* commands written on connections that are gone
    served    \* commands with an effect that the server has executed

vars == <<conn, baseUrl, call, outcome, writes, orphans, served>>

CallIds == 1 .. MaxCalls
Requests == [call : CallIds, try : Nat, op : Ops, url : Urls]
Items == [kind : {"auth", "ok", "fail", "entry", "done", "chunk", "eod"},
          shape : Positions, call : CallIds, n : 0 .. NEntries]
Errors == {"eof", "timeout", "protocol", "server", "other"}

\* self.conn = None.
NoConn == [some |-> FALSE, up |-> FALSE, authed |-> FALSE, url |-> NoUrl,
           toServer |-> <<>>, toClient |-> <<>>]

\* RaSvnClient::connect: a handshake that announced base_url.
Fresh(url) == [some |-> TRUE, up |-> TRUE, authed |-> FALSE, url |-> url,
               toServer |-> <<>>, toClient |-> <<>>]

Written(c) == {c.toServer[i] : i \in DOMAIN c.toServer}
Effects(reqs) == {r \in reqs : r.op \in Mutating}

-----------------------------------------------------------------------------
(* How an error ends a call.                                               *)

IsRetryable(err) == err = "eof"
ShouldDrop(err) == err \in {"eof", "timeout", "protocol"}

\* The call returns, leaving the session with connection c.
Return(c, status) ==
    /\ conn' = c
    /\ call' = [call EXCEPT !.pc = "idle"]
    /\ outcome' = [outcome EXCEPT ![call.no] = status]

\* Mutants: one retry too many, one too few.
MayRetryOnceMore(err) ==
    /\ AllowReconnect /\ call.op.retry /\ IsRetryable(err)
    /\ call.attempt <= MaxRetries
MayRetryOnceLess(err) ==
    /\ AllowReconnect /\ call.op.retry /\ IsRetryable(err)
    /\ call.attempt + 1 < MaxRetries

\* The guard of the retry arm of with_retry and log_each_retrying.
MayRetry(err) ==
    /\ AllowReconnect /\ call.op.retry /\ IsRetryable(err)
    /\ call.attempt < MaxRetries

\* Mutant: the attempt is not counted.
SameAttempt == call.attempt

NextAttempt == call.attempt + 1

\* self.conn = None: whatever was written may still reach the server.
Abandon(c) == orphans' = orphans \cup Effects(Written(c))

\* The operation failed with err on connection c and starts again without one.
StartOver(c, err) ==
    /\ MayRetry(err)
    /\ Abandon(c)
    /\ conn' = NoConn
    /\ call' = [call EXCEPT !.pc = "connect", !.dials = 0, !.attempt = NextAttempt]
    /\ UNCHANGED outcome

\* It returns err; a method that does not retry may drop the connection.
GiveUp(c, err) ==
    /\ ~MayRetry(err)
    /\ IF call.op.drops /\ ShouldDrop(err)
       THEN Abandon(c) /\ Return(NoConn, err)
       ELSE UNCHANGED orphans /\ Return(c, err)

\* The operation failed with err while the session held connection c.
Fail(c, err) ==
    /\ StartOver(c, err) \/ GiveUp(c, err)
    /\ UNCHANGED <<baseUrl, writes, served>>

\* Mutant: base_url stays behind.
UrlNeverMoves == baseUrl

\* Only reparent moves the URL the session believes in.
UrlAfterOk == IF call.op.moves THEN call.url ELSE baseUrl

\* The last thing to read has been read: the method returns Ok.
Succeed(c, item) ==
    /\ conn' = c
    /\ call' = [call EXCEPT !.pc = "idle", !.from = @ \cup {item.call}]
    /\ outcome' = [outcome EXCEPT ![call.no] = "ok"]
    /\ baseUrl' = UrlAfterOk
    /\ UNCHANGED <<writes, orphans, served>>

-----------------------------------------------------------------------------
(* The owner of the session.                                               *)

Idle == [no |-> 0, pc |-> "idle", op |-> CHOOSE op \in Ops : TRUE,
         url |-> CHOOSE u \in Urls : TRUE, limit |-> NEntries, pos |-> 1,
         attempt |-> 0, dials |-> 0, sends |-> 0, from |-> {}, got |-> <<>>,
         seen |-> {}]

\* A method is called.  Only reparent names another URL, only get-file has a
\* size limit.
StartCall(op, url, limit) ==
    /\ call.pc = "idle" /\ call.no < MaxCalls
    /\ op.moves \/ url = baseUrl
    /\ limit = NEntries \/ ("limit" \in Faults /\ op = GetFile)
    /\ call' = [Idle EXCEPT !.no = call.no + 1, !.pc = "connect", !.op = op,
                            !.url = url, !.limit = limit]
    /\ outcome' = [outcome EXCEPT ![call.no + 1] = "open"]
    /\ writes' = IF op \in Mutating THEN writes \cup {call.no + 1} ELSE writes
    /\ UNCHANGED <<conn, baseUrl, orphans, served>>

\* The owner drops the future of the method at an await.
Cancel ==
    /\ "cancel" \in Faults
    /\ call.pc \in {"connect", "send", "read"}
    /\ Return(conn, "cancelled")
    /\ UNCHANGED <<baseUrl, writes, orphans, served>>

-----------------------------------------------------------------------------
(* The session.                                                            *)

AlreadyConnected ==
    /\ call.pc = "connect" /\ conn.some
    /\ call' = [call EXCEPT !.pc = "send"]
    /\ UNCHANGED <<conn, baseUrl, outcome, writes, orphans, served>>

Reconnect ==
    /\ call.pc = "connect" /\ ~conn.some /\ AllowReconnect
    /\ conn' = Fresh(baseUrl)
    /\ call' = [call EXCEPT !.pc = "send"]
    /\ UNCHANGED <<baseUrl, outcome, writes, orphans, served>>

\* connect() failed, and is repeated by reconnect() itself ...
DialAgain ==
    /\ AllowReconnect /\ "eof" \in Faults /\ call.dials < MaxRetries
    /\ call' = [call EXCEPT !.dials = @ + 1]
    /\ UNCHANGED <<conn, baseUrl, outcome, writes, orphans, served>>

\* ... or its last error leaves the method, except that log_each_retrying
\* treats it like any other error of log_each.
NoDial(err) ==
    /\ \/ ~AllowReconnect /\ err = "protocol"
       \/ AllowReconnect /\ "eof" \in Faults /\ err = "eof" /\ call.dials >= MaxRetries
       \/ AllowReconnect /\ "timeout" \in Faults /\ err = "timeout"
       \/ AllowReconnect /\ "refuse" \in Faults /\ err \in {"server", "protocol", "other"}
    /\ \/ call.op.dedup /\ Fail(conn, err)
       \/ /\ ~call.op.dedup /\ Return(conn, err)
          /\ UNCHANGED <<baseUrl, writes, orphans, served>>

ReconnectFails ==
    /\ call.pc = "connect" /\ ~conn.some
    /\ DialAgain \/ \E err \in Errors : NoDial(err)

\* send_command.  A method that collects entries starts an empty Vec, one
\* with a callback cannot take back what it has delivered.
Sent(c) ==
    /\ conn' = c
    /\ call' = [call EXCEPT !.pc = "read", !.pos = 1, !.sends = @ + 1,
                            !.from = {},
                            !.got = IF call.op.each THEN @ ELSE <<>>]
    /\ UNCHANGED <<baseUrl, outcome, writes, orphans, served>>

Request == [call |-> call.no, try |-> call.sends + 1, op |-> call.op,
            url |-> call.url]

SendCommand == conn.up /\ Sent([conn EXCEPT !.toServer = Append(@, Request)])

\* A write on a dead connection is lost, or the transport notices.
SendInVain == ~conn.up /\ Sent(conn)
SendFails == ~conn.up /\ Fail(conn, "eof")

\* The write times out before the first byte has left.
SendTimesOut == "timeout" \in Faults /\ Fail(conn, "timeout")

Send == call.pc = "send" /\ (SendCommand \/ SendInVain \/ SendFails \/ SendTimesOut)

\* What the client accepts at a read position, whatever call it answers.
Accepts(position, item) ==
    \/ position = "auth" /\ item.kind = "auth"
    \/ position = "any" /\ item.kind \in {"auth", "ok"}
    \/ position = "stream" /\ item.kind \in {"entry", "done"}
    \/ position = "chunks" /\ item.kind \in {"chunk", "eod"}
    \/ item.kind = "ok" /\ item.shape = position

\* The error a rejected item turns into.  The parameters of a get-file
\* response read as an auth-request offer no known mechanism.
Misread(position, item) ==
    IF item.kind = "fail" /\ position \notin {"stream", "chunks"} THEN "server"
    ELSE IF item.kind = "ok" /\ item.shape = "file" /\ position = "auth"
         THEN "other" ELSE "protocol"

Rest == [conn EXCEPT !.toClient = Tail(@)]
Position == call.op.script[call.pos]

Reject(item) ==
    /\ ~Accepts(Position, item)
    /\ Fail(Rest, Misread(Position, item))

\* Nothing is left to read once item has been accepted.
IsLast(item) == call.pos = Len(call.op.script)

\* There is more to read after item.
ReadOn(item) ==
    /\ conn' = Rest
    /\ call' = [call EXCEPT !.pos = @ + 1, !.from = @ \cup {item.call}]
    /\ UNCHANGED <<baseUrl, outcome, writes, orphans, served>>

\* The item completes the position: go on, or return Ok after the last one.
Complete(item) ==
    /\ Accepts(Position, item)
    /\ item.kind \in {"auth", "ok", "done", "eod"}
    /\ \/ IsLast(item) /\ Succeed(Rest, item)
       \/ ~IsLast(item) /\ ReadOn(item)

\* Mutant: a restarted log is delivered from the start.
NeverSeen(item) == FALSE

\* log_each_retrying has already handed the revision to the callback.
AlreadySeen(item) == call.op.dedup /\ item.n \in call.seen

\* It is kept or delivered ...
Deliver(item) ==
    /\ ~AlreadySeen(item)
    /\ item.kind = "entry" \/ Len(call.got) < call.limit
    /\ conn' = Rest
    /\ call' = [call EXCEPT !.got = Append(@, item.n), !.seen = @ \cup {item.n},
                            !.from = @ \cup {item.call}]
    /\ UNCHANGED <<baseUrl, outcome, writes, orphans, served>>

\* ... or passed over ...
Suppress(item) ==
    /\ AlreadySeen(item)
    /\ conn' = Rest
    /\ UNCHANGED <<baseUrl, call, outcome, writes, orphans, served>>

\* ... or is one too many, or the callback refuses it, with an error of its own or one that
\* drops the connection.
Overflow(item) ==
    item.kind = "chunk" /\ Len(call.got) >= call.limit /\ Fail(Rest, "protocol")
CallbackFails(item) ==
    /\ "callback" \in Faults /\ call.op.each /\ ~AlreadySeen(item)
    /\ \E err \in {"other", "protocol"} : Fail(Rest, err)

\* An entry of a stream, or a chunk of a file.
Take(item) ==
    /\ Accepts(Position, item)
    /\ item.kind \in {"entry", "chunk"}
    /\ Deliver(item) \/ Suppress(item) \/ Overflow(item) \/ CallbackFails(item)

ReadItem ==
    /\ call.pc = "read" /\ conn.toClient # <<>>
    /\ LET item == Head(conn.toClient)
       IN Reject(item) \/ Complete(item) \/ Take(item)

ReadEof ==
    /\ call.pc = "read" /\ conn.toClient = <<>> /\ ~conn.up
    /\ Fail(conn, "eof")

ReadTimeout ==
    /\ "timeout" \in Faults
    /\ call.pc = "read" /\ conn.toClient = <<>> /\ conn.up
    /\ Fail(conn, "timeout")

-----------------------------------------------------------------------------
(* The server, and the network between.                                    *)

Item(req, kind, shape, n) ==
    [kind |-> kind, shape |-> shape, call |-> req.call, n |-> n]

\* A row of items of one kind, and what ends it.
Row(req, each, last) ==
    [k \in 1 .. NEntries + 1 |->
        IF k <= NEntries THEN Item(req, each, "any", k) ELSE Item(req, last, "any", 0)]

Body(req, i) ==
    IF i > Len(req.op.script) THEN <<>>
    ELSE IF req.op.script[i] = "stream" THEN Row(req, "entry", "done")
    ELSE IF req.op.script[i] = "chunks" THEN Row(req, "chunk", "eod")
    ELSE <<Item(req, "ok", req.op.script[i], 0)>>

Answer(req) == Body(req, 2) \o Body(req, 3) \o Body(req, 4)

\* A command that fails still terminates its stream.
Refusal(req) ==
    IF req.op.script[2] = "stream"
    THEN <<Item(req, "done", "any", 0), Item(req, "fail", "any", 0)>>
    ELSE <<Item(req, "fail", "any", 0)>>

ServerAuth ==
    /\ conn.up /\ ~conn.authed /\ conn.toServer # <<>>
    /\ conn' = [conn EXCEPT !.authed = TRUE,
                  !.toClient =
                     Append(@, Item(Head(conn.toServer), "auth", "auth", 0))]
    /\ UNCHANGED <<baseUrl, call, outcome, writes, orphans, served>>

ServerRuns ==
    /\ conn.up /\ conn.authed
    /\ LET req == Head(conn.toServer) IN
       /\ conn' = [conn EXCEPT !.authed = FALSE, !.toServer = Tail(@),
                     !.url = IF req.op.moves THEN req.url ELSE @,
                     !.toClient = @ \o Answer(req)]
       /\ served' = served \cup Effects({req})
    /\ UNCHANGED <<baseUrl, call, outcome, writes, orphans>>

ServerRefuses ==
    /\ conn.up /\ conn.authed
    /\ conn' = [conn EXCEPT !.authed = FALSE, !.toServer = Tail(@),
                  !.toClient = @ \o Refusal(Head(conn.toServer))]
    /\ UNCHANGED <<baseUrl, call, outcome, writes, orphans, served>>

\* The transport dies.  What was written may still be executed, the end of
\* what was answered never arrives.
Lose ==
    /\ "eof" \in Faults /\ conn.up
    /\ \E k \in 0 .. Len(conn.toClient) :
          conn' = [conn EXCEPT !.up = FALSE, !.authed = FALSE,
                     !.toServer = <<>>, !.toClient = SubSeq(@, 1, k)]
    /\ Abandon(conn)
    /\ UNCHANGED <<baseUrl, call, outcome, writes, served>>

\* A command of a connection that is gone is executed after all.
LateRun ==
    /\ \E r \in orphans : orphans' = orphans \ {r} /\ served' = served \cup {r}
    /\ UNCHANGED <<conn, baseUrl, call, outcome, writes>>

-----------------------------------------------------------------------------

Init ==
    /\ \E url \in Urls : conn = Fresh(url) /\ baseUrl = url
    /\ call = Idle
    /\ outcome = [c \in CallIds |-> "none"]
    /\ writes = {} /\ orphans = {} /\ served = {}

\* What the code does by itself once a method has been called.
Progress ==
    \/ AlreadyConnected \/ Reconnect \/ ReconnectFails \/ Send
    \/ ReadItem \/ ReadEof \/ ReadTimeout

Environment ==
    \/ \E op \in Ops, url \in Urls, limit \in 0 .. NEntries :
          StartCall(op, url, limit)
    \/ Cancel
    \/ ServerAuth \/ ServerRuns \/ ServerRefuses \/ Lose \/ LateRun

Next == Progress \/ Environment

Spec == Init /\ [][Next]_vars

\* tokio polls a method that was called, and every wait in it has a timeout.
FairSpec == Spec /\ WF_vars(Progress)

-----------------------------------------------------------------------------
(* Properties.                                                             *)

CallType ==
    [no : 0 .. MaxCalls, pc : {"idle", "connect", "send", "read"}, op : Ops,
     url : Urls, limit : 0 .. NEntries, pos : Nat, attempt : 0 .. MaxRetries,
     dials : 0 .. MaxRetries, sends : Nat, from : SUBSET CallIds,
     got : Seq(0 .. NEntries), seen : SUBSET (0 .. NEntries)]

ConnType ==
    [some : BOOLEAN, up : BOOLEAN, authed : BOOLEAN, url : Urls \cup {NoUrl},
     toServer : Seq(Requests), toClient : Seq(Items)]

Outcomes == Errors \cup {"none", "open", "ok", "cancelled"}

\* The shape of the state.
TypeOK ==
    /\ conn \in ConnType /\ baseUrl \in Urls /\ call \in CallType
    /\ outcome \in [CallIds -> Outcomes] /\ writes \subseteq CallIds
    /\ orphans \subseteq Requests /\ served \subseteq Requests

\* lock, unlock and change-rev-prop are executed at most once per call of the
\* method, whatever is lost, late, cancelled or reconnected in between
\* (session.rs: only with_retry writes a command again).
AtMostOnce ==
    \A r, q \in served : r.call = q.call => r = q

\* A method writes its command once, plus once per configured retry if it
\* retries at all (connect.rs: `0 disables retries (one attempt only)').
BoundedSends ==
    call.sends <= 1 + IF AllowReconnect /\ call.op.retry THEN MaxRetries ELSE 0

\* Ok is returned only for the answer to the very call that was made: what
\* was read since the command was written all answers it.
OwnAnswer ==
    call.no > 0 /\ outcome[call.no] = "ok" => call.from = {call.no}

\* Nothing but lost connections and refusals has gone wrong so far.  A call that
\* timed out, was dropped, or ended at its limit or by its callback may leave
\* the rest of its answer on a connection that is kept.
Disturbing == {"timeout", "cancelled", "other", "protocol"}
Undisturbed == \A c \in CallIds : outcome[c] \notin Disturbing

\* Between calls a live connection is quiet: nothing is on its way in either
\* direction that the next call could take for its own.
QuietWhenIdle ==
    call.pc = "idle" /\ conn.up /\ Undisturbed => conn.toServer = <<>> /\ conn.toClient = <<>>

\* Between calls the session and the server agree on the URL that relative
\* paths are resolved against (reparent moves base_url only on success, and a
\* reconnect announces base_url).
SameUrl == call.pc = "idle" /\ conn.up /\ Undisturbed => conn.url = baseUrl

\* A connection that is kept can be used by the next call.
KeptIsUsable == QuietWhenIdle /\ SameUrl

\* The caller of a streaming method has seen each entry at most once and in
\* order, across the restarts of log_each_retrying; after Ok it has seen all.
EntriesOnce ==
    /\ \A i, j \in DOMAIN call.got : i < j => call.got[i] < call.got[j]
    /\ (/\ call.no > 0 /\ outcome[call.no] = "ok"
        /\ \E i \in DOMAIN call.op.script : call.op.script[i] = "stream")
       => Len(call.got) = NEntries

\* A method that retries gives up on a lost connection only when its retries
\* are used up.
EofIsLast ==
    \A c \in CallIds :
       outcome[c] = "open" /\ outcome'[c] = "eof" /\ call.op.retry /\ AllowReconnect
          => call.attempt = MaxRetries \/ call.dials = MaxRetries
NoEarlyEof == [][EofIsLast]_vars

\* Every method that is called returns.
CallReturns == \A c \in CallIds : outcome[c] = "open" ~> outcome[c] # "open"

-----------------------------------------------------------------------------
(* The session implements AtMostOnceCall.                                  *)

Phase(status) ==
    CASE status = "none" -> "new"
      [] status = "open" -> "open"
      [] status = "ok" -> "ok"
      [] OTHER -> "err"

\* An Ok after a call that may have left its answer behind promises nothing.
Disturbed(c) == \E d \in CallIds : d < c /\ outcome[d] \in Disturbing

Phases == [c \in CallIds |->
             IF outcome[c] = "ok" /\ Disturbed(c) THEN "err" ELSE Phase(outcome[c])]

\* What the server has executed of a call.
RunsOf(c) == {r \in served : r.call = c}
Runs == [c \in CallIds |-> Cardinality(RunsOf(c))]

Abstract == INSTANCE AtMostOnceCall WITH
    Calls <- CallIds, phase <- Phases, writing <- writes, runs <- Runs

\* The session implements calls that run at most once and whose Ok means
\* that the server has executed the command.
ImplementsAtMostOnceCall == Abstract!Spec
==============================================================================
