------------------------------ MODULE LockMany ------------------------------
(***************************************************************************)
(* lock_many and unlock_many: a batch of targets in one command whose      *)
(* answers come one by one, and the single commands they fall back to on a *)
(* server that does not know the batch.  The connection may be lost or     *)
(* time out at any point; the server may answer too little or too much.    *)
(*                                                                         *)
(* Items that look alike on the wire are one kind here: an answer to a     *)
(* target, the response that ends a batch and the response of a single     *)
(* command are all `success' or `failure'; only an answer that stands for  *)
(* a target (i > 0) carries the one parameter the code asks for.           *)
(***************************************************************************)
EXTENDS Naturals, Sequences

CONSTANTS
    Batches,  \* the target lists the caller may pass
    BadPath,  \* a path that does not validate
    Servers,  \* what a server may make of a batch, a subset of ServerKinds
    Width,    \* bound on the targets of a call
    MaxCalls, \* bound on the calls made in a behaviour
    Faults    \* what may go wrong, a subset of FaultKinds

ServerKinds == {"knows", "unknown", "unknownAtOnce"}
FaultKinds == {"eof", "timeout", "noconnect", "short", "long", "garbled"}

ASSUME ServerAssumption == Servers \subseteq ServerKinds /\ Servers # {}
ASSUME FaultAssumption == Faults \subseteq FaultKinds
ASSUME SizeAssumption == Width \in Nat /\ MaxCalls \in Nat

Targets == UNION {{b[i] : i \in DOMAIN b} : b \in Batches}
ASSUME BatchAssumption == \A b \in Batches : b \in Seq(Targets) /\ Len(b) <= Width

VARIABLES
    server,  \* what the server makes of lock-many and unlock-many
    conn,    \* RaSvnSession::conn with both directions of the wire
    call,    \* the call in progress
    outcome, \* what each call returned
    acts,    \* how often the server has acted on target i of call c
    held,    \* the <<c, i>> on which it acted with success
    orphans  \* the <<c, i>> still to be acted on behind lost connections

vars == <<server, conn, call, outcome, acts, held, orphans>>

CallIds == 1 .. MaxCalls
Indices == 1 .. Width

Item(kind, i) == [kind |-> kind, call |-> 0, i |-> i]
NoConn == [some |-> FALSE, up |-> FALSE, authed |-> FALSE, next |-> 1,
           toServer |-> <<>>, toClient |-> <<>>]
Fresh == [NoConn EXCEPT !.some = TRUE, !.up = TRUE]
Idle == [no |-> 0, pc |-> "idle", kind |-> "lock", targets |-> <<>>, out |-> <<>>]

\* The targets a request stands for, and those still to be acted on.
Todo(req, from) ==
    IF req.many THEN {<<req.call, i>> : i \in from .. Len(req.targets)}
    ELSE {<<req.call, req.i>>}
Pending(c) ==
    UNION {Todo(c.toServer[k], IF k = 1 THEN c.next ELSE 1) : k \in DOMAIN c.toServer}

-----------------------------------------------------------------------------
(* How a call, or one target of it, ends.                                  *)

\* session.rs, should_drop_connection.
ShouldDrop(why) == why \in {"eof", "timeout", "protocol"}

\* self.conn = None on such an error; the server may go on by itself.
KeepOrDrop(c, why) ==
    IF ShouldDrop(why)
    THEN conn' = NoConn /\ orphans' = orphans \cup Pending(c)
    ELSE conn' = c /\ UNCHANGED orphans

Return(result) ==
    /\ outcome' = [outcome EXCEPT ![call.no] = result]
    /\ call' = [call EXCEPT !.pc = "idle"]
    /\ UNCHANGED <<server, acts, held>>

Ok(out) == [is |-> "ok", out |-> out, why |-> "none"]
Err(why) == [is |-> "err", out |-> <<>>, why |-> why]

\* The outer Err.
FailCall(c, why) == KeepOrDrop(c, why) /\ Return(Err(why))

\* The target that the next entry of the vector is for, in the fallback.
This == Len(call.out) + 1

\* Mutant: the fallback does not move on.
SameTarget(entry) == call.out

Answered(entry) == Append(call.out, entry)

\* One single command has ended: on to the next target.
NextTarget(entry) ==
    /\ call' = [call EXCEPT !.pc = "single", !.out = Answered(entry)]
    /\ UNCHANGED <<server, outcome, acts, held>>

Inner(why) == [ans |-> why, call |-> 0, i |-> 0]

\* An error of lock() or unlock(): the entry of this target.
FailTarget(c, why) == KeepOrDrop(c, why) /\ NextTarget(Inner(why))

InBatch == call.pc \in {"connect", "auth", "answers", "response"}
InSingle == call.pc \in {"single", "singleAuth", "singleResponse"}

\* An error while waiting for the server.
Fail(c, why) ==
    \/ InBatch /\ FailCall(c, why)
    \/ InSingle /\ FailTarget(c, why)

-----------------------------------------------------------------------------
(* The batch.                                                              *)

\* lock_many and unlock_many return at once when there is nothing to do.
StartCall(kind, targets) ==
    /\ call.pc = "idle" /\ call.no < MaxCalls
    /\ call' = [Idle EXCEPT !.no = call.no + 1, !.kind = kind, !.targets = targets,
                   !.pc = IF targets = <<>> THEN "idle" ELSE "connect"]
    /\ outcome' = [outcome EXCEPT ![call.no + 1] =
                     IF targets = <<>> THEN Ok(<<>>) ELSE [Err("none") EXCEPT !.is = "open"]]
    /\ UNCHANGED <<server, conn, acts, held, orphans>>

\* ensure_connected.
Connect ==
    /\ call.pc \in {"connect", "single"} /\ ~conn.some /\ This <= Len(call.targets)
    /\ conn' = Fresh
    /\ UNCHANGED <<server, call, outcome, acts, held, orphans>>
ConnectFails ==
    /\ call.pc \in {"connect", "single"} /\ ~conn.some /\ This <= Len(call.targets)
    /\ "noconnect" \in Faults /\ Fail(conn, "eof")

Valid(targets) == \A i \in DOMAIN targets : targets[i] # BadPath

\* Every path is validated before a byte is written.
RefusePath ==
    /\ call.pc = "connect" /\ conn.some /\ ~Valid(call.targets)
    /\ FailCall(conn, "path")

\* send_command; what is written to a dead connection is lost.
Write(req, pc) ==
    /\ conn' = IF conn.up THEN [conn EXCEPT !.toServer = Append(@, req)] ELSE conn
    /\ call' = [call EXCEPT !.pc = pc]
    /\ UNCHANGED <<server, outcome, acts, held, orphans>>

SendBatch ==
    /\ call.pc = "connect" /\ conn.some /\ Valid(call.targets)
    /\ Write([many |-> TRUE, call |-> call.no, i |-> 0, targets |-> call.targets], "auth")

Rest == [conn EXCEPT !.toClient = Tail(@)]
Goto(pc) ==
    /\ conn' = Rest /\ call' = [call EXCEPT !.pc = pc]
    /\ UNCHANGED <<server, outcome, acts, held, orphans>>

\* handle_auth_request.
ReadAuth(item) ==
    \/ call.pc = "auth" /\ item.kind = "auth" /\ Goto("answers")
    \/ call.pc = "singleAuth" /\ item.kind = "auth" /\ Goto("singleResponse")
    \/ /\ call.pc \in {"auth", "singleAuth"}
       /\ item.kind # "auth"
       /\ Fail(Rest, IF item.kind \in {"failure", "unknown"} THEN "server" ELSE "protocol")

Room == Len(call.out) < Len(call.targets)

\* The entry is pushed; one entry more than there are targets is an error.
Push(entry) ==
    IF Room
    THEN /\ conn' = Rest
         /\ call' = [call EXCEPT !.out = Append(@, entry)]
         /\ UNCHANGED <<server, outcome, acts, held, orphans>>
    ELSE FailCall(Rest, "protocol")

Entry(item, ans) == [ans |-> ans, call |-> item.call, i |-> item.i]

\* A lockdesc that does not parse is the entry of its target ...
ReadLockdesc(item) ==
    \/ item.kind = "success" /\ item.i > 0 /\ Push(Entry(item, "ok"))
    \/ item.kind = "garbled" /\ Push(Inner("protocol"))

\* ... a path that is no string fails the call.
ReadPath(item) ==
    \/ item.kind = "success" /\ item.i > 0 /\ Push(Entry(item, "ok"))
    \/ item.kind = "garbled" /\ FailCall(Rest, "protocol")

\* `success' must come with exactly one parameter.
ReadSuccess(item) ==
    \/ call.kind = "lock" /\ ReadLockdesc(item)
    \/ call.kind = "unlock" /\ ReadPath(item)
    \/ item.kind \in {"success", "auth"} /\ item.i = 0 /\ FailCall(Rest, "protocol")

\* Mutant: any failure of the first target starts the fallback.
FirstFails(item) == call.out = <<>>

\* The first answer says that the server does not know the command.
Unsupported(item) == item.kind = "unknown" /\ call.out = <<>>

ReadFailure(item) ==
    /\ item.kind \in {"failure", "unknown"}
    /\ \/ Unsupported(item) /\ Goto("single")
       \/ ~Unsupported(item) /\ Push(Entry(item, "refused"))

\* Mutant: `done' ends the call, and the response stays on the wire.
AfterDone == "single"

EndOfAnswers == "response"
ReadDone(item) == item.kind = "done" /\ Goto(EndOfAnswers)

AllAnswered == Len(call.out) = Len(call.targets)

\* read_command_response, ensure_success, one result per target.
ReadResponse(item) ==
    \/ /\ item.kind \in {"success", "garbled", "auth"} /\ AllAnswered
       /\ conn' = Rest /\ UNCHANGED orphans /\ Return(Ok(call.out))
    \/ item.kind \in {"failure", "unknown"} /\ FailCall(Rest, "server")
    \/ /\ item.kind \notin {"failure", "unknown"}
       /\ item.kind = "done" \/ ~AllAnswered
       /\ FailCall(Rest, "protocol")

-----------------------------------------------------------------------------
(* The fallback: lock() or unlock() for one target after the other.        *)

SendSingle ==
    /\ call.pc = "single" /\ conn.some /\ This <= Len(call.targets)
    /\ Write([many |-> FALSE, call |-> call.no, i |-> This,
              targets |-> <<call.targets[This]>>], "singleAuth")

\* The vector is complete, whatever became of each target.
FallbackDone ==
    /\ call.pc = "single" /\ This > Len(call.targets)
    /\ UNCHANGED <<conn, orphans>> /\ Return(Ok(call.out))

\* Mutant: the response is not looked at.
AnyResponse(item) == TRUE

\* lock() wants a lockdesc, unlock() takes any success.
GoodForOne(item) ==
    \/ call.kind = "lock" /\ item.kind = "success" /\ item.i > 0
    \/ call.kind = "unlock" /\ item.kind \in {"success", "garbled", "auth"}

ReadSingle(item) ==
    \/ /\ GoodForOne(item)
       /\ conn' = Rest /\ UNCHANGED orphans /\ NextTarget(Entry(item, "ok"))
    \/ /\ item.kind \in {"failure", "unknown"}
       /\ conn' = Rest /\ UNCHANGED orphans /\ NextTarget(Entry(item, "refused"))
    \/ /\ ~GoodForOne(item) /\ item.kind \notin {"failure", "unknown"}
       /\ FailTarget(Rest, "protocol")

Reading == call.pc \in {"auth", "answers", "response", "singleAuth", "singleResponse"}

Read ==
    /\ Reading /\ conn.toClient # <<>>
    /\ LET item == Head(conn.toClient) IN
       \/ ReadAuth(item)
       \/ call.pc = "answers" /\ (ReadSuccess(item) \/ ReadFailure(item) \/ ReadDone(item))
       \/ call.pc = "response" /\ ReadResponse(item)
       \/ call.pc = "singleResponse" /\ ReadSingle(item)

ReadEof == Reading /\ conn.toClient = <<>> /\ ~conn.up /\ Fail(conn, "eof")
ReadTimeout ==
    /\ "timeout" \in Faults /\ Reading /\ conn.toClient = <<>> /\ conn.up
    /\ Fail(conn, "timeout")

-----------------------------------------------------------------------------
(* The server.                                                             *)

Request == Head(conn.toServer)
Serving == conn.up /\ conn.toServer # <<>>
Says(items) == [conn EXCEPT !.toClient = @ \o items]
Finishes(items) ==
    [Says(items) EXCEPT !.toServer = Tail(@), !.authed = FALSE, !.next = 1]
Reply(kind, i) == [Item(kind, i) EXCEPT !.call = Request.call]

ServerAuth ==
    /\ Serving /\ ~conn.authed /\ ~(Request.many /\ server = "unknownAtOnce")
    /\ conn' = [Says(<<Reply("auth", 0)>>) EXCEPT !.authed = TRUE]
    /\ UNCHANGED <<server, call, outcome, acts, held, orphans>>

ServerRejects ==
    /\ Serving /\ Request.many
    /\ \/ server = "unknown" /\ conn.authed
       \/ server = "unknownAtOnce"
    /\ conn' = Finishes(<<Reply("unknown", 0)>>)
    /\ UNCHANGED <<server, call, outcome, acts, held, orphans>>

\* It acts on a target, with success or not.
ActsOn(c, i, well) ==
    /\ acts' = [acts EXCEPT ![c][i] = @ + 1]
    /\ held' = IF well THEN held \cup {<<c, i>>} ELSE held
    /\ UNCHANGED <<server, call, outcome, orphans>>

Verdicts == {"success", "failure"} \cup (Faults \cap {"garbled"})

ServerActs ==
    /\ Serving /\ conn.authed /\ Request.many /\ server = "knows"
    /\ conn.next <= Len(Request.targets)
    /\ \E kind \in Verdicts :
         /\ ActsOn(Request.call, conn.next, kind # "failure")
         /\ conn' = [Says(<<Reply(kind, conn.next)>>) EXCEPT !.next = @ + 1]

\* The batch ends: in full, or cut short, or with an answer nobody asked for.
ServerEnds ==
    /\ Serving /\ conn.authed /\ Request.many /\ server = "knows"
    /\ conn.next > Len(Request.targets) \/ "short" \in Faults
    /\ \E kind \in {"success", "failure"}, extra \in {<<>>, <<Reply("success", 1)>>} :
         /\ extra # <<>> => "long" \in Faults /\ conn.next > Len(Request.targets)
         /\ conn' = Finishes(extra \o <<Reply("done", 0), Reply(kind, 0)>>)
    /\ UNCHANGED <<server, call, outcome, acts, held, orphans>>

ServerActsOnOne ==
    /\ Serving /\ conn.authed /\ ~Request.many
    /\ \E kind \in Verdicts :
         /\ ActsOn(Request.call, Request.i, kind # "failure")
         /\ conn' = Finishes(<<Reply(kind, Request.i)>>)

\* The transport dies: the end of what was said is lost, what was asked for
\* may still be done.
Lose ==
    /\ "eof" \in Faults /\ conn.up
    /\ \E k \in 0 .. Len(conn.toClient) :
         conn' = [conn EXCEPT !.up = FALSE, !.toServer = <<>>,
                              !.toClient = SubSeq(@, 1, k)]
    /\ orphans' = orphans \cup Pending(conn)
    /\ UNCHANGED <<server, call, outcome, acts, held>>

LateAct ==
    \E p \in orphans, well \in BOOLEAN :
       /\ orphans' = orphans \ {p}
       /\ acts' = [acts EXCEPT ![p[1]][p[2]] = @ + 1]
       /\ held' = IF well THEN held \cup {p} ELSE held
       /\ UNCHANGED <<server, conn, call, outcome>>

-----------------------------------------------------------------------------

Init ==
    /\ server \in Servers
    /\ conn = Fresh /\ call = Idle
    /\ outcome = [c \in CallIds |-> [Err("none") EXCEPT !.is = "none"]]
    /\ acts = [c \in CallIds |-> [i \in Indices |-> 0]]
    /\ held = {} /\ orphans = {}

Progress ==
    \/ Connect \/ ConnectFails \/ RefusePath \/ SendBatch \/ SendSingle
    \/ FallbackDone \/ Read \/ ReadEof \/ ReadTimeout

ServerStep == ServerAuth \/ ServerRejects \/ ServerActs \/ ServerEnds \/ ServerActsOnOne

Next ==
    \/ \E kind \in {"lock", "unlock"}, targets \in Batches : StartCall(kind, targets)
    \/ Progress \/ ServerStep \/ Lose \/ LateAct

\* The client is polled, and every wait in it has a timeout.
Spec == Init /\ [][Next]_vars /\ WF_vars(Progress)

-----------------------------------------------------------------------------
(* Properties.                                                             *)

Items == [kind : {"auth", "success", "failure", "garbled", "unknown", "done"},
          call : CallIds, i : 0 .. Width]
Requests == [many : BOOLEAN, call : CallIds, i : 0 .. Width, targets : Seq(Targets)]
InnerResults == [ans : {"ok", "refused", "eof", "timeout", "protocol", "server"},
                 call : {0} \cup CallIds, i : 0 .. Width]
Results == [is : {"none", "open", "ok", "err"}, out : Seq(InnerResults),
            why : {"none", "eof", "timeout", "protocol", "server", "path"}]
Conns == [some : BOOLEAN, up : BOOLEAN, authed : BOOLEAN, next : 1 .. Width + 1,
          toServer : Seq(Requests), toClient : Seq(Items)]
Calls == [no : 0 .. MaxCalls,
          pc : {"idle", "connect", "auth", "answers", "response",
                "single", "singleAuth", "singleResponse"},
          kind : {"lock", "unlock"}, targets : Seq(Targets), out : Seq(InnerResults)]

\* The shape of the state.
TypeOK ==
    /\ server \in Servers /\ conn \in Conns
    /\ call \in Calls /\ Len(call.out) <= Len(call.targets) /\ Len(call.targets) <= Width
    /\ outcome \in [CallIds -> Results]
    /\ acts \in [CallIds -> [Indices -> Nat]]
    /\ held \subseteq CallIds \X Indices /\ orphans \subseteq CallIds \X Indices

Finished(c) == outcome[c].is = "ok"
Entries(c) == DOMAIN outcome[c].out

\* `each inner Result corresponds to one target': the vector is as long as
\* the list of targets, and the k-th entry is what the server said of the
\* k-th target of this call, or the error that kept it from saying so.
EntryPerTarget ==
    /\ \A c \in CallIds : Finished(c) => \A k \in Entries(c) :
         outcome[c].out[k].ans \in {"ok", "refused"}
            => outcome[c].out[k].call = c /\ outcome[c].out[k].i = k
    /\ call.no > 0 /\ Finished(call.no)
         => Len(outcome[call.no].out) = Len(call.targets)

\* An entry that is Ok says that the server has the lock, or has released it.
OkIsDone ==
    \A c \in CallIds : Finished(c) => \A k \in Entries(c) :
        outcome[c].out[k].ans = "ok" => <<c, k>> \in held

\* The vector that a call returns is true.
EntriesHold == TypeOK /\ EntryPerTarget /\ OkIsDone

\* The server acts on each target of a call at most once: the fallback is not
\* taken once the batch has begun, and nothing is written twice, whatever is
\* lost or late.
OncePerTarget == \A c \in CallIds, i \in Indices : acts[c][i] <= 1

\* A call that has returned leaves nothing on its connection that the next
\* one could read as its own answer.
QuietAfterCall ==
    call.pc = "idle" /\ conn.up => conn.toServer = <<>> /\ conn.toClient = <<>>

\* Every call returns.
CallReturns == \A c \in CallIds : outcome[c].is = "open" ~> outcome[c].is # "open"

==============================================================================
