---------------------------- MODULE RaSessionProofs ----------------------------
(***************************************************************************)
(* Proofs about RaSession, for any operations, URLs, numbers of calls,     *)
(* entries and retries, and whatever goes wrong.                           *)
(***************************************************************************)
EXTENDS RaSession, SequenceTheorems, FiniteSetTheorems, TLAPS

-----------------------------------------------------------------------------
(* The shape of the state.                                                 *)

\* A server that has asked for authentication has a command to answer.
ConnOK(c) == c \in ConnType /\ (c.authed => c.toServer # <<>>)

TypeInv ==
    /\ TypeOK /\ ConnOK(conn)
    /\ call.pc # "idle" => call.no \in CallIds

\* A method that returns leaves a well-formed state.
LEMMA ReturnType ==
    ASSUME TypeInv, call.pc # "idle", NEW c, ConnOK(c), NEW status \in Outcomes,
           Return(c, status)
    PROVE  /\ ConnOK(conn') /\ call' \in CallType /\ call'.pc = "idle"
           /\ outcome' \in [CallIds -> Outcomes]
BY DEF TypeInv, TypeOK, Return, CallType

\* What was written on a connection are requests.
LEMMA WrittenType ==
    ASSUME NEW c, ConnOK(c)
    PROVE  Effects(Written(c)) \subseteq Requests
BY DEF ConnOK, ConnType, Written, Effects

\* An error leaves a well-formed state, whether the method retries or returns.
LEMMA FailType ==
    ASSUME TypeInv, call.pc # "idle", NEW c, ConnOK(c), NEW err \in Errors, Fail(c, err)
    PROVE  TypeInv'
<1>1. /\ baseUrl' \in Urls /\ writes' \subseteq CallIds /\ served' \subseteq Requests
  BY DEF Fail, TypeInv, TypeOK
<1>2. err \in Outcomes
  BY DEF Outcomes
<1>3. ConnOK(NoConn)
  BY DEF ConnOK, ConnType, NoConn
<1>4. CASE StartOver(c, err)
  <2>1. /\ call' = [call EXCEPT !.pc = "connect", !.dials = 0, !.attempt = NextAttempt]
        /\ MayRetry(err) /\ conn' = NoConn /\ outcome' = outcome /\ Abandon(c)
    BY <1>4, Zenon DEF StartOver
  <2>2. NextAttempt \in 0 .. MaxRetries
    BY <2>1, RetryAssumption DEF MayRetry, NextAttempt, TypeInv, TypeOK, CallType
  <2>3. call' \in CallType
    <3>1. call \in CallType
      BY DEF TypeInv, TypeOK
    <3>2. "connect" \in {"idle", "connect", "send", "read"} /\ 0 \in 0 .. MaxRetries
      BY RetryAssumption
    <3> HIDE DEF NextAttempt
    <3> QED
      BY <2>1, <2>2, <3>1, <3>2 DEF CallType
  <2>4. call'.no = call.no
    BY <2>1 DEF TypeInv, TypeOK, CallType
  <2>5. orphans' \subseteq Requests
    BY <2>1, WrittenType DEF Abandon, TypeInv, TypeOK
  <2> QED
    BY <1>1, <1>3, <2>1, <2>3, <2>4, <2>5 DEF TypeInv, TypeOK, ConnOK
<1>5. CASE GiveUp(c, err)
  <2>1. Return(NoConn, err) \/ Return(c, err)
    BY <1>5 DEF GiveUp
  <2>2. /\ ConnOK(conn') /\ call' \in CallType /\ call'.pc = "idle"
        /\ outcome' \in [CallIds -> Outcomes]
    BY <1>2, <1>3, <2>1, ReturnType
  <2>3. orphans' \subseteq Requests
    BY <1>5, WrittenType DEF GiveUp, Abandon, TypeInv, TypeOK
  <2> QED
    BY <1>1, <2>2, <2>3 DEF TypeInv, TypeOK, ConnOK
<1> QED
  BY <1>4, <1>5 DEF Fail

\* One item of an answer.
LEMMA ItemType ==
    ASSUME NEW req \in Requests, NEW shape \in Positions, NEW n \in 0 .. NEntries,
           NEW kind \in {"auth", "ok", "fail", "entry", "done", "chunk", "eod"}
    PROVE  Item(req, kind, shape, n) \in Items
BY DEF Item, Items, Requests

\* The entries of a stream, or the chunks of a file, and what ends them.
LEMMA RowType ==
    ASSUME NEW req \in Requests, NEW each, NEW last,
           <<each, last>> \in {<<"entry", "done">>, <<"chunk", "eod">>}
    PROVE  Row(req, each, last) \in Seq(Items)
<1>1. "any" \in Positions /\ 0 \in 0 .. NEntries /\ NEntries + 1 \in Nat
  BY BoundAssumption DEF Positions, Shapes
<1>2. Item(req, last, "any", 0) \in Items
  BY <1>1, ItemType
<1>3. \A k \in 1 .. NEntries + 1 : k <= NEntries => Item(req, each, "any", k) \in Items
  <2>1. \A k \in 1 .. NEntries + 1 : k <= NEntries => k \in 0 .. NEntries
    BY BoundAssumption
  <2> QED
    BY <1>1, <2>1, ItemType
<1>4. Row(req, each, last) \in [1 .. NEntries + 1 -> Items]
  BY <1>2, <1>3 DEF Row
<1> QED
  BY <1>1, <1>4, SeqDef

\* A script is a sequence of read positions.
LEMMA ScriptType ==
    ASSUME NEW op \in OpType
    PROVE  op.script \in Seq(Positions)
<1>1. op.script \in Scripts
  BY DEF OpType
<1>2. ASSUME NEW shape \in Shapes PROVE <<"auth", shape>> \in Seq(Positions)
  BY DEF Positions
<1>3. StreamScript \in Seq(Positions) /\ FileScript \in Seq(Positions)
  BY DEF StreamScript, FileScript, Positions, Shapes
<1> QED
  BY <1>1, <1>2, <1>3 DEF Scripts

\* The body of an answer, from any position of the script.
LEMMA BodyType ==
    ASSUME NEW req \in Requests, NEW i \in Nat \ {0}
    PROVE  Body(req, i) \in Seq(Items)
<1>1. CASE i > Len(req.op.script)
  BY <1>1 DEF Body
<1>2. CASE i <= Len(req.op.script)
  <2>1. req.op.script \in Seq(Positions)
    BY ScriptType, OpsAssumption DEF Requests
  <2>2. req.op.script[i] \in Positions
    BY <1>2, <2>1
  <2>3. ~(i > Len(req.op.script))
    BY <1>2, <2>1
  <2>4. Item(req, "ok", req.op.script[i], 0) \in Items
    BY <2>2, ItemType, BoundAssumption
  <2>5. <<Item(req, "ok", req.op.script[i], 0)>> \in Seq(Items)
    BY <2>4
  <2> QED
    BY <2>3, <2>5, RowType DEF Body
<1> QED
  <2>1. req.op.script \in Seq(Positions)
    BY ScriptType, OpsAssumption DEF Requests
  <2> QED
    BY <1>1, <1>2, <2>1

\* What the server writes are items.
LEMMA AnswerType ==
    ASSUME NEW req \in Requests
    PROVE  Answer(req) \in Seq(Items) /\ Refusal(req) \in Seq(Items)
<1>1. Body(req, 2) \in Seq(Items) /\ Body(req, 3) \in Seq(Items) /\ Body(req, 4) \in Seq(Items)
  BY BodyType
<1>2. /\ Item(req, "done", "any", 0) \in Items
      /\ Item(req, "fail", "any", 0) \in Items
  BY ItemType, BoundAssumption DEF Positions, Shapes
<1> QED
  BY <1>1, <1>2 DEF Answer, Refusal

\* The first state is well-formed.
LEMMA TypeInit == Init => TypeInv
<1> SUFFICES ASSUME Init PROVE TypeInv
  OBVIOUS
<1>1. (CHOOSE op \in Ops : TRUE) \in Ops /\ (CHOOSE u \in Urls : TRUE) \in Urls
  BY OpsAssumption, UrlAssumption
<1>2. call \in CallType /\ call.pc = "idle"
  BY <1>1, BoundAssumption, RetryAssumption DEF Init, Idle, CallType
<1>3. ConnOK(conn) /\ baseUrl \in Urls
  BY DEF Init, Fresh, ConnOK, ConnType
<1>4. outcome \in [CallIds -> Outcomes]
  BY DEF Init, Outcomes
<1>5. writes \subseteq CallIds /\ orphans \subseteq Requests /\ served \subseteq Requests
  BY DEF Init
<1> QED
  BY <1>2, <1>3, <1>4, <1>5 DEF TypeInv, TypeOK, ConnOK

\* The locals of a method that starts.
LEMMA StartedCall ==
    ASSUME NEW op, NEW url, NEW limit, StartCall(op, url, limit)
    PROVE  call' = [no |-> call.no + 1, pc |-> "connect", op |-> op, url |-> url,
                    limit |-> limit, pos |-> 1, attempt |-> 0, dials |-> 0,
                    sends |-> 0, from |-> {}, got |-> <<>>, seen |-> {}]
<1>1. call' = [Idle EXCEPT !.no = call.no + 1, !.pc = "connect", !.op = op,
                           !.url = url, !.limit = limit]
  BY Zenon DEF StartCall
<1> QED
  BY <1>1 DEF Idle

\* A method that starts has a number and its arguments.
LEMMA StartCallType ==
    ASSUME TypeInv, NEW op \in Ops, NEW url \in Urls, NEW limit \in 0 .. NEntries,
           StartCall(op, url, limit)
    PROVE  TypeInv'
<1>1. call.no \in 0 .. MaxCalls /\ call.no < MaxCalls
  BY DEF TypeInv, TypeOK, CallType, StartCall
<1>2. call.no + 1 \in CallIds /\ call.no + 1 \in 0 .. MaxCalls
  BY <1>1, BoundAssumption DEF CallIds
<1>3. call' \in CallType /\ call'.no = call.no + 1
  <2>1. 1 \in Nat /\ 0 \in 0 .. MaxRetries /\ <<>> \in Seq(0 .. NEntries)
    BY RetryAssumption
  <2>2. call' = [no |-> call.no + 1, pc |-> "connect", op |-> op, url |-> url,
                 limit |-> limit, pos |-> 1, attempt |-> 0, dials |-> 0, sends |-> 0,
                 from |-> {}, got |-> <<>>, seen |-> {}]
    BY StartedCall
  <2> QED
    BY <1>2, <2>1, <2>2 DEF CallType
<1>4. outcome' \in [CallIds -> Outcomes] /\ writes' \subseteq CallIds
  BY <1>2 DEF StartCall, TypeInv, TypeOK, Outcomes
<1> QED
  BY <1>2, <1>3, <1>4 DEF StartCall, TypeInv, TypeOK, ConnOK

\* Reaching, or failing to reach, a connection.
LEMMA ConnectType ==
    ASSUME TypeInv, AlreadyConnected \/ Reconnect \/ ReconnectFails \/ Cancel
    PROVE  TypeInv'
<1>1. CASE AlreadyConnected
  <2>1. call' \in CallType /\ call'.no = call.no
    BY <1>1 DEF AlreadyConnected, TypeInv, TypeOK, CallType
  <2> QED
    BY <1>1, <2>1 DEF AlreadyConnected, TypeInv, TypeOK, ConnOK
<1>2. CASE Reconnect
  <2>1. call' \in CallType /\ call'.no = call.no
    BY <1>2 DEF Reconnect, TypeInv, TypeOK, CallType
  <2>2. ConnOK(conn')
    BY <1>2 DEF Reconnect, Fresh, ConnOK, ConnType, TypeInv, TypeOK
  <2> QED
    BY <1>2, <2>1, <2>2 DEF Reconnect, TypeInv, TypeOK, ConnOK
<1>3. CASE ReconnectFails
  <2>1. CASE DialAgain
    <3>1. call.dials + 1 \in 0 .. MaxRetries
      BY <2>1, RetryAssumption DEF DialAgain, TypeInv, TypeOK, CallType
    <3>2. call' \in CallType /\ call'.no = call.no
      BY <2>1, <3>1 DEF DialAgain, TypeInv, TypeOK, CallType
    <3> QED
      BY <1>3, <2>1, <3>2 DEF ReconnectFails, DialAgain, TypeInv, TypeOK, ConnOK
  <2>2. ASSUME NEW err \in Errors, NoDial(err) PROVE TypeInv'
    <3>1. CASE Fail(conn, err)
      BY <1>3, <3>1, FailType DEF ReconnectFails, TypeInv
    <3>2. CASE Return(conn, err) /\ UNCHANGED <<baseUrl, writes, orphans, served>>
      <4>1. /\ ConnOK(conn') /\ call' \in CallType /\ call'.pc = "idle"
            /\ outcome' \in [CallIds -> Outcomes]
        BY <1>3, <3>2, ReturnType DEF ReconnectFails, TypeInv, Outcomes
      <4> QED
        BY <3>2, <4>1 DEF TypeInv, TypeOK, ConnOK
    <3> QED
      BY <2>2, <3>1, <3>2 DEF NoDial
  <2> QED
    BY <1>3, <2>1, <2>2 DEF ReconnectFails
<1>4. CASE Cancel
  <2>1. /\ ConnOK(conn') /\ call' \in CallType /\ call'.pc = "idle"
        /\ outcome' \in [CallIds -> Outcomes]
    BY <1>4, ReturnType DEF Cancel, TypeInv, Outcomes
  <2> QED
    BY <1>4, <2>1 DEF Cancel, TypeInv, TypeOK, ConnOK
<1> QED
  BY <1>1, <1>2, <1>3, <1>4

\* A method that is reading has written one command more.
LEMMA SentType ==
    ASSUME TypeInv, call.pc = "send", NEW c, ConnOK(c), Sent(c)
    PROVE  TypeInv'
<1>1. 1 \in Nat /\ call.sends + 1 \in Nat /\ <<>> \in Seq(0 .. NEntries)
  BY DEF TypeInv, TypeOK, CallType
<1>2. call' \in CallType /\ call'.no = call.no
  BY <1>1 DEF Sent, TypeInv, TypeOK, CallType
<1> QED
  BY <1>2 DEF Sent, TypeInv, TypeOK, ConnOK

\* Writing the command.
LEMMA SendType ==
    ASSUME TypeInv, Send
    PROVE  TypeInv'
<1>1. CASE SendCommand
  <2>1. Request \in Requests
    BY DEF Send, Request, Requests, TypeInv, TypeOK, CallType
  <2>2. ConnOK([conn EXCEPT !.toServer = Append(@, Request)])
    <3>1. Append(conn.toServer, Request) \in Seq(Requests) /\ Append(conn.toServer, Request) # <<>>
      BY <2>1 DEF TypeInv, ConnOK, ConnType
    <3> QED
      BY <3>1 DEF TypeInv, ConnOK, ConnType
  <2> QED
    BY <1>1, <2>2, SentType DEF SendCommand, Send
<1>2. CASE SendInVain
  BY <1>2, SentType DEF SendInVain, Send, TypeInv
<1>3. CASE SendFails \/ SendTimesOut
  BY <1>3, FailType DEF SendFails, SendTimesOut, Send, TypeInv, Errors
<1> QED
  BY <1>1, <1>2, <1>3 DEF Send

\* What is left to read after an item.
LEMMA RestType ==
    ASSUME TypeInv, conn.toClient # <<>>
    PROVE  ConnOK(Rest) /\ Head(conn.toClient) \in Items
<1>1. Tail(conn.toClient) \in Seq(Items) /\ Head(conn.toClient) \in Items
  BY DEF TypeInv, ConnOK, ConnType
<1> QED
  BY <1>1 DEF TypeInv, ConnOK, ConnType, Rest

\* Reading an item.
LEMMA ReadItemType ==
    ASSUME TypeInv, ReadItem
    PROVE  TypeInv'
<1> DEFINE item == Head(conn.toClient)
<1>1. ConnOK(Rest) /\ item \in Items /\ call.pc = "read"
  BY RestType DEF ReadItem
<1>2. item.call \in CallIds /\ item.n \in 0 .. NEntries
  BY <1>1 DEF Items
<1>3. CASE Reject(item)
  <2>1. Misread(Position, item) \in Errors
    BY DEF Misread, Errors
  <2> QED
    BY <1>1, <1>3, <2>1, FailType DEF Reject
<1>4. CASE Complete(item)
  <2>1. CASE Succeed(Rest, item)
    <3>1. call' \in CallType /\ call'.no = call.no /\ call'.pc = "idle"
      BY <1>2, <2>1 DEF Succeed, TypeInv, TypeOK, CallType
    <3>2. outcome' \in [CallIds -> Outcomes]
      BY <2>1 DEF Succeed, TypeInv, TypeOK, Outcomes
    <3>3. baseUrl' \in Urls
      BY <2>1 DEF Succeed, UrlAfterOk, TypeInv, TypeOK, CallType
    <3> QED
      BY <1>1, <2>1, <3>1, <3>2, <3>3 DEF Succeed, TypeInv, TypeOK, ConnOK
  <2>2. CASE ReadOn(item)
    <3>1. call.pos + 1 \in Nat
      BY DEF TypeInv, TypeOK, CallType
    <3>2. call' \in CallType /\ call'.no = call.no
      BY <1>2, <2>2, <3>1 DEF ReadOn, TypeInv, TypeOK, CallType
    <3> QED
      BY <1>1, <2>2, <3>2 DEF ReadOn, TypeInv, TypeOK, ConnOK
  <2> QED
    BY <1>4, <2>1, <2>2 DEF Complete
<1>5. CASE Take(item)
  <2>1. CASE Deliver(item)
    <3>1. /\ Append(call.got, item.n) \in Seq(0 .. NEntries)
          /\ call.seen \cup {item.n} \in SUBSET (0 .. NEntries)
          /\ call.from \cup {item.call} \in SUBSET CallIds
      BY <1>2 DEF TypeInv, TypeOK, CallType
    <3>2. call' \in CallType /\ call'.no = call.no
      BY <2>1, <3>1 DEF Deliver, TypeInv, TypeOK, CallType
    <3> QED
      BY <1>1, <2>1, <3>2 DEF Deliver, TypeInv, TypeOK, ConnOK
  <2>2. CASE Suppress(item)
    BY <1>1, <2>2 DEF Suppress, TypeInv, TypeOK, ConnOK
  <2>3. CASE Overflow(item) \/ CallbackFails(item)
    BY <1>1, <2>3, FailType DEF Overflow, CallbackFails, Errors
  <2> QED
    BY <1>5, <2>1, <2>2, <2>3 DEF Take
<1> QED
  BY <1>3, <1>4, <1>5 DEF ReadItem

\* The server asks for authentication, answers or refuses a command.
LEMMA ServerType ==
    ASSUME TypeInv, ServerAuth \/ ServerRuns \/ ServerRefuses
    PROVE  TypeInv'
<1> DEFINE req == Head(conn.toServer)
<1>1. req \in Requests /\ Tail(conn.toServer) \in Seq(Requests)
  BY DEF TypeInv, ConnOK, ConnType, ServerAuth, ServerRuns, ServerRefuses
<1>2. CASE ServerAuth
  <2>1. Item(req, "auth", "auth", 0) \in Items
    BY <1>1, ItemType, BoundAssumption DEF Positions, Shapes
  <2>2. Append(conn.toClient, Item(req, "auth", "auth", 0)) \in Seq(Items)
    BY <2>1 DEF TypeInv, ConnOK, ConnType
  <2>3. ConnOK(conn')
    BY <1>2, <2>2 DEF ServerAuth, TypeInv, ConnOK, ConnType
  <2> QED
    BY <1>2, <2>3 DEF ServerAuth, TypeInv, TypeOK, ConnOK
<1>3. CASE ServerRuns
  <2>1. conn.toClient \o Answer(req) \in Seq(Items)
    BY <1>1, AnswerType DEF TypeInv, ConnOK, ConnType
  <2>2. (IF req.op.moves THEN req.url ELSE conn.url) \in Urls \cup {NoUrl}
    BY <1>1 DEF Requests, TypeInv, ConnOK, ConnType
  <2>3. conn' = [conn EXCEPT !.authed = FALSE, !.toServer = Tail(@),
                    !.url = IF req.op.moves THEN req.url ELSE @,
                    !.toClient = @ \o Answer(req)]
    BY <1>3, Zenon DEF ServerRuns
  <2>4. ConnOK(conn')
    BY <1>1, <2>1, <2>2, <2>3 DEF TypeInv, ConnOK, ConnType
  <2>5. served' \subseteq Requests
    BY <1>1, <1>3 DEF ServerRuns, Effects, TypeInv, TypeOK
  <2> QED
    BY <1>3, <2>4, <2>5 DEF ServerRuns, TypeInv, TypeOK, ConnOK
<1>4. CASE ServerRefuses
  <2>1. conn.toClient \o Refusal(req) \in Seq(Items)
    BY <1>1, AnswerType DEF TypeInv, ConnOK, ConnType
  <2>2. ConnOK(conn')
    BY <1>1, <1>4, <2>1 DEF ServerRefuses, TypeInv, ConnOK, ConnType
  <2> QED
    BY <1>4, <2>2 DEF ServerRefuses, TypeInv, TypeOK, ConnOK
<1> QED
  BY <1>2, <1>3, <1>4

\* The transport dies, or a command is executed after all.
LEMMA LossType ==
    ASSUME TypeInv, Lose \/ LateRun
    PROVE  TypeInv'
<1>1. CASE Lose
  <2>1. PICK k \in 0 .. Len(conn.toClient) :
           conn' = [conn EXCEPT !.up = FALSE, !.authed = FALSE,
                      !.toServer = <<>>, !.toClient = SubSeq(@, 1, k)]
    BY <1>1 DEF Lose
  <2>2. SubSeq(conn.toClient, 1, k) \in Seq(Items) /\ <<>> \in Seq(Requests)
    BY DEF TypeInv, ConnOK, ConnType
  <2>3. ConnOK(conn')
    BY <2>1, <2>2 DEF TypeInv, ConnOK, ConnType
  <2>4. orphans' \subseteq Requests
    BY <1>1, WrittenType DEF Lose, Abandon, TypeInv, TypeOK
  <2> QED
    BY <1>1, <2>3, <2>4 DEF Lose, TypeInv, TypeOK, ConnOK
<1>2. CASE LateRun
  BY <1>2 DEF LateRun, TypeInv, TypeOK, ConnOK
<1> QED
  BY <1>1, <1>2

\* Every step leaves a well-formed state.
LEMMA TypeStep == TypeInv /\ [Next]_vars => TypeInv'
<1> SUFFICES ASSUME TypeInv, [Next]_vars PROVE TypeInv'
  OBVIOUS
<1>1. CASE Progress
  <2>1. CASE ReadEof \/ ReadTimeout
    BY <2>1, FailType DEF ReadEof, ReadTimeout, TypeInv, Errors
  <2> QED
    BY <1>1, <2>1, ConnectType, SendType, ReadItemType DEF Progress
<1>2. CASE Environment
  BY <1>2, StartCallType, ConnectType, ServerType, LossType DEF Environment
<1>3. CASE UNCHANGED vars
  BY <1>3 DEF vars, TypeInv, TypeOK, ConnOK
<1> QED
  BY <1>1, <1>2, <1>3 DEF Next

\* The state has its shape in every reachable state of a session.
THEOREM TypeCorrect == Spec => []TypeOK
<1>1. TypeInv => TypeOK
  BY DEF TypeInv
<1> QED
  BY <1>1, TypeInit, TypeStep, PTL DEF Spec

-----------------------------------------------------------------------------
(* An effect on the server at most once per call.                          *)

\* The commands with an effect that the server has executed or may yet.
Live == Effects(Written(conn)) \cup orphans \cup served

Unwritten == call.pc \in {"connect", "send"}

\* Each of them comes from a call of its own, and a call that has not written
\* its command has none.
OnceInv ==
    /\ \A r \in Live : r.call <= call.no
    /\ Unwritten /\ call.op \in Mutating => \A r \in Live : r.call # call.no
    /\ \A r, q \in Live : r.call = q.call => r = q

\* A step that writes nothing, and goes back to writing only if the operation
\* retries.
WritesNothing ==
    /\ Live' \subseteq Live /\ call'.no = call.no /\ call'.op = call.op
    /\ Unwritten' => Unwritten \/ call.op.retry

\* An operation with an effect never retries.
LEMMA NoRetry == \A op \in Mutating : ~op.retry
BY DEF Mutating, ChangeRevProp, ChangeRevProp2, Lock, Unlock, Once, Query

\* Such a step repeats no effect.
LEMMA WritesNothingOnce ==
    ASSUME OnceInv, WritesNothing
    PROVE  OnceInv'
<1>1. \A r \in Live' : r \in Live
  BY DEF WritesNothing
<1>2. (\A r \in Live : r.call <= call.no)'
  BY <1>1 DEF OnceInv, WritesNothing
<1>3. (\A r, q \in Live : r.call = q.call => r = q)'
  BY <1>1 DEF OnceInv
<1>4. ASSUME Unwritten', call'.op \in Mutating PROVE \A r \in Live' : r.call # call'.no
  <2>1. Unwritten
    BY <1>4, NoRetry DEF WritesNothing
  <2> QED
    BY <1>1, <1>4, <2>1 DEF OnceInv, WritesNothing
<1> QED
  BY <1>2, <1>3, <1>4 DEF OnceInv

\* An error writes nothing.
LEMMA FailWritesNothing ==
    ASSUME TypeInv, NEW c, Written(c) \subseteq Written(conn), NEW err, Fail(c, err)
    PROVE  WritesNothing
<1>1. Effects(Written(c)) \subseteq Effects(Written(conn)) /\ Effects(Written(NoConn)) = {}
  BY DEF Effects, Written, NoConn
<1>2. call \in CallType /\ served' = served
  BY DEF Fail, TypeInv, TypeOK
<1>3. CASE StartOver(c, err)
  <2>1. /\ call' = [call EXCEPT !.pc = "connect", !.dials = 0, !.attempt = NextAttempt]
        /\ MayRetry(err) /\ conn' = NoConn /\ Abandon(c)
    BY <1>3, Zenon DEF StartOver
  <2>2. call'.no = call.no /\ call'.op = call.op /\ call.op.retry
    BY <1>2, <2>1 DEF CallType, MayRetry
  <2>3. Effects(Written(conn))' = {}
    BY <1>1, <2>1
  <2> QED
    BY <1>1, <1>2, <2>1, <2>2, <2>3 DEF WritesNothing, Live, Abandon
<1>4. CASE GiveUp(c, err)
  <2>1. \/ Abandon(c) /\ Return(NoConn, err)
        \/ orphans' = orphans /\ Return(c, err)
    BY <1>4 DEF GiveUp
  <2>2. call'.no = call.no /\ call'.op = call.op /\ ~Unwritten'
    BY <1>2, <2>1 DEF Return, CallType, Unwritten
  <2>3. \/ Abandon(c) /\ Effects(Written(conn))' = {}
        \/ orphans' = orphans /\ Effects(Written(conn))' = Effects(Written(c))
    BY <1>1, <2>1 DEF Return
  <2> QED
    BY <1>1, <1>2, <2>2, <2>3 DEF WritesNothing, Live, Abandon
<1> QED
  BY <1>3, <1>4 DEF Fail

\* What is left to read does not change what was written.
LEMMA RestWritten ==
    ASSUME TypeInv
    PROVE  Written(Rest) = Written(conn)
BY DEF TypeInv, ConnOK, ConnType, Rest, Written

\* A step that leaves what was written, lost and executed alone, and does not
\* send the call back to writing, writes nothing.
LEMMA CalmWritesNothing ==
    ASSUME Written(conn') = Written(conn), UNCHANGED <<orphans, served>>,
           call'.no = call.no, call'.op = call.op, Unwritten' => Unwritten
    PROVE  WritesNothing
<1>1. Effects(Written(conn))' = Effects(Written(conn))
  BY DEF Effects
<1> QED
  BY <1>1 DEF WritesNothing, Live

\* A method that returns writes nothing.
LEMMA ReturnWritesNothing ==
    ASSUME TypeInv, NEW status, Return(conn, status), UNCHANGED <<orphans, served>>
    PROVE  WritesNothing
<1>1. call'.no = call.no /\ call'.op = call.op /\ ~Unwritten'
  BY DEF Return, TypeInv, TypeOK, CallType, Unwritten
<1> QED
  BY <1>1, CalmWritesNothing DEF Return

\* Neither does the client when it connects, gives up or reads.
LEMMA ClientWritesNothing ==
    ASSUME TypeInv,
           \/ AlreadyConnected \/ Reconnect \/ ReconnectFails \/ Cancel
           \/ ReadItem \/ ReadEof \/ ReadTimeout
    PROVE  WritesNothing
<1> DEFINE item == Head(conn.toClient)
<1>0. call \in CallType
  BY DEF TypeInv, TypeOK
<1>1. CASE AlreadyConnected
  <2>1. call'.no = call.no /\ call'.op = call.op /\ (Unwritten' => Unwritten)
    BY <1>0, <1>1 DEF AlreadyConnected, CallType, Unwritten
  <2> QED
    BY <1>1, <2>1, CalmWritesNothing DEF AlreadyConnected
<1>2. CASE Reconnect
  <2>1. call'.no = call.no /\ call'.op = call.op /\ (Unwritten' => Unwritten)
    BY <1>0, <1>2 DEF Reconnect, CallType, Unwritten
  <2>2. Effects(Written(conn))' = {}
    BY <1>2 DEF Reconnect, Fresh, Written, Effects
  <2> QED
    BY <1>2, <2>1, <2>2 DEF Reconnect, WritesNothing, Live
<1>3. CASE ReconnectFails
  <2>1. CASE DialAgain
    <3>1. call'.no = call.no /\ call'.op = call.op /\ (Unwritten' => Unwritten)
      BY <1>0, <2>1 DEF DialAgain, CallType, Unwritten
    <3> QED
      BY <2>1, <3>1, CalmWritesNothing DEF DialAgain
  <2>2. ASSUME NEW err \in Errors, NoDial(err) PROVE WritesNothing
    BY <2>2, FailWritesNothing, ReturnWritesNothing DEF NoDial
  <2> QED
    BY <1>3, <2>1, <2>2 DEF ReconnectFails
<1>4. CASE Cancel
  BY <1>4, ReturnWritesNothing DEF Cancel
<1>5. CASE ReadItem
  <2>1. CASE Reject(item)
    BY <2>1, RestWritten, FailWritesNothing DEF Reject
  <2>2. CASE Complete(item)
    <3>1. CASE Succeed(Rest, item)
      <4>1. call'.no = call.no /\ call'.op = call.op /\ ~Unwritten'
        BY <1>0, <3>1 DEF Succeed, CallType, Unwritten
      <4> QED
        BY <3>1, <4>1, RestWritten, CalmWritesNothing DEF Succeed
    <3>2. CASE ReadOn(item)
      <4>1. call'.no = call.no /\ call'.op = call.op /\ (Unwritten' => Unwritten)
        BY <1>0, <3>2 DEF ReadOn, CallType, Unwritten
      <4> QED
        BY <3>2, <4>1, RestWritten, CalmWritesNothing DEF ReadOn
    <3> QED
      BY <2>2, <3>1, <3>2 DEF Complete
  <2>3. CASE Take(item)
    <3>1. CASE Deliver(item)
      <4>1. call'.no = call.no /\ call'.op = call.op /\ (Unwritten' => Unwritten)
        BY <1>0, <3>1 DEF Deliver, CallType, Unwritten
      <4> QED
        BY <3>1, <4>1, RestWritten, CalmWritesNothing DEF Deliver
    <3>2. CASE Suppress(item)
      BY <3>2, RestWritten, CalmWritesNothing DEF Suppress, Unwritten
    <3>3. CASE Overflow(item) \/ CallbackFails(item)
      BY <3>3, RestWritten, FailWritesNothing DEF Overflow, CallbackFails
    <3> QED
      BY <2>3, <3>1, <3>2, <3>3 DEF Take
  <2> QED
    BY <1>5, <2>1, <2>2, <2>3 DEF ReadItem
<1>6. CASE ReadEof \/ ReadTimeout
  BY <1>6, FailWritesNothing DEF ReadEof, ReadTimeout
<1> QED
  BY <1>1, <1>2, <1>3, <1>4, <1>5, <1>6

\* Neither do the server and the network: a command moves from the wire to
\* the executed or to the lost ones.
LEMMA ServerWritesNothing ==
    ASSUME TypeInv, ServerAuth \/ ServerRuns \/ ServerRefuses \/ Lose \/ LateRun
    PROVE  WritesNothing
<1>1. call'.no = call.no /\ call'.op = call.op /\ (Unwritten' => Unwritten)
  BY DEF ServerAuth, ServerRuns, ServerRefuses, Lose, LateRun, Unwritten
<1>2. conn \in ConnType /\ (conn.authed => conn.toServer # <<>>)
  BY DEF TypeInv, ConnOK
<1>3. CASE ServerAuth
  <2>1. Written(conn') = Written(conn)
    BY <1>2, <1>3 DEF ServerAuth, ConnType, Written
  <2> QED
    BY <1>1, <1>3, <2>1, CalmWritesNothing DEF ServerAuth
<1>4. CASE ServerRuns \/ ServerRefuses
  <2>1. conn'.toServer = Tail(conn.toServer)
    BY <1>2, <1>4 DEF ServerRuns, ServerRefuses, ConnType
  <2>2. /\ Written(conn') \subseteq Written(conn)
        /\ Head(conn.toServer) \in Written(conn)
    <3>1. conn.toServer \in Seq(Requests) /\ conn.toServer # <<>>
      BY <1>2, <1>4 DEF ServerRuns, ServerRefuses, ConnType
    <3>2. \A i \in DOMAIN Tail(conn.toServer) :
             /\ i + 1 \in DOMAIN conn.toServer
             /\ Tail(conn.toServer)[i] = conn.toServer[i + 1]
      BY <3>1
    <3>3. Head(conn.toServer) = conn.toServer[1] /\ 1 \in DOMAIN conn.toServer
      BY <3>1
    <3> QED
      BY <2>1, <3>2, <3>3 DEF Written
  <2>3. /\ Effects(Written(conn))' \subseteq Effects(Written(conn))
        /\ Effects({Head(conn.toServer)}) \subseteq Effects(Written(conn))
    BY <2>2 DEF Effects
  <2>4. /\ orphans' = orphans
        /\ served' \subseteq served \cup Effects({Head(conn.toServer)})
    BY <1>4 DEF ServerRuns, ServerRefuses
  <2> QED
    BY <1>1, <2>3, <2>4 DEF WritesNothing, Live
<1>5. CASE Lose
  <2>1. conn'.toServer = <<>>
    BY <1>2, <1>5 DEF Lose, ConnType
  <2>2. Effects(Written(conn))' = {}
    BY <2>1 DEF Written, Effects
  <2> QED
    BY <1>1, <1>5, <2>2 DEF Lose, Abandon, WritesNothing, Live
<1>6. CASE LateRun
  BY <1>1, <1>6 DEF LateRun, WritesNothing, Live
<1> QED
  BY <1>3, <1>4, <1>5, <1>6

\* A new call has a number that no effect carries.
LEMMA StartCallOnce ==
    ASSUME TypeInv, OnceInv, NEW op \in Ops, NEW url \in Urls, NEW limit \in 0 .. NEntries,
           StartCall(op, url, limit)
    PROVE  OnceInv'
<1>1. Live' = Live
  BY DEF StartCall, Live
<1>2. call'.no = call.no + 1 /\ call.no \in Nat
  BY StartedCall, BoundAssumption DEF TypeInv, TypeOK, CallType
<1>3. \A r \in Live : r.call \in Nat
  <2>1. \A r \in Requests : r.call \in Nat
    BY DEF Requests, CallIds
  <2> QED
    BY <2>1, WrittenType DEF Live, TypeInv, TypeOK
<1> QED
  BY <1>1, <1>2, <1>3 DEF OnceInv

\* The command that a call writes is the first of that call, if it has an
\* effect.
LEMMA SentOnce ==
    ASSUME TypeInv, OnceInv, call.pc = "send", NEW c, Sent(c),
           Written(c) \subseteq Written(conn) \cup {Request}
    PROVE  OnceInv'
<1>1. call'.no = call.no /\ call'.op = call.op /\ ~Unwritten'
  BY DEF Sent, TypeInv, TypeOK, CallType, Unwritten
<1>2. Live' \subseteq Live \cup Effects({Request})
  BY DEF Sent, Live, Effects
<1>3. Request.call = call.no /\ Request.op = call.op /\ call.no \in Nat
  BY BoundAssumption DEF Request, TypeInv, TypeOK, CallType
<1>4. CASE call.op \in Mutating
  <2>1. \A r \in Live : r.call <= call.no /\ r.call # call.no
    BY <1>4 DEF OnceInv, Unwritten
  <2>2. \A r \in Live' : r \in Live \/ r = Request
    BY <1>2 DEF Effects
  <2>3. \A r, q \in Live' : r.call = q.call => r = q
    BY <1>3, <2>1, <2>2 DEF OnceInv
  <2>4. \A r \in Live' : r.call <= call.no
    BY <1>3, <2>1, <2>2
  <2> QED
    BY <1>1, <2>3, <2>4 DEF OnceInv
<1>5. CASE call.op \notin Mutating
  <2>1. Live' \subseteq Live
    BY <1>2, <1>3, <1>5 DEF Effects
  <2> QED
    BY <1>1, <2>1, WritesNothingOnce DEF WritesNothing
<1> QED
  BY <1>4, <1>5

\* Only the command of the call in progress is written.
LEMMA SendWrites ==
    ASSUME TypeInv, Send
    PROVE  \/ WritesNothing
           \/ \E c : Sent(c) /\ Written(c) \subseteq Written(conn) \cup {Request}
<1>1. CASE SendCommand
  <2> DEFINE c == [conn EXCEPT !.toServer = Append(@, Request)]
  <2>1. c.toServer = Append(conn.toServer, Request) /\ conn.toServer \in Seq(Requests)
    BY DEF TypeInv, ConnOK, ConnType
  <2>2. \A i \in DOMAIN Append(conn.toServer, Request) :
           \/ i \in DOMAIN conn.toServer /\ Append(conn.toServer, Request)[i] = conn.toServer[i]
           \/ Append(conn.toServer, Request)[i] = Request
    BY <2>1
  <2>3. Written(c) \subseteq Written(conn) \cup {Request}
    BY <2>1, <2>2 DEF Written
  <2> QED
    BY <1>1, <2>3 DEF SendCommand
<1>2. CASE SendInVain
  BY <1>2 DEF SendInVain
<1>3. CASE SendFails \/ SendTimesOut
  BY <1>3, FailWritesNothing DEF SendFails, SendTimesOut
<1> QED
  BY <1>1, <1>2, <1>3 DEF Send

\* Writing a command keeps effects unique.
LEMMA SendOnce ==
    ASSUME TypeInv, OnceInv, Send
    PROVE  OnceInv'
BY SendWrites, SentOnce, WritesNothingOnce DEF Send

\* Every step keeps effects unique.
LEMMA OnceStep == TypeInv /\ OnceInv /\ [Next]_vars => OnceInv'
<1> SUFFICES ASSUME TypeInv, OnceInv, [Next]_vars PROVE OnceInv'
  OBVIOUS
<1>1. CASE Progress
  BY <1>1, ClientWritesNothing, WritesNothingOnce, SendOnce DEF Progress
<1>2. CASE Environment
  BY <1>2, ClientWritesNothing, ServerWritesNothing, WritesNothingOnce, StartCallOnce
     DEF Environment
<1>3. CASE UNCHANGED vars
  BY <1>3 DEF vars, OnceInv, Live, Unwritten
<1> QED
  BY <1>1, <1>2, <1>3 DEF Next

\* At first nothing has been written.
LEMMA OnceInit == Init => OnceInv
<1> SUFFICES ASSUME Init PROVE Live = {} /\ call.pc = "idle"
  BY DEF OnceInv, Unwritten
<1>1. conn.toServer = <<>>
  BY DEF Init, Fresh
<1> QED
  BY <1>1 DEF Init, Idle, Live, Effects, Written

\* lock, unlock and change-rev-prop are executed at most once per call of the
\* method, whatever is lost, late, refused, cancelled or reconnected.
THEOREM OnceCorrect == Spec => []AtMostOnce
<1>1. OnceInv => AtMostOnce
  BY DEF OnceInv, AtMostOnce, Live
<1> QED
  BY <1>1, TypeInit, TypeStep, OnceInit, OnceStep, PTL DEF Spec

-----------------------------------------------------------------------------
(* How often a command is written.                                         *)

Retries == IF AllowReconnect /\ call.op.retry THEN MaxRetries ELSE 0

\* A call has written its command once per attempt, but for the attempt that
\* is still to write it.
SendsInv ==
    /\ call.attempt <= Retries
    /\ call.sends <= call.attempt + IF Unwritten THEN 0 ELSE 1

\* A step that neither writes nor starts over.
Steady ==
    /\ call'.sends = call.sends /\ call'.attempt = call.attempt
    /\ call'.op = call.op /\ (Unwritten' => Unwritten)

\* Such a step keeps the count.
LEMMA SteadySends ==
    ASSUME TypeInv, SendsInv, Steady
    PROVE  SendsInv'
<1>1. call.sends \in Nat /\ call.attempt \in Nat
  BY RetryAssumption DEF TypeInv, TypeOK, CallType
<1> QED
  BY <1>1 DEF SendsInv, Steady, Retries

\* A method that returns does neither.
LEMMA ReturnSteady ==
    ASSUME TypeInv, NEW c, NEW status, Return(c, status)
    PROVE  Steady
BY DEF Return, TypeInv, TypeOK, CallType, Steady, Unwritten

\* An operation that starts over counts an attempt, and one at most is counted
\* per retry.
LEMMA FailSends ==
    ASSUME TypeInv, SendsInv, NEW c, NEW err, Fail(c, err)
    PROVE  SendsInv'
<1>1. CASE StartOver(c, err)
  <2>1. /\ call' = [call EXCEPT !.pc = "connect", !.dials = 0, !.attempt = NextAttempt]
        /\ MayRetry(err)
    BY <1>1, Zenon DEF StartOver
  <2>2. /\ call'.sends = call.sends /\ call'.attempt = NextAttempt
        /\ call'.op = call.op /\ Unwritten'
    BY <2>1 DEF TypeInv, TypeOK, CallType, Unwritten
  <2>3. call.sends \in Nat /\ call.attempt \in Nat /\ MaxRetries \in Nat
    BY RetryAssumption DEF TypeInv, TypeOK, CallType
  <2>4. NextAttempt <= MaxRetries /\ Retries' = MaxRetries
    BY <2>1, <2>2, <2>3 DEF MayRetry, NextAttempt, Retries
  <2> QED
    BY <2>2, <2>3, <2>4 DEF SendsInv, NextAttempt
<1>2. CASE GiveUp(c, err)
  BY <1>2, ReturnSteady, SteadySends DEF GiveUp
<1> QED
  BY <1>1, <1>2 DEF Fail

\* The client connecting, giving up or reading.
LEMMA ClientSends ==
    ASSUME TypeInv, SendsInv,
           \/ AlreadyConnected \/ Reconnect \/ ReconnectFails \/ Cancel
           \/ ReadItem \/ ReadEof \/ ReadTimeout
    PROVE  SendsInv'
<1> DEFINE item == Head(conn.toClient)
<1>0. call \in CallType
  BY DEF TypeInv, TypeOK
<1>1. CASE AlreadyConnected \/ Reconnect
  <2>1. Steady
    BY <1>0, <1>1 DEF AlreadyConnected, Reconnect, CallType, Steady, Unwritten
  <2> QED
    BY <2>1, SteadySends
<1>2. CASE ReconnectFails
  <2>1. CASE DialAgain
    <3>1. Steady
      BY <1>0, <2>1 DEF DialAgain, CallType, Steady, Unwritten
    <3> QED
      BY <3>1, SteadySends
  <2>2. ASSUME NEW err \in Errors, NoDial(err) PROVE SendsInv'
    BY <2>2, FailSends, ReturnSteady, SteadySends DEF NoDial
  <2> QED
    BY <1>2, <2>1, <2>2 DEF ReconnectFails
<1>3. CASE Cancel
  BY <1>3, ReturnSteady, SteadySends DEF Cancel
<1>4. CASE ReadItem
  <2>1. CASE Reject(item)
    BY <2>1, FailSends DEF Reject
  <2>2. CASE Complete(item)
    <3>1. CASE Succeed(Rest, item) \/ ReadOn(item)
      <4>1. Steady
        BY <1>0, <3>1 DEF Succeed, ReadOn, CallType, Steady, Unwritten
      <4> QED
        BY <4>1, SteadySends
    <3> QED
      BY <2>2, <3>1 DEF Complete
  <2>3. CASE Take(item)
    <3>1. CASE Deliver(item) \/ Suppress(item)
      <4>1. Steady
        BY <1>0, <3>1 DEF Deliver, Suppress, CallType, Steady, Unwritten
      <4> QED
        BY <4>1, SteadySends
    <3>2. CASE Overflow(item) \/ CallbackFails(item)
      BY <3>2, FailSends DEF Overflow, CallbackFails
    <3> QED
      BY <2>3, <3>1, <3>2 DEF Take
  <2> QED
    BY <1>4, <2>1, <2>2, <2>3 DEF ReadItem
<1>5. CASE ReadEof \/ ReadTimeout
  BY <1>5, FailSends DEF ReadEof, ReadTimeout
<1> QED
  BY <1>1, <1>2, <1>3, <1>4, <1>5

\* Writing the command.
LEMMA SendSends ==
    ASSUME TypeInv, SendsInv, Send
    PROVE  SendsInv'
<1>1. ASSUME NEW c, Sent(c) PROVE SendsInv'
  <2>1. /\ call'.sends = call.sends + 1 /\ call'.attempt = call.attempt
        /\ call'.op = call.op /\ ~Unwritten' /\ Unwritten
    BY <1>1 DEF Send, Sent, TypeInv, TypeOK, CallType, Unwritten
  <2>2. call.sends \in Nat /\ call.attempt \in Nat
    BY RetryAssumption DEF TypeInv, TypeOK, CallType
  <2> QED
    BY <2>1, <2>2 DEF SendsInv, Retries
<1> QED
  BY <1>1, FailSends DEF Send, SendCommand, SendInVain, SendFails, SendTimesOut

\* Every step keeps the count.
LEMMA SendsStep == TypeInv /\ SendsInv /\ [Next]_vars => SendsInv'
<1> SUFFICES ASSUME TypeInv, SendsInv, [Next]_vars PROVE SendsInv'
  OBVIOUS
<1>1. CASE Progress
  BY <1>1, ClientSends, SendSends DEF Progress
<1>2. ASSUME NEW op \in Ops, NEW url \in Urls, NEW limit \in 0 .. NEntries,
             StartCall(op, url, limit)
      PROVE  SendsInv'
  <2>1. call'.sends = 0 /\ call'.attempt = 0 /\ Unwritten'
    BY <1>2, StartedCall DEF Unwritten
  <2> QED
    BY <2>1, RetryAssumption DEF SendsInv, Retries
<1>3. CASE ServerAuth \/ ServerRuns \/ ServerRefuses \/ Lose \/ LateRun \/ UNCHANGED vars
  <2>1. Steady
    BY <1>3 DEF ServerAuth, ServerRuns, ServerRefuses, Lose, LateRun, vars, Steady, Unwritten
  <2> QED
    BY <2>1, SteadySends
<1>4. CASE Cancel
  BY <1>4, ClientSends
<1> QED
  BY <1>1, <1>2, <1>3, <1>4 DEF Next, Environment

\* A method writes its command once, plus once per configured retry if it is
\* one that retries.
THEOREM SendsCorrect == Spec => []BoundedSends
<1>1. Init => SendsInv
  BY RetryAssumption DEF Init, Idle, SendsInv, Retries, Unwritten
<1>2. TypeInv /\ SendsInv => BoundedSends
  <2>1. TypeInv => call.sends \in Nat /\ call.attempt \in Nat /\ MaxRetries \in Nat
    BY RetryAssumption DEF TypeInv, TypeOK, CallType
  <2> QED
    BY <2>1 DEF SendsInv, Retries, BoundedSends
<1> QED
  BY <1>1, <1>2, TypeInit, TypeStep, SendsStep, PTL DEF Spec

-----------------------------------------------------------------------------
(* No retry is given away.                                                 *)

\* A call that does not end with a lost connection gives no retry away.
LEMMA OtherEnd ==
    ASSUME TypeInv, NEW status, status # "eof",
           outcome' = [outcome EXCEPT ![call.no] = status]
    PROVE  EofIsLast
<1> SUFFICES ASSUME NEW d \in CallIds, outcome[d] = "open", outcome'[d] = "eof"
             PROVE  FALSE
  BY DEF EofIsLast
<1>1. outcome'[d] = IF d = call.no THEN status ELSE outcome[d]
  BY DEF TypeInv, TypeOK
<1> QED
  BY <1>1

\* Nor does a step that leaves the outcomes alone.
LEMMA NoEnd ==
    ASSUME outcome' = outcome
    PROVE  EofIsLast
BY DEF EofIsLast

\* An operation that fails returns only if it may not start over.
LEMMA FailIsLast ==
    ASSUME TypeInv, NEW c, NEW err, Fail(c, err)
    PROVE  EofIsLast
<1>1. CASE StartOver(c, err)
  BY <1>1, NoEnd DEF StartOver
<1>2. CASE GiveUp(c, err)
  <2>1. outcome' = [outcome EXCEPT ![call.no] = err] /\ ~MayRetry(err)
    BY <1>2 DEF GiveUp, Return
  <2>2. CASE err # "eof"
    BY <2>1, <2>2, OtherEnd
  <2>3. CASE err = "eof"
    <3>1. call.op.retry /\ AllowReconnect => ~(call.attempt < MaxRetries)
      BY <2>1, <2>3 DEF MayRetry, IsRetryable
    <3>2. call.attempt \in 0 .. MaxRetries
      BY DEF TypeInv, TypeOK, CallType
    <3>3. call.op.retry /\ AllowReconnect => call.attempt = MaxRetries
      BY <3>1, <3>2, RetryAssumption
    <3> QED
      BY <3>3 DEF EofIsLast
  <2> QED
    BY <2>2, <2>3
<1> QED
  BY <1>1, <1>2 DEF Fail

\* No dial succeeds any more only when all of them are used up.
LEMMA NoDialIsLast ==
    ASSUME TypeInv, NEW err \in Errors, NoDial(err)
    PROVE  EofIsLast
<1>1. CASE Fail(conn, err)
  BY <1>1, FailIsLast
<1>2. CASE Return(conn, err)
  <2>1. outcome' = [outcome EXCEPT ![call.no] = err]
    BY <1>2 DEF Return
  <2>2. CASE err # "eof"
    BY <2>1, <2>2, OtherEnd
  <2>3. CASE err = "eof"
    <3>1. call.dials >= MaxRetries /\ call.dials \in 0 .. MaxRetries
      BY <2>3 DEF NoDial, TypeInv, TypeOK, CallType
    <3>2. call.dials = MaxRetries
      BY <3>1, RetryAssumption
    <3> QED
      BY <3>2 DEF EofIsLast
  <2> QED
    BY <2>2, <2>3
<1> QED
  BY <1>1, <1>2 DEF NoDial

\* Reading an item.
LEMMA ReadItemIsLast ==
    ASSUME TypeInv, ReadItem
    PROVE  EofIsLast
<1> DEFINE item == Head(conn.toClient)
<1>1. CASE Reject(item)
  BY <1>1, FailIsLast DEF Reject
<1>2. CASE Complete(item)
  <2>1. outcome' = [outcome EXCEPT ![call.no] = "ok"] \/ outcome' = outcome
    BY <1>2 DEF Complete, Succeed, ReadOn
  <2> QED
    BY <2>1, OtherEnd, NoEnd
<1>3. CASE Take(item)
  BY <1>3, FailIsLast, NoEnd DEF Take, Deliver, Suppress, Overflow, CallbackFails
<1> QED
  BY <1>1, <1>2, <1>3 DEF ReadItem

\* No step gives a retry away.
LEMMA StepIsLast == TypeInv /\ [Next]_vars => [EofIsLast]_vars
<1> SUFFICES ASSUME TypeInv, Next PROVE EofIsLast
  OBVIOUS
<1>1. CASE AlreadyConnected \/ Reconnect \/ Send
  <2>1. CASE SendFails \/ SendTimesOut
    BY <2>1, FailIsLast DEF SendFails, SendTimesOut
  <2> QED
    BY <1>1, <2>1, NoEnd DEF AlreadyConnected, Reconnect, Send, SendCommand, SendInVain, Sent
<1>2. CASE ReconnectFails
  <2>1. CASE DialAgain
    BY <2>1, NoEnd DEF DialAgain
  <2> QED
    BY <1>2, <2>1, NoDialIsLast DEF ReconnectFails
<1>3. CASE ReadEof \/ ReadTimeout
  BY <1>3, FailIsLast DEF ReadEof, ReadTimeout
<1>4. ASSUME NEW op \in Ops, NEW url \in Urls, NEW limit \in 0 .. NEntries,
             StartCall(op, url, limit)
      PROVE  EofIsLast
  <2>1. outcome' = [outcome EXCEPT ![call.no + 1] = "open"]
    BY <1>4 DEF StartCall
  <2>2. \A d \in CallIds : outcome[d] = "open" => outcome'[d] = "open"
    BY <2>1 DEF TypeInv, TypeOK
  <2> QED
    BY <2>2 DEF EofIsLast
<1>5. CASE Cancel
  BY <1>5, OtherEnd DEF Cancel, Return
<1>6. CASE ServerAuth \/ ServerRuns \/ ServerRefuses \/ Lose \/ LateRun
  BY <1>6, NoEnd DEF ServerAuth, ServerRuns, ServerRefuses, Lose, LateRun
<1> QED
  BY <1>1, <1>2, <1>3, <1>4, <1>5, <1>6, ReadItemIsLast DEF Next, Progress, Environment

\* A method that retries gives up on a lost connection only when it has used
\* up its retries, or its dials.
THEOREM RetriesUsedUp == Spec => NoEarlyEof
<1>1. TypeInv /\ [Next]_vars => [EofIsLast]_vars
  BY StepIsLast
<1> QED
  BY <1>1, TypeInit, TypeStep, PTL DEF Spec, NoEarlyEof

-----------------------------------------------------------------------------
(* What the callers are told.  The proofs are about the items that are on  *)
(* their way to the client and the place in the script where it reads.     *)

-----------------------------------------------------------------------------
(* The items of an answer.                                                 *)

Ends(op) == op.script[Len(op.script)]

\* The item that ends the answer to a command.
Final(op, item) == item.kind = "fail" \/ (item.kind = "ok" /\ item.shape = Ends(op))

\* There are three kinds of scripts.
LEMMA ScriptKinds ==
    ASSUME NEW op \in OpType
    PROVE  /\ \/ \E shape \in Shapes : op.script = <<"auth", shape>>
              \/ op.script = StreamScript
              \/ op.script = FileScript
           /\ Len(op.script) \in {2, 3, 4} /\ op.script[1] = "auth"
           /\ Ends(op) \in Shapes
           /\ \A i \in 2 .. Len(op.script) - 1 : op.script[i] \in {"stream", "file", "chunks"}
           /\ op.script = FileScript => Ends(op) = "any"
<1>1. op.script \in Scripts
  BY DEF OpType
<1>2. CASE \E shape \in Shapes : op.script = <<"auth", shape>>
  <2>1. PICK shape \in Shapes : op.script = <<"auth", shape>>
    BY <1>2
  <2>2. Len(op.script) = 2 /\ op.script[1] = "auth" /\ op.script[2] = shape
    BY <2>1
  <2>3. op.script # FileScript
    BY <2>2 DEF FileScript
  <2> QED
    BY <1>2, <2>2, <2>3 DEF Ends
<1>3. CASE op.script = StreamScript
  <2>1. /\ Len(op.script) = 3 /\ op.script[1] = "auth" /\ op.script[2] = "stream"
        /\ op.script[3] = "any"
    BY <1>3 DEF StreamScript
  <2> QED
    BY <1>3, <2>1 DEF Ends, Shapes
<1>4. CASE op.script = FileScript
  <2>1. /\ Len(op.script) = 4 /\ op.script[1] = "auth" /\ op.script[2] = "file"
        /\ op.script[3] = "chunks" /\ op.script[4] = "any"
    BY <1>4 DEF FileScript
  <2> QED
    BY <1>4, <2>1 DEF Ends, Shapes
<1> QED
  BY <1>1, <1>2, <1>3, <1>4 DEF Scripts

\* A command with one response is answered by it.
LEMMA QueryAnswer ==
    ASSUME NEW req \in Requests, NEW shape \in Shapes, req.op.script = <<"auth", shape>>
    PROVE  Answer(req) = <<Item(req, "ok", shape, 0)>>
<1>1. Len(req.op.script) = 2 /\ req.op.script[2] = shape
  OBVIOUS
<1>2. Body(req, 3) = <<>> /\ Body(req, 4) = <<>>
  BY <1>1 DEF Body
<1>3. shape # "stream" /\ shape # "chunks"
  BY DEF Shapes
<1>4. Body(req, 2) = <<Item(req, "ok", shape, 0)>>
  BY <1>1, <1>3 DEF Body
<1>5. Body(req, 2) \in Seq(Items)
  BY BodyType
<1>6. \A s \in Seq(Items) : (s \o <<>>) \o <<>> = s
  BY ConcatEmptySeq, Zenon
<1>7. Answer(req) = (Body(req, 2) \o <<>>) \o <<>>
  BY <1>2 DEF Answer
<1> QED
  BY <1>4, <1>5, <1>6, <1>7, Zenon

\* A row of items.
LEMMA RowItems ==
    ASSUME NEW req \in Requests, NEW each, NEW last,
           <<each, last>> \in {<<"entry", "done">>, <<"chunk", "eod">>}
    PROVE  /\ Row(req, each, last) \in Seq(Items)
           /\ Len(Row(req, each, last)) = NEntries + 1
           /\ \A i \in 1 .. NEntries : Row(req, each, last)[i] = Item(req, each, "any", i)
           /\ Row(req, each, last)[NEntries + 1] = Item(req, last, "any", 0)
<1>1. NEntries \in Nat
  BY BoundAssumption
<1>2. \A i \in 1 .. NEntries + 1 :
         Row(req, each, last)[i] = IF i <= NEntries THEN Item(req, each, "any", i)
                                   ELSE Item(req, last, "any", 0)
  BY DEF Row
<1>3. Row(req, each, last) \in Seq(Items)
  BY RowType
<1>4. DOMAIN Row(req, each, last) = 1 .. NEntries + 1
  BY DEF Row
<1>5. Len(Row(req, each, last)) = NEntries + 1
  BY <1>1, <1>3, <1>4
<1> QED
  BY <1>1, <1>2, <1>3, <1>5

\* A stream, and the response after it.
LEMMA StreamAnswer ==
    ASSUME NEW req \in Requests, req.op.script = StreamScript
    PROVE  /\ Len(Answer(req)) = NEntries + 2
           /\ \A i \in 1 .. NEntries : Answer(req)[i] = Item(req, "entry", "any", i)
           /\ Answer(req)[NEntries + 1] = Item(req, "done", "any", 0)
           /\ Answer(req)[NEntries + 2] = Item(req, "ok", "any", 0)
<1> DEFINE row == Row(req, "entry", "done")
           ok == Item(req, "ok", "any", 0)
<1>0. NEntries \in Nat
  BY BoundAssumption
<1>1. /\ Len(req.op.script) = 3 /\ req.op.script[2] = "stream" /\ req.op.script[3] = "any"
  BY DEF StreamScript
<1>2. Body(req, 2) = row /\ Body(req, 3) = <<ok>> /\ Body(req, 4) = <<>>
  BY <1>1 DEF Body
<1>3. Body(req, 3) \in Seq(Items)
  BY BodyType
<1>4. /\ row \in Seq(Items) /\ Len(row) = NEntries + 1
      /\ \A i \in 1 .. NEntries : row[i] = Item(req, "entry", "any", i)
      /\ row[NEntries + 1] = Item(req, "done", "any", 0)
  BY RowItems
<1> HIDE DEF row, ok
<1>6. <<ok>> \in Seq(Items)
  BY <1>2, <1>3
<1>5. Answer(req) = row \o <<ok>>
  <2>1. row \o <<ok>> \in Seq(Items)
    BY <1>4, <1>6
  <2>2. \A s \in Seq(Items) : s \o <<>> = s
    BY ConcatEmptySeq, Zenon
  <2>3. Answer(req) = (row \o <<ok>>) \o <<>>
    BY <1>2 DEF Answer
  <2> QED
    BY <2>1, <2>2, <2>3, Zenon
<1>7. /\ Len(row \o <<ok>>) = NEntries + 2
      /\ \A i \in 1 .. NEntries + 1 : (row \o <<ok>>)[i] = row[i]
      /\ (row \o <<ok>>)[NEntries + 2] = ok
  BY <1>0, <1>4, <1>6
<1> QED
  BY <1>0, <1>4, <1>5, <1>7 DEF ok

\* The response to get-file, the chunks, and the response after them.
LEMMA FileAnswer ==
    ASSUME NEW req \in Requests, req.op.script = FileScript
    PROVE  /\ Len(Answer(req)) = NEntries + 3
           /\ Answer(req)[1] = Item(req, "ok", "file", 0)
           /\ \A i \in 1 .. NEntries : Answer(req)[i + 1] = Item(req, "chunk", "any", i)
           /\ Answer(req)[NEntries + 2] = Item(req, "eod", "any", 0)
           /\ Answer(req)[NEntries + 3] = Item(req, "ok", "any", 0)
<1> DEFINE row == Row(req, "chunk", "eod")
           first == Item(req, "ok", "file", 0)
           ok == Item(req, "ok", "any", 0)
<1>0. NEntries \in Nat
  BY BoundAssumption
<1>1. /\ Len(req.op.script) = 4 /\ req.op.script[2] = "file"
      /\ req.op.script[3] = "chunks" /\ req.op.script[4] = "any"
  BY DEF FileScript
<1>2. Body(req, 2) = <<first>> /\ Body(req, 3) = row /\ Body(req, 4) = <<ok>>
  BY <1>1 DEF Body
<1>3. Body(req, 2) \in Seq(Items) /\ Body(req, 4) \in Seq(Items)
  BY BodyType
<1>4. /\ row \in Seq(Items) /\ Len(row) = NEntries + 1
      /\ \A i \in 1 .. NEntries : row[i] = Item(req, "chunk", "any", i)
      /\ row[NEntries + 1] = Item(req, "eod", "any", 0)
  BY RowItems
<1> HIDE DEF row, first, ok
<1>5. Answer(req) = (<<first>> \o row) \o <<ok>>
  BY <1>2 DEF Answer
<1>6. <<first>> \in Seq(Items) /\ <<ok>> \in Seq(Items)
  BY <1>2, <1>3
<1>7. /\ <<first>> \o row \in Seq(Items)
      /\ Len(<<first>> \o row) = NEntries + 2
      /\ (<<first>> \o row)[1] = first
      /\ \A i \in 1 .. NEntries + 1 : (<<first>> \o row)[i + 1] = row[i]
  BY <1>0, <1>4, <1>6
<1>8. /\ Len((<<first>> \o row) \o <<ok>>) = NEntries + 3
      /\ \A i \in 1 .. NEntries + 2 : ((<<first>> \o row) \o <<ok>>)[i] = (<<first>> \o row)[i]
      /\ ((<<first>> \o row) \o <<ok>>)[NEntries + 3] = ok
  BY <1>0, <1>6, <1>7
<1> QED
  BY <1>0, <1>4, <1>5, <1>7, <1>8 DEF first, ok

-----------------------------------------------------------------------------
(* Items in the order of answers.                                          *)

\* What may follow an item.
Adjacent(a, b) ==
    /\ b.kind = "entry" => b.n = IF a.kind = "entry" THEN a.n + 1 ELSE 1
    /\ b.kind = "chunk" => b.n = IF a.kind = "chunk" THEN a.n + 1 ELSE 1
    /\ a.kind = "done" => b.kind \in {"ok", "fail"}
    /\ a.kind = "entry" /\ b.kind = "done" => a.n = NEntries

\* A stream that ends before it has begun ends in a failure, unless there is
\* nothing to send.
Whole(a, b, c) ==
    a.kind # "entry" /\ b.kind = "done" /\ c.kind = "ok" => NEntries = 0

Ordered(w) ==
    /\ \A i \in 1 .. Len(w) - 1 : Adjacent(w[i], w[i + 1])
    /\ \A i \in 1 .. Len(w) - 2 : Whole(w[i], w[i + 1], w[i + 2])
    /\ \A i \in 1 .. Len(w) : w[i].kind = "ok" => w[i].shape \in Shapes

\* The rest of a sequence of items.
LEMMA OrderedTail ==
    ASSUME NEW w \in Seq(Items), w # <<>>, Ordered(w)
    PROVE  Ordered(Tail(w))
<1> DEFINE t == Tail(w)
<1>1. t \in Seq(Items) /\ Len(t) = Len(w) - 1 /\ Len(w) \in Nat /\ Len(w) > 0
  OBVIOUS
<1>2. \A i \in 1 .. Len(t) : t[i] = w[i + 1]
  OBVIOUS
<1> HIDE DEF t
<1>3. ASSUME NEW i \in 1 .. Len(t) - 1 PROVE Adjacent(t[i], t[i + 1])
  <2>1. i + 1 \in 1 .. Len(w) - 1 /\ t[i] = w[i + 1] /\ t[i + 1] = w[(i + 1) + 1]
    BY <1>1, <1>2
  <2> QED
    BY <2>1 DEF Ordered
<1>4. ASSUME NEW i \in 1 .. Len(t) - 2 PROVE Whole(t[i], t[i + 1], t[i + 2])
  <2>1. /\ i + 1 \in 1 .. Len(w) - 2 /\ t[i] = w[i + 1] /\ t[i + 1] = w[(i + 1) + 1]
        /\ t[i + 2] = w[(i + 1) + 2]
    BY <1>1, <1>2
  <2> QED
    BY <2>1 DEF Ordered
<1>5. ASSUME NEW i \in 1 .. Len(t), t[i].kind = "ok" PROVE t[i].shape \in Shapes
  <2>1. i + 1 \in 1 .. Len(w) /\ t[i] = w[i + 1]
    BY <1>1, <1>2
  <2> QED
    BY <1>5, <2>1 DEF Ordered
<1>6. Ordered(t)
  BY <1>3, <1>4, <1>5 DEF Ordered
<1> QED
  BY <1>6 DEF t

\* A beginning of a sequence of items.
LEMMA OrderedPrefix ==
    ASSUME NEW w \in Seq(Items), Ordered(w), NEW k \in 0 .. Len(w)
    PROVE  Ordered(SubSeq(w, 1, k))
<1> DEFINE t == SubSeq(w, 1, k)
<1>1. Len(t) = k /\ k \in Nat /\ k <= Len(w) /\ Len(w) \in Nat
  OBVIOUS
<1>2. \A i \in 1 .. k : t[i] = w[i]
  OBVIOUS
<1> HIDE DEF t
<1>3. ASSUME NEW i \in 1 .. Len(t) - 1 PROVE Adjacent(t[i], t[i + 1])
  <2>1. i \in 1 .. Len(w) - 1 /\ t[i] = w[i] /\ t[i + 1] = w[i + 1]
    BY <1>1, <1>2
  <2> QED
    BY <2>1 DEF Ordered
<1>4. ASSUME NEW i \in 1 .. Len(t) - 2 PROVE Whole(t[i], t[i + 1], t[i + 2])
  <2>1. i \in 1 .. Len(w) - 2 /\ t[i] = w[i] /\ t[i + 1] = w[i + 1] /\ t[i + 2] = w[i + 2]
    BY <1>1, <1>2
  <2> QED
    BY <2>1 DEF Ordered
<1>5. ASSUME NEW i \in 1 .. Len(t), t[i].kind = "ok" PROVE t[i].shape \in Shapes
  <2>1. i \in 1 .. Len(w) /\ t[i] = w[i]
    BY <1>1, <1>2
  <2> QED
    BY <1>5, <2>1 DEF Ordered
<1>6. Ordered(t)
  BY <1>3, <1>4, <1>5 DEF Ordered
<1> QED
  BY <1>6 DEF t

\* More items after those that are on their way.
LEMMA OrderedConcat ==
    ASSUME NEW w \in Seq(Items), NEW x \in Seq(Items), Ordered(w), Ordered(x),
           w # <<>> => /\ w[Len(w)].kind # "done"
                       /\ x # <<>> => Adjacent(w[Len(w)], x[1])
                       /\ Len(x) > 1 => Whole(w[Len(w)], x[1], x[2])
    PROVE  Ordered(w \o x)
<1> DEFINE t == w \o x
           n == Len(w)
           m == Len(x)
<1>1. n \in Nat /\ m \in Nat /\ Len(t) = n + m
  OBVIOUS
<1>2. /\ \A i \in 1 .. n : t[i] = w[i]
      /\ \A i \in 1 .. m : t[n + i] = x[i]
  OBVIOUS
<1>3. (w # <<>> <=> n > 0) /\ (x # <<>> <=> m > 0)
  OBVIOUS
<1>4. n > 0 => /\ w[n].kind # "done"
               /\ m > 0 => Adjacent(w[n], x[1])
               /\ m > 1 => Whole(w[n], x[1], x[2])
  BY <1>3
<1>5. /\ \A i \in 1 .. n - 1 : Adjacent(w[i], w[i + 1])
      /\ \A i \in 1 .. n - 2 : Whole(w[i], w[i + 1], w[i + 2])
      /\ \A i \in 1 .. m - 1 : Adjacent(x[i], x[i + 1])
      /\ \A i \in 1 .. m - 2 : Whole(x[i], x[i + 1], x[i + 2])
      /\ \A i \in 1 .. n : w[i].kind = "ok" => w[i].shape \in Shapes
      /\ \A i \in 1 .. m : x[i].kind = "ok" => x[i].shape \in Shapes
  BY DEF Ordered
<1> HIDE DEF t, n, m
<1>6. ASSUME NEW i \in 1 .. n + m - 1 PROVE Adjacent(t[i], t[i + 1])
  <2>1. CASE i < n
    <3>1. i \in 1 .. n - 1 /\ t[i] = w[i] /\ t[i + 1] = w[i + 1]
      BY <1>1, <1>2, <2>1
    <3> QED
      BY <1>5, <3>1
  <2>2. CASE i = n
    <3>1. n > 0 /\ m > 0 /\ t[i] = w[n] /\ t[i + 1] = x[1]
      BY <1>1, <1>2, <2>2
    <3> QED
      BY <1>4, <3>1
  <2>3. CASE i > n
    <3>1. /\ i - n \in 1 .. m - 1 /\ i - n \in 1 .. m /\ i - n + 1 \in 1 .. m
          /\ n + (i - n) = i /\ n + (i - n + 1) = i + 1
      BY <1>1, <2>3
    <3>2. t[i] = x[i - n] /\ t[i + 1] = x[i - n + 1]
      BY <1>2, <3>1
    <3> QED
      BY <1>5, <3>1, <3>2
  <2> QED
    BY <1>1, <2>1, <2>2, <2>3
<1>7. ASSUME NEW i \in 1 .. n + m - 2 PROVE Whole(t[i], t[i + 1], t[i + 2])
  <2>1. CASE i + 1 < n
    <3>1. i \in 1 .. n - 2 /\ t[i] = w[i] /\ t[i + 1] = w[i + 1] /\ t[i + 2] = w[i + 2]
      BY <1>1, <1>2, <2>1
    <3> QED
      BY <1>5, <3>1
  <2>2. CASE i + 1 = n
    <3>1. n > 0 /\ t[i + 1] = w[n]
      BY <1>1, <1>2, <2>2
    <3> QED
      BY <1>4, <3>1 DEF Whole
  <2>3. CASE i = n
    <3>1. n > 0 /\ m > 1 /\ t[i] = w[n] /\ t[i + 1] = x[1] /\ t[i + 2] = x[2]
      BY <1>1, <1>2, <2>3
    <3> QED
      BY <1>4, <3>1
  <2>4. CASE i > n
    <3>1. /\ i - n \in 1 .. m - 2 /\ i - n \in 1 .. m /\ i - n + 1 \in 1 .. m
          /\ i - n + 2 \in 1 .. m /\ n + (i - n) = i /\ n + (i - n + 1) = i + 1
          /\ n + (i - n + 2) = i + 2
      BY <1>1, <2>4
    <3>2. t[i] = x[i - n] /\ t[i + 1] = x[i - n + 1] /\ t[i + 2] = x[i - n + 2]
      BY <1>2, <3>1
    <3> QED
      BY <1>5, <3>1, <3>2
  <2> QED
    BY <1>1, <2>1, <2>2, <2>3, <2>4
<1>8. ASSUME NEW i \in 1 .. n + m, t[i].kind = "ok" PROVE t[i].shape \in Shapes
  <2>1. CASE i <= n
    BY <1>1, <1>2, <1>5, <1>8, <2>1
  <2>2. CASE i > n
    <3>1. i - n \in 1 .. m /\ n + (i - n) = i
      BY <1>1, <2>2
    <3> QED
      BY <1>2, <1>5, <1>8, <3>1
  <2> QED
    BY <1>1, <2>1, <2>2
<1>9. Ordered(t)
  BY <1>1, <1>6, <1>7, <1>8 DEF Ordered
<1> QED
  BY <1>9 DEF t

\* What follows an auth-request.
Opens(w) ==
    /\ w # <<>> /\ w[1].kind # "chunk"
    /\ w[1].kind = "entry" => w[1].n = 1
    /\ w[1].kind = "done" /\ Len(w) > 1 /\ w[2].kind = "ok" => NEntries = 0

\* Its last item ends the answer to a command, and nothing before it does; only
\* get-file has a response in front of the rest.
Closes(op, w) ==
    /\ Final(op, w[Len(w)])
    /\ \A i \in 1 .. Len(w) - 1 : ~Final(op, w[i])
    /\ \A i \in 1 .. Len(w) : w[i].kind # "auth"
    /\ \A i \in 1 .. Len(w) : w[i].kind = "ok" /\ ~Final(op, w[i])
                                => op.script = FileScript /\ i = 1

\* An item is what it was made of.
LEMMA ItemFields ==
    \A req, kind, shape, n :
        /\ Item(req, kind, shape, n).kind = kind /\ Item(req, kind, shape, n).shape = shape
        /\ Item(req, kind, shape, n).n = n
BY DEF Item

\* The server answers in order.
LEMMA AnswerOrdered ==
    ASSUME NEW req \in Requests
    PROVE  /\ Ordered(Answer(req)) /\ Opens(Answer(req))
           /\ Answer(req)[Len(Answer(req))].kind = "ok"
           /\ Closes(req.op, Answer(req))
<1> DEFINE A == Answer(req)
<1>0. NEntries \in Nat
  BY BoundAssumption
<1>1. A \in Seq(Items) /\ req.op \in OpType
  BY AnswerType, OpsAssumption DEF Requests
<1>2. CASE \E shape \in Shapes : req.op.script = <<"auth", shape>>
  <2>1. PICK shape \in Shapes : req.op.script = <<"auth", shape>>
    BY <1>2
  <2>2. A = <<Item(req, "ok", shape, 0)>>
    BY <2>1, QueryAnswer
  <2>3. Len(A) = 1 /\ A[1].kind = "ok" /\ A[1].shape = shape
    BY <2>2, ItemFields
  <2>4. Ends(req.op) = shape
    BY <2>1 DEF Ends
  <2> HIDE DEF A
  <2>5. Ordered(A)
    BY <2>3 DEF Ordered
  <2>6. Opens(A)
    BY <2>3 DEF Opens
  <2>7. Closes(req.op, A)
    BY <2>3, <2>4 DEF Closes, Final
  <2> QED
    BY <2>3, <2>5, <2>6, <2>7 DEF A
<1>3. CASE req.op.script = StreamScript
  <2>1. /\ Len(A) = NEntries + 2
        /\ \A i \in 1 .. NEntries : A[i] = Item(req, "entry", "any", i)
        /\ A[NEntries + 1] = Item(req, "done", "any", 0)
        /\ A[NEntries + 2] = Item(req, "ok", "any", 0)
    BY <1>3, StreamAnswer
  <2>2. /\ \A i \in 1 .. NEntries : A[i].kind = "entry" /\ A[i].n = i
        /\ A[NEntries + 1].kind = "done"
        /\ A[NEntries + 2].kind = "ok" /\ A[NEntries + 2].shape = "any"
    BY <2>1, ItemFields
  <2>3. Ends(req.op) = "any"
    BY <1>3 DEF Ends, StreamScript
  <2> HIDE DEF A
  <2>4. ASSUME NEW i \in 1 .. NEntries + 1 PROVE Adjacent(A[i], A[i + 1])
    <3>1. CASE i < NEntries
      <4>1. i \in 1 .. NEntries /\ i + 1 \in 1 .. NEntries
        BY <1>0, <3>1
      <4>2. /\ A[i].kind = "entry" /\ A[i].n = i
            /\ A[i + 1].kind = "entry" /\ A[i + 1].n = i + 1
        BY <2>2, <4>1
      <4> QED
        BY <4>2 DEF Adjacent
    <3>2. CASE i = NEntries
      <4>1. A[i].kind = "entry" /\ A[i].n = NEntries /\ A[i + 1].kind = "done"
        BY <1>0, <2>2, <3>2
      <4> QED
        BY <4>1 DEF Adjacent
    <3>3. CASE i = NEntries + 1
      <4>1. A[i].kind = "done" /\ A[i + 1].kind = "ok"
        BY <1>0, <2>2, <3>3
      <4> QED
        BY <4>1 DEF Adjacent
    <3> QED
      BY <1>0, <3>1, <3>2, <3>3
  <2>5. ASSUME NEW i \in 1 .. NEntries PROVE Whole(A[i], A[i + 1], A[i + 2])
    BY <2>2 DEF Whole
  <2>6. Ordered(A)
    <3>1. Len(A) - 1 = NEntries + 1 /\ Len(A) - 2 = NEntries
      BY <1>0, <2>1
    <3>2. \A i \in 1 .. Len(A) : i \in 1 .. NEntries \/ i = NEntries + 1 \/ i = NEntries + 2
      BY <1>0, <2>1
    <3>3. \A i \in 1 .. Len(A) : A[i].kind = "ok" => A[i].shape \in Shapes
      BY <2>2, <3>2 DEF Shapes
    <3> QED
      BY <2>4, <2>5, <3>1, <3>3 DEF Ordered
  <2>7. Opens(A)
    <3>1. CASE NEntries = 0
      <4>1. A[1].kind = "done" /\ Len(A) = 2
        BY <2>1, <2>2, <3>1
      <4>2. A # <<>>
        BY <1>1, <4>1
      <4> QED
        BY <3>1, <4>1, <4>2 DEF Opens
    <3>2. CASE NEntries > 0
      <4>1. A[1].kind = "entry" /\ A[1].n = 1 /\ Len(A) > 2
        BY <1>0, <2>1, <2>2, <3>2
      <4> QED
        BY <1>1, <4>1 DEF Opens
    <3> QED
      BY <1>0, <3>1, <3>2
  <2>8. Closes(req.op, A)
    <3>1. A[Len(A)].kind = "ok" /\ A[Len(A)].shape = "any"
      BY <2>1, <2>2
    <3>2. \A i \in 1 .. Len(A) - 1 : A[i].kind \in {"entry", "done"}
      <4>1. \A i \in 1 .. Len(A) - 1 : i \in 1 .. NEntries \/ i = NEntries + 1
        BY <1>0, <2>1
      <4> QED
        BY <2>2, <4>1
    <3>3. \A i \in 1 .. Len(A) : i \in 1 .. Len(A) - 1 \/ i = Len(A)
      BY <1>0, <2>1
    <3> QED
      BY <2>3, <3>1, <3>2, <3>3 DEF Closes, Final
  <2>9. A[Len(A)].kind = "ok"
    BY <2>1, <2>2
  <2> QED
    BY <2>6, <2>7, <2>8, <2>9 DEF A
<1>4. CASE req.op.script = FileScript
  <2>1. /\ Len(A) = NEntries + 3
        /\ A[1] = Item(req, "ok", "file", 0)
        /\ \A i \in 1 .. NEntries : A[i + 1] = Item(req, "chunk", "any", i)
        /\ A[NEntries + 2] = Item(req, "eod", "any", 0)
        /\ A[NEntries + 3] = Item(req, "ok", "any", 0)
    BY <1>4, FileAnswer
  <2>2. /\ A[1].kind = "ok" /\ A[1].shape = "file"
        /\ \A i \in 1 .. NEntries : A[i + 1].kind = "chunk" /\ A[i + 1].n = i
        /\ A[NEntries + 2].kind = "eod"
        /\ A[NEntries + 3].kind = "ok" /\ A[NEntries + 3].shape = "any"
    BY <2>1, ItemFields
  <2>3. Ends(req.op) = "any"
    BY <1>4 DEF Ends, FileScript
  <2> HIDE DEF A
  <2>4. \A i \in 2 .. NEntries + 1 : A[i].kind = "chunk" /\ A[i].n = i - 1
    <3>1. \A i \in 2 .. NEntries + 1 : i - 1 \in 1 .. NEntries /\ (i - 1) + 1 = i
      BY <1>0
    <3> QED
      BY <2>2, <3>1
  <2>5. ASSUME NEW i \in 1 .. NEntries + 2 PROVE Adjacent(A[i], A[i + 1])
    <3>1. CASE i = 1 /\ NEntries > 0
      <4>1. A[i].kind = "ok" /\ A[i + 1].kind = "chunk" /\ A[i + 1].n = 1
        BY <1>0, <2>2, <2>4, <3>1
      <4> QED
        BY <4>1 DEF Adjacent
    <3>2. CASE i = 1 /\ NEntries = 0
      <4>1. A[i].kind = "ok" /\ A[i + 1].kind = "eod"
        BY <2>2, <3>2
      <4> QED
        BY <4>1 DEF Adjacent
    <3>3. CASE i > 1 /\ i < NEntries + 1
      <4>1. i \in 2 .. NEntries + 1 /\ i + 1 \in 2 .. NEntries + 1
        BY <1>0, <3>3
      <4>2. /\ A[i].kind = "chunk" /\ A[i].n = i - 1
            /\ A[i + 1].kind = "chunk" /\ A[i + 1].n = (i + 1) - 1
        BY <2>4, <4>1
      <4> QED
        BY <4>2 DEF Adjacent
    <3>4. CASE i > 1 /\ i = NEntries + 1
      <4>1. A[i].kind = "chunk" /\ A[i + 1].kind = "eod"
        BY <1>0, <2>2, <2>4, <3>4
      <4> QED
        BY <4>1 DEF Adjacent
    <3>5. CASE i = NEntries + 2
      <4>1. A[i].kind = "eod" /\ A[i + 1].kind = "ok"
        BY <1>0, <2>2, <3>5
      <4> QED
        BY <4>1 DEF Adjacent
    <3> QED
      BY <1>0, <3>1, <3>2, <3>3, <3>4, <3>5
  <2>6. \A i \in 1 .. Len(A) : A[i].kind \in {"ok", "chunk", "eod"}
    <3>1. \A i \in 1 .. Len(A) :
             i = 1 \/ i \in 2 .. NEntries + 1 \/ i = NEntries + 2 \/ i = NEntries + 3
      BY <1>0, <2>1
    <3> QED
      BY <2>2, <2>4, <3>1
  <2>7. Ordered(A)
    <3>1. Len(A) - 1 = NEntries + 2
      BY <1>0, <2>1
    <3>2. \A i \in 1 .. Len(A) - 2 : i + 1 \in 1 .. Len(A)
      BY <1>0, <2>1
    <3>3. ASSUME NEW i \in 1 .. Len(A) - 2 PROVE Whole(A[i], A[i + 1], A[i + 2])
      BY <2>6, <3>2 DEF Whole
    <3>4. ASSUME NEW i \in 1 .. Len(A), A[i].kind = "ok" PROVE A[i].shape \in Shapes
      <4>1. i = 1 \/ i \in 2 .. NEntries + 1 \/ i = NEntries + 2 \/ i = NEntries + 3
        BY <1>0, <2>1
      <4> QED
        BY <2>2, <2>4, <3>4, <4>1 DEF Shapes
    <3> QED
      BY <2>5, <3>1, <3>3, <3>4 DEF Ordered
  <2>8. Opens(A)
    <3>1. A # <<>>
      BY <1>0, <1>1, <2>1
    <3> QED
      BY <2>2, <3>1 DEF Opens
  <2>9. Closes(req.op, A)
    <3>1. A[Len(A)].kind = "ok" /\ A[Len(A)].shape = "any"
      BY <2>1, <2>2
    <3>2. ASSUME NEW i \in 1 .. Len(A) - 1 PROVE ~Final(req.op, A[i])
      <4>1. i = 1 \/ i \in 2 .. NEntries + 1 \/ i = NEntries + 2
        BY <1>0, <2>1
      <4> QED
        BY <2>2, <2>3, <2>4, <4>1 DEF Final
    <3>3. ASSUME NEW i \in 1 .. Len(A), A[i].kind = "ok", ~Final(req.op, A[i]) PROVE i = 1
      <4>1. i = 1 \/ i \in 2 .. NEntries + 1 \/ i = NEntries + 2 \/ i = NEntries + 3
        BY <1>0, <2>1
      <4> QED
        BY <2>2, <2>3, <2>4, <3>3, <4>1 DEF Final
    <3>4. Final(req.op, A[Len(A)])
      BY <2>3, <3>1 DEF Final
    <3> QED
      BY <1>4, <2>6, <3>2, <3>3, <3>4 DEF Closes
  <2>10. A[Len(A)].kind = "ok"
    BY <2>1, <2>2
  <2> QED
    BY <2>7, <2>8, <2>9, <2>10 DEF A
<1> QED
  BY <1>1, <1>2, <1>3, <1>4, ScriptKinds

\* So does a command that fails.
LEMMA RefusalOrdered ==
    ASSUME NEW req \in Requests
    PROVE  /\ Ordered(Refusal(req)) /\ Opens(Refusal(req))
           /\ Refusal(req)[Len(Refusal(req))].kind = "fail"
           /\ Closes(req.op, Refusal(req))
<1> DEFINE R == Refusal(req)
<1>1. CASE req.op.script[2] = "stream"
  <2>1. R = <<Item(req, "done", "any", 0), Item(req, "fail", "any", 0)>>
    BY <1>1 DEF Refusal
  <2>2. Len(R) = 2 /\ R[1].kind = "done" /\ R[2].kind = "fail"
    BY <2>1, ItemFields
  <2>3. R # <<>>
    BY <2>1
  <2> HIDE DEF R
  <2>4. Ordered(R)
    BY <2>2 DEF Ordered, Adjacent
  <2>5. Opens(R)
    BY <2>2, <2>3 DEF Opens
  <2>6. Closes(req.op, R)
    BY <2>2 DEF Closes, Final
  <2> QED
    BY <2>2, <2>4, <2>5, <2>6 DEF R
<1>2. CASE req.op.script[2] # "stream"
  <2>1. R = <<Item(req, "fail", "any", 0)>>
    BY <1>2 DEF Refusal
  <2>2. Len(R) = 1 /\ R[1].kind = "fail"
    BY <2>1, ItemFields
  <2>3. R # <<>>
    BY <2>1
  <2> HIDE DEF R
  <2>4. Ordered(R)
    BY <2>2 DEF Ordered
  <2>5. Opens(R)
    BY <2>2, <2>3 DEF Opens
  <2>6. Closes(req.op, R)
    BY <2>2 DEF Closes, Final
  <2> QED
    BY <2>2, <2>4, <2>5, <2>6 DEF R
<1> QED
  BY <1>1, <1>2

-----------------------------------------------------------------------------
(* Whatever was timed out, dropped or refused, the items on a connection   *)
(* are in the order of answers.                                            *)

Latest(w) == w[Len(w)]

\* On a live connection no answer ends in the middle, and what is answered
\* next follows an auth-request.
OrderOK(c) ==
    /\ Ordered(c.toClient)
    /\ c.up /\ c.toClient # <<>> => Latest(c.toClient).kind \notin {"entry", "chunk", "done"}
    /\ c.authed /\ c.toClient # <<>> => Latest(c.toClient).kind = "auth"

OrderInv == OrderOK(conn)

\* Nothing is in order.
LEMMA OrderEmpty == Ordered(<<>>)
<1>1. Len(<<>>) = 0
  BY EmptySeq
<1> QED
  BY <1>1 DEF Ordered

\* A connection that carries nothing is in order.
LEMMA OrderNone ==
    ASSUME NEW c, c.toClient = <<>>
    PROVE  OrderOK(c)
BY OrderEmpty DEF OrderOK

\* Reading takes the first item off.
LEMMA OrderRest ==
    ASSUME TypeInv, OrderInv, conn.toClient # <<>>
    PROVE  OrderOK(Rest)
<1> DEFINE w == conn.toClient
           t == Tail(w)
<1>1. /\ Rest.toClient = t /\ Rest.up = conn.up /\ Rest.authed = conn.authed
      /\ w \in Seq(Items)
  BY DEF Rest, TypeInv, ConnOK, ConnType
<1>2. Ordered(t)
  BY <1>1, OrderedTail DEF OrderInv, OrderOK
<1>3. t # <<>> => Latest(t) = Latest(w)
  <2>1. /\ Len(w) \in Nat /\ Len(t) = Len(w) - 1 /\ (t # <<>> => Len(t) > 0)
        /\ \A i \in 1 .. Len(t) : t[i] = w[i + 1]
    BY <1>1
  <2>2. t # <<>> => Len(t) \in 1 .. Len(t) /\ Len(t) + 1 = Len(w)
    BY <2>1
  <2> HIDE DEF t, w
  <2> QED
    BY <2>1, <2>2 DEF Latest
<1> QED
  BY <1>1, <1>2, <1>3 DEF OrderInv, OrderOK

\* An operation that fails keeps the connection it has, or none.
LEMMA FailOrder ==
    ASSUME NEW c, OrderOK(c), NEW err, Fail(c, err)
    PROVE  OrderInv'
<1>1. NoConn.toClient = <<>>
  BY DEF NoConn
<1>2. conn' = c \/ conn' = NoConn
  BY DEF Fail, StartOver, GiveUp, Return
<1> QED
  BY <1>1, <1>2, OrderNone DEF OrderInv

\* The client does not disturb the order.
LEMMA ClientOrder ==
    ASSUME TypeInv, OrderInv, Progress \/ Cancel
    PROVE  OrderInv'
<1>1. CASE AlreadyConnected \/ Cancel
  BY <1>1 DEF AlreadyConnected, Cancel, Return, OrderInv
<1>2. CASE Reconnect
  <2>1. conn'.toClient = <<>>
    BY <1>2 DEF Reconnect, Fresh
  <2> QED
    BY <2>1, OrderNone DEF OrderInv
<1>3. CASE ReconnectFails
  <2>1. CASE DialAgain
    BY <2>1 DEF DialAgain, OrderInv
  <2>2. ASSUME NEW err \in Errors, NoDial(err) PROVE OrderInv'
    <3>1. Fail(conn, err) \/ conn' = conn
      BY <2>2 DEF NoDial, Return
    <3> QED
      BY <3>1, FailOrder DEF OrderInv
  <2> QED
    BY <1>3, <2>1, <2>2 DEF ReconnectFails
<1>4. CASE Send
  <2>1. CASE SendCommand
    <3>1. conn' = [conn EXCEPT !.toServer = Append(@, Request)]
      BY <2>1 DEF SendCommand, Sent
    <3>2. conn'.toClient = conn.toClient /\ conn'.up = conn.up /\ conn'.authed = conn.authed
      BY <3>1 DEF TypeInv, ConnOK, ConnType
    <3> QED
      BY <3>2 DEF OrderInv, OrderOK
  <2>2. CASE SendInVain
    BY <2>2 DEF SendInVain, Sent, OrderInv
  <2>3. CASE SendFails \/ SendTimesOut
    BY <2>3, FailOrder DEF SendFails, SendTimesOut, OrderInv
  <2> QED
    BY <1>4, <2>1, <2>2, <2>3 DEF Send
<1>5. CASE ReadItem
  <2> DEFINE item == Head(conn.toClient)
  <2>1. OrderOK(Rest)
    BY <1>5, OrderRest DEF ReadItem
  <2>2. \/ conn' = Rest
        \/ \E err : Fail(Rest, err)
    <3>1. CASE Reject(item)
      BY <3>1 DEF Reject
    <3>2. CASE Complete(item)
      BY <3>2 DEF Complete, Succeed, ReadOn
    <3>3. CASE Take(item)
      BY <3>3 DEF Take, Deliver, Suppress, Overflow, CallbackFails
    <3> QED
      BY <1>5, <3>1, <3>2, <3>3 DEF ReadItem
  <2> QED
    BY <2>1, <2>2, FailOrder DEF OrderInv
<1>6. CASE ReadEof \/ ReadTimeout
  BY <1>6, FailOrder DEF ReadEof, ReadTimeout, OrderInv
<1> QED
  BY <1>1, <1>2, <1>3, <1>4, <1>5, <1>6 DEF Progress

\* What the server writes comes last.
LEMMA LatestConcat ==
    ASSUME NEW w \in Seq(Items), NEW x \in Seq(Items), x # <<>>
    PROVE  w \o x # <<>> /\ Latest(w \o x) = Latest(x)
<1> DEFINE t == w \o x
           n == Len(w)
           m == Len(x)
<1>1. n \in Nat /\ m \in Nat /\ m > 0 /\ Len(t) = n + m /\ \A i \in 1 .. m : t[n + i] = x[i]
  OBVIOUS
<1>2. t # <<>>
  <2>1. Len(t) # 0
    BY <1>1
  <2> QED
    BY <2>1, EmptySeq
<1>3. t[n + m] = x[m]
  <2>1. m \in 1 .. m
    BY <1>1
  <2> HIDE DEF t, n, m
  <2> QED
    BY <1>1, <2>1
<1> QED
  BY <1>1, <1>2, <1>3 DEF Latest

\* An answer after an auth-request, or after nothing.
LEMMA OrderedAnswer ==
    ASSUME NEW w \in Seq(Items), NEW x \in Seq(Items), Ordered(w), Ordered(x), Opens(x),
           w # <<>> => Latest(w).kind = "auth"
    PROVE  Ordered(w \o x)
<1>1. w # <<>> => Adjacent(Latest(w), x[1])
  BY DEF Opens, Adjacent
<1>2. w # <<>> /\ Len(x) > 1 => Whole(Latest(w), x[1], x[2])
  BY DEF Opens, Whole
<1> QED
  BY <1>1, <1>2, OrderedConcat DEF Latest

\* The server writes in order.
LEMMA ServerOrder ==
    ASSUME TypeInv, OrderInv, ServerAuth \/ ServerRuns \/ ServerRefuses \/ Lose \/ LateRun
    PROVE  OrderInv'
<1> DEFINE w == conn.toClient
           req == Head(conn.toServer)
<1>1. /\ w \in Seq(Items) /\ Ordered(w)
      /\ conn.up /\ w # <<>> => Latest(w).kind \notin {"entry", "chunk", "done"}
      /\ conn.authed /\ w # <<>> => Latest(w).kind = "auth"
  BY DEF TypeInv, ConnOK, ConnType, OrderInv, OrderOK
<1>2. CASE ServerAuth
  <2> DEFINE auth == Item(req, "auth", "auth", 0)
             x == <<auth>>
  <2>1. auth.kind = "auth" /\ req \in Requests
    BY <1>2, ItemFields DEF ServerAuth, TypeInv, ConnOK, ConnType
  <2>2. auth \in Items
    <3>1. "auth" \in Positions /\ 0 \in 0 .. NEntries
      BY BoundAssumption DEF Positions
    <3> QED
      BY <2>1, <3>1, ItemType
  <2>3. conn'.toClient = Append(w, auth) /\ conn'.up
    BY <1>2 DEF ServerAuth, TypeInv, ConnOK, ConnType
  <2> HIDE DEF w, auth
  <2>4. Append(w, auth) = w \o x /\ x \in Seq(Items) /\ x # <<>> /\ Len(x) = 1 /\ x[1] = auth
    BY <1>1, <2>2
  <2> HIDE DEF x
  <2>5. Ordered(x)
    BY <2>1, <2>4 DEF Ordered
  <2>6. w # <<>> => w[Len(w)].kind # "done" /\ Adjacent(w[Len(w)], x[1])
    BY <1>1, <1>2, <2>1, <2>4 DEF Latest, Adjacent, ServerAuth
  <2>7. Ordered(w \o x)
    BY <1>1, <2>4, <2>5, <2>6, OrderedConcat
  <2>8. Latest(w \o x).kind = "auth"
    BY <1>1, <2>1, <2>4, LatestConcat DEF Latest
  <2> QED
    BY <2>3, <2>4, <2>7, <2>8 DEF OrderInv, OrderOK
<1>3. CASE ServerRuns \/ ServerRefuses
  <2>1. req \in Requests
    BY <1>3 DEF ServerRuns, ServerRefuses, TypeInv, ConnOK, ConnType
  <2>2. PICK x \in {Answer(req), Refusal(req)} :
           conn'.toClient = w \o x /\ conn'.up = conn.up /\ conn'.authed = FALSE /\ conn.authed
    BY <1>3 DEF ServerRuns, ServerRefuses, TypeInv, ConnOK, ConnType
  <2>3. /\ x \in Seq(Items) /\ Ordered(x) /\ Opens(x)
        /\ Latest(x).kind \in {"ok", "fail"}
    BY <2>1, AnswerType, AnswerOrdered, RefusalOrdered DEF Latest
  <2>4. Ordered(w \o x)
    BY <1>1, <2>2, <2>3, OrderedAnswer
  <2>5. Latest(w \o x) = Latest(x)
    BY <1>1, <2>3, LatestConcat DEF Opens
  <2> QED
    BY <2>2, <2>3, <2>4, <2>5 DEF OrderInv, OrderOK
<1>4. CASE Lose
  <2>1. PICK k \in 0 .. Len(w) : /\ conn'.toClient = SubSeq(w, 1, k)
                                 /\ conn'.up = FALSE /\ conn'.authed = FALSE
    BY <1>4 DEF Lose, TypeInv, ConnOK, ConnType
  <2> QED
    BY <1>1, <2>1, OrderedPrefix DEF OrderInv, OrderOK
<1>5. CASE LateRun
  BY <1>5 DEF LateRun, OrderInv
<1> QED
  BY <1>2, <1>3, <1>4, <1>5

\* Every step keeps the items in order.
LEMMA OrderStep == TypeInv /\ OrderInv /\ [Next]_vars => OrderInv'
<1> SUFFICES ASSUME TypeInv, OrderInv, [Next]_vars PROVE OrderInv'
  OBVIOUS
<1>1. ASSUME NEW op, NEW url, NEW limit, StartCall(op, url, limit) PROVE OrderInv'
  BY <1>1 DEF StartCall, OrderInv
<1>2. CASE UNCHANGED vars
  BY <1>2 DEF vars, OrderInv
<1> QED
  BY <1>1, <1>2, ClientOrder, ServerOrder DEF Next, Environment

-----------------------------------------------------------------------------
(* What has become of the calls.                                           *)

\* Calls are made one at a time.
StatusInv ==
    /\ \A c \in CallIds : outcome[c] = "none" <=> c > call.no
    /\ \A c \in CallIds : outcome[c] = "open" <=> c = call.no /\ call.pc # "idle"

\* A call goes on.
GoesOn ==
    /\ outcome' = outcome /\ call'.no = call.no
    /\ call.pc # "idle" /\ call'.pc # "idle"

\* It returns.
Returns(status) ==
    /\ outcome' = [outcome EXCEPT ![call.no] = status] /\ call'.no = call.no
    /\ call.pc # "idle" /\ call'.pc = "idle"

\* What a call may return.
EndStatus == {"ok", "cancelled"} \cup Errors

\* The method reads what is to be read last.
Finishes ==
    /\ call.pc = "read" /\ conn.toClient # <<>>
    /\ Complete(Head(conn.toClient)) /\ IsLast(Head(conn.toClient))

\* An operation that fails goes on or returns its error.
LEMMA FailKinds ==
    ASSUME TypeInv, call.pc # "idle", NEW c, NEW err, Fail(c, err)
    PROVE  GoesOn \/ Returns(err)
<1>1. CASE StartOver(c, err)
  <2>1. /\ call' = [call EXCEPT !.pc = "connect", !.dials = 0, !.attempt = NextAttempt]
        /\ outcome' = outcome
    BY <1>1, Zenon DEF StartOver
  <2>2. call'.no = call.no /\ call'.pc = "connect"
    BY <2>1 DEF TypeInv, TypeOK, CallType
  <2> QED
    BY <2>1, <2>2 DEF GoesOn
<1>2. CASE GiveUp(c, err)
  BY <1>2 DEF GiveUp, Return, Returns, TypeInv, TypeOK, CallType
<1> QED
  BY <1>1, <1>2 DEF Fail

\* A step starts a call, goes on with it, returns from it, or is not the
\* client's.
LEMMA StepKinds ==
    ASSUME TypeInv, Next
    PROVE  \/ \E op \in Ops, url \in Urls, limit \in 0 .. NEntries : StartCall(op, url, limit)
           \/ GoesOn
           \/ \E status \in EndStatus : Returns(status) /\ (status = "ok" => Finishes)
           \/ UNCHANGED <<call, outcome>>
<1> DEFINE item == Head(conn.toClient)
<1>0. call \in CallType
  BY DEF TypeInv, TypeOK
<1>e. \A err \in Errors : err \in EndStatus /\ err # "ok"
  BY DEF EndStatus, Errors
<1>1. CASE AlreadyConnected \/ Reconnect
  BY <1>0, <1>1 DEF AlreadyConnected, Reconnect, GoesOn, CallType
<1>2. CASE ReconnectFails
  <2>1. CASE DialAgain
    BY <1>0, <1>2, <2>1 DEF ReconnectFails, DialAgain, GoesOn, CallType
  <2>2. ASSUME NEW err \in Errors, NoDial(err) PROVE GoesOn \/ Returns(err)
    <3>1. CASE Fail(conn, err)
      BY <1>2, <3>1, FailKinds DEF ReconnectFails
    <3>2. CASE Return(conn, err)
      BY <1>0, <1>2, <3>2 DEF ReconnectFails, Return, Returns, CallType
    <3> QED
      BY <2>2, <3>1, <3>2 DEF NoDial
  <2> QED
    BY <1>2, <1>e, <2>1, <2>2 DEF ReconnectFails
<1>3. CASE Send
  <2>1. CASE SendCommand \/ SendInVain
    <3>1. PICK c : Sent(c)
      BY <2>1 DEF SendCommand, SendInVain
    <3>2. call'.no = call.no /\ call'.pc = "read" /\ outcome' = outcome
      BY <1>0, <3>1 DEF Sent, CallType
    <3> QED
      BY <1>3, <3>2 DEF Send, GoesOn
  <2>2. CASE SendFails \/ SendTimesOut
    BY <1>3, <2>2, FailKinds DEF Send, SendFails, SendTimesOut, EndStatus, Errors
  <2> QED
    BY <1>3, <2>1, <2>2 DEF Send
<1>4. CASE ReadItem
  <2>1. CASE Reject(item)
    <3>1. Misread(Position, item) \in Errors
      BY DEF Misread, Errors
    <3> QED
      BY <1>4, <1>e, <2>1, <3>1, FailKinds DEF ReadItem, Reject
  <2>2. CASE Complete(item)
    <3>1. CASE IsLast(item) /\ Succeed(Rest, item)
      <4>1. call'.no = call.no /\ call'.pc = "idle"
        BY <1>0, <3>1 DEF Succeed, CallType
      <4>2. Finishes
        BY <1>4, <2>2, <3>1 DEF ReadItem, Finishes
      <4> QED
        BY <1>4, <3>1, <4>1, <4>2 DEF ReadItem, Succeed, Returns, EndStatus
    <3>2. CASE ReadOn(item)
      <4>1. call'.no = call.no /\ call'.pc = call.pc
        BY <1>0, <3>2 DEF ReadOn, CallType
      <4> QED
        BY <1>4, <3>2, <4>1 DEF ReadItem, ReadOn, GoesOn
    <3> QED
      BY <2>2, <3>1, <3>2 DEF Complete
  <2>3. CASE Take(item)
    <3>1. CASE Deliver(item)
      <4>1. call'.no = call.no /\ call'.pc = call.pc
        BY <1>0, <3>1 DEF Deliver, CallType
      <4> QED
        BY <1>4, <3>1, <4>1 DEF ReadItem, Deliver, GoesOn
    <3>2. CASE Suppress(item)
      BY <3>2 DEF Suppress
    <3>3. CASE Overflow(item) \/ CallbackFails(item)
      BY <1>4, <3>3, FailKinds DEF ReadItem, Overflow, CallbackFails, EndStatus, Errors
    <3> QED
      BY <2>3, <3>1, <3>2, <3>3 DEF Take
  <2> QED
    BY <1>4, <2>1, <2>2, <2>3 DEF ReadItem
<1>5. CASE ReadEof \/ ReadTimeout
  BY <1>5, FailKinds DEF ReadEof, ReadTimeout, EndStatus, Errors
<1>6. CASE Cancel
  <2>1. call'.no = call.no /\ call'.pc = "idle"
    BY <1>0, <1>6 DEF Cancel, Return, CallType
  <2>2. Returns("cancelled")
    BY <1>6, <2>1 DEF Cancel, Return, Returns
  <2> QED
    BY <2>2 DEF EndStatus
<1>7. CASE ServerAuth \/ ServerRuns \/ ServerRefuses \/ Lose \/ LateRun
  BY <1>7 DEF ServerAuth, ServerRuns, ServerRefuses, Lose, LateRun
<1> QED
  BY <1>1, <1>2, <1>3, <1>4, <1>5, <1>6, <1>7 DEF Next, Progress, Environment

\* Only a call that starts is noted, only the server executes.
LEMMA StepWrites ==
    ASSUME Next
    PROVE  /\ \/ writes' = writes
              \/ \E op \in Ops, url \in Urls, limit \in 0 .. NEntries : StartCall(op, url, limit)
           /\ served' = served \/ ServerRuns \/ LateRun
<1>1. ASSUME NEW c, NEW err, Fail(c, err) PROVE UNCHANGED <<writes, served>>
  BY <1>1 DEF Fail
<1>2. CASE AlreadyConnected \/ Reconnect \/ ReconnectFails
  <2>1. ASSUME NEW err, NoDial(err) PROVE UNCHANGED <<writes, served>>
    BY <1>1, <2>1 DEF NoDial
  <2> QED
    BY <1>2, <2>1 DEF AlreadyConnected, Reconnect, ReconnectFails, DialAgain
<1>3. CASE Send
  BY <1>1, <1>3 DEF Send, SendCommand, SendInVain, SendFails, SendTimesOut, Sent
<1>4. CASE ReadItem \/ ReadEof \/ ReadTimeout
  BY <1>1, <1>4 DEF ReadItem, ReadEof, ReadTimeout, Reject, Complete, Succeed, ReadOn,
                    Take, Deliver, Suppress, Overflow, CallbackFails
<1>5. CASE Environment
  BY <1>5 DEF Environment, StartCall, Cancel, ServerAuth, ServerRuns, ServerRefuses, Lose, LateRun
<1> QED
  BY <1>2, <1>3, <1>4, <1>5 DEF Next, Progress

\* At first no call was made.
LEMMA StatusInit == Init => StatusInv
<1> SUFFICES ASSUME Init PROVE StatusInv
  OBVIOUS
<1>1. call.no = 0 /\ call.pc = "idle" /\ \A c \in CallIds : outcome[c] = "none"
  BY DEF Init, Idle
<1>2. \A c \in CallIds : c > 0
  BY DEF CallIds
<1> QED
  BY <1>1, <1>2 DEF StatusInv

\* Every step keeps the calls apart.
LEMMA StatusStep == TypeInv /\ StatusInv /\ [Next]_vars => StatusInv'
<1> SUFFICES ASSUME TypeInv, StatusInv, [Next]_vars PROVE StatusInv'
  OBVIOUS
<1>0. outcome \in [CallIds -> Outcomes] /\ call.no \in Nat
  BY BoundAssumption DEF TypeInv, TypeOK, CallType
<1>1. ASSUME NEW op \in Ops, NEW url \in Urls, NEW limit \in 0 .. NEntries,
             StartCall(op, url, limit)
      PROVE  StatusInv'
  <2>1. call'.no = call.no + 1 /\ call'.pc = "connect" /\ call.pc = "idle"
    <3>1. call'.no = call.no + 1 /\ call'.pc = "connect"
      BY <1>1, StartedCall
    <3> QED
      BY <1>1, <3>1 DEF StartCall
  <2>2. \A c \in CallIds : outcome'[c] = IF c = call.no + 1 THEN "open" ELSE outcome[c]
    BY <1>0, <1>1 DEF StartCall
  <2>3. \A c \in CallIds : c \in Nat
    BY DEF CallIds
  <2> QED
    BY <1>0, <2>1, <2>2, <2>3 DEF StatusInv
<1>2. CASE GoesOn
  BY <1>2 DEF GoesOn, StatusInv
<1>3. ASSUME NEW status \in EndStatus, Returns(status) PROVE StatusInv'
  <2>1. \A c \in CallIds : outcome'[c] = IF c = call.no THEN status ELSE outcome[c]
    BY <1>0, <1>3 DEF Returns
  <2>2. status # "none" /\ status # "open"
    BY DEF EndStatus, Errors
  <2>3. ~(call.no > call.no)
    BY <1>0
  <2> QED
    BY <1>3, <2>1, <2>2, <2>3 DEF Returns, StatusInv
<1>4. CASE UNCHANGED <<call, outcome>>
  BY <1>4 DEF StatusInv
<1>5. CASE UNCHANGED vars
  BY <1>4, <1>5 DEF vars
<1> QED
  BY <1>1, <1>2, <1>3, <1>4, <1>5, StepKinds

-----------------------------------------------------------------------------
(* What the caller has been given, and what is read next.                  *)

Taken == Len(call.got)

\* The items given are the first of their row; those of a method that may
\* start over are remembered.
CountInv ==
    /\ Taken <= NEntries
    /\ \A i \in 1 .. Taken : call.got[i] = i
    /\ call.op.dedup => call.seen = 1 .. Taken

\* A method that gives all of them again has given none when it starts over.
Restarted ==
    \/ Unwritten /\ call.op.each
    \/ /\ call.pc = "read"
       /\ call.pos = 1 \/ (call.op.script = FileScript /\ call.pos = 2)
RestartInv == ~call.op.dedup /\ Restarted => call.got = <<>>

\* A stream that ended well has given all of them.
WholeInv ==
    call.no > 0 /\ outcome[call.no] = "ok" /\ call.op.script = StreamScript
        => Taken = NEntries

\* The next item of a stream is one that was given before the method started
\* over, or the one after the last; the end comes after all of them, or in
\* front of a failure.
Streaming(w, up) ==
    /\ call.pos = 2 /\ w # <<>> =>
          /\ w[1].kind = "entry" => /\ w[1].n \in 1 .. Taken + 1
                                    /\ ~call.op.dedup => w[1].n = Taken + 1
          /\ w[1].kind = "done" /\ Len(w) > 1 /\ w[2].kind = "ok" => Taken = NEntries
    /\ call.pos = 2 /\ w = <<>> /\ up /\ ~call.op.dedup => call.got = <<>>
    /\ call.pos = 3 /\ w = <<>> => ~up
    /\ call.pos = 3 /\ w # <<>> =>
          /\ w[1].kind # "auth"
          /\ w[1].kind = "ok" => Taken = NEntries

\* The next chunk of a file is the one after the last.
Chunking(w) ==
    call.pos = 3 /\ w # <<>> /\ w[1].kind = "chunk" => w[1].n = Taken + 1

PlaceInv ==
    /\ call.pos \in 1 .. Len(call.op.script)
    /\ call.pc = "read" =>
          /\ call.op.script = StreamScript => Streaming(conn.toClient, conn.up)
          /\ call.op.script = FileScript => Chunking(conn.toClient)

GivenInv == CountInv /\ RestartInv /\ WholeInv /\ PlaceInv

\* Of nothing, none was given.
LEMMA NoneTaken ==
    ASSUME TypeInv
    PROVE  Taken \in Nat /\ (call.got = <<>> <=> Taken = 0)
<1>1. call.got \in Seq(0 .. NEntries)
  BY DEF TypeInv, TypeOK, CallType
<1> QED
  BY <1>1, EmptySeq DEF Taken

\* What the server writes next to what is on its way.
LEMMA StreamingMore ==
    ASSUME TypeInv, CountInv, NEW w \in Seq(Items), NEW x \in Seq(Items), Opens(x),
           w # <<>> => Latest(w).kind # "done", Streaming(w, TRUE)
    PROVE  Streaming(w \o x, TRUE)
<1> DEFINE t == w \o x
           n == Len(w)
           m == Len(x)
<1>1. /\ n \in Nat /\ m \in Nat /\ Len(t) = n + m
      /\ \A i \in 1 .. n : t[i] = w[i]
      /\ \A i \in 1 .. m : t[n + i] = x[i]
      /\ (w # <<>> <=> n > 0) /\ (x # <<>> <=> m > 0)
  OBVIOUS
<1>2. Taken \in Nat /\ (call.got = <<>> <=> Taken = 0) /\ Taken <= NEntries
  BY NoneTaken DEF CountInv
<1>3. m > 0
  BY <1>1 DEF Opens
<1>4. t # <<>>
  BY <1>1, <1>3, LatestConcat
<1>5. CASE n = 0
  <2>1. t[1] = x[1] /\ Len(t) = m /\ (m > 1 => t[2] = x[2]) /\ w = <<>>
    BY <1>1, <1>3, <1>5
  <2> HIDE DEF t, n, m
  <2>2. x[1].kind = "entry" => x[1].n = 1
    BY DEF Opens
  <2>3. x[1].kind = "done" /\ m > 1 /\ x[2].kind = "ok" => NEntries = 0
    BY DEF Opens, m
  <2>4. call.pos # 3
    BY <2>1 DEF Streaming
  <2>5. call.pos = 2 /\ ~call.op.dedup => Taken = 0
    BY <1>2, <2>1 DEF Streaming
  <2>6. Streaming(t, TRUE)
    BY <1>2, <1>4, <2>1, <2>2, <2>3, <2>4, <2>5 DEF Streaming
  <2> QED
    BY <2>6 DEF t
<1>6. CASE n > 0
  <2>1. t[1] = w[1] /\ (n > 1 => t[2] = w[2]) /\ w # <<>> /\ Len(t) > 1
    BY <1>1, <1>3, <1>6
  <2> HIDE DEF t
  <2>2. w[1].kind = "done" => n > 1
    BY <1>1, <1>6, <2>1 DEF Latest
  <2>3. Streaming(t, TRUE)
    BY <1>4, <2>1, <2>2 DEF Streaming
  <2> QED
    BY <2>3 DEF t
<1> QED
  BY <1>1, <1>5, <1>6

\* The same for the chunks of a file.
LEMMA ChunkingMore ==
    ASSUME NEW w \in Seq(Items), NEW x \in Seq(Items), Opens(x), Chunking(w)
    PROVE  Chunking(w \o x)
<1>1. CASE w = <<>>
  <2>1. (w \o x)[1] = x[1]
    BY <1>1, ConcatEmptySeq
  <2> QED
    BY <2>1 DEF Opens, Chunking
<1>2. CASE w # <<>>
  <2>1. (w \o x)[1] = w[1]
    BY <1>2
  <2> QED
    BY <1>2, <2>1 DEF Chunking
<1> QED
  BY <1>1, <1>2

\* What is left on a connection that is lost.
LEMMA PlacePrefix ==
    ASSUME NEW w \in Seq(Items), NEW k \in 0 .. Len(w), NEW up \in BOOLEAN
    PROVE  /\ Streaming(w, up) => Streaming(SubSeq(w, 1, k), FALSE)
           /\ Chunking(w) => Chunking(SubSeq(w, 1, k))
<1> DEFINE t == SubSeq(w, 1, k)
<1>1. CASE t = <<>>
  <2> HIDE DEF t
  <2>1. Streaming(t, FALSE) /\ Chunking(t)
    BY <1>1 DEF Streaming, Chunking
  <2> QED
    BY <2>1 DEF t
<1>2. CASE t # <<>>
  <2>1. /\ Len(t) = k /\ k \in Nat /\ k > 0 /\ Len(w) \in Nat /\ k <= Len(w)
        /\ \A i \in 1 .. k : t[i] = w[i]
    BY <1>2
  <2>2. w # <<>> /\ t[1] = w[1] /\ (Len(t) > 1 => t[2] = w[2] /\ Len(w) > 1)
    BY <2>1
  <2> HIDE DEF t
  <2>3. Streaming(w, up) => Streaming(t, FALSE)
    BY <1>2, <2>2 DEF Streaming
  <2>4. Chunking(w) => Chunking(t)
    BY <1>2, <2>2 DEF Chunking
  <2> QED
    BY <2>3, <2>4 DEF t
<1> QED
  BY <1>1, <1>2

\* The server and the network give the caller nothing.
LEMMA ServerGiven ==
    ASSUME TypeInv, OrderInv, GivenInv,
           ServerAuth \/ ServerRuns \/ ServerRefuses \/ Lose \/ LateRun
    PROVE  GivenInv'
<1> DEFINE w == conn.toClient
           req == Head(conn.toServer)
<1>1. call' = call /\ outcome' = outcome
  BY DEF ServerAuth, ServerRuns, ServerRefuses, Lose, LateRun
<1>2. CountInv' /\ RestartInv' /\ WholeInv'
  BY <1>1 DEF GivenInv, CountInv, RestartInv, Restarted, Unwritten, WholeInv, Taken
<1>3. /\ w \in Seq(Items) /\ conn.up \in BOOLEAN
      /\ conn.up /\ w # <<>> => Latest(w).kind # "done"
  BY DEF TypeInv, ConnOK, ConnType, OrderInv, OrderOK
<1>4. CASE ServerAuth \/ ServerRuns \/ ServerRefuses
  <2>1. PICK x \in Seq(Items) : /\ Opens(x) /\ conn'.toClient = w \o x
                                /\ conn.up = TRUE /\ conn'.up = TRUE
    <3>1. CASE ServerAuth
      <4> DEFINE auth == Item(req, "auth", "auth", 0)
                 x == <<auth>>
      <4>1. auth.kind = "auth" /\ req \in Requests
        BY <3>1, ItemFields DEF ServerAuth, TypeInv, ConnOK, ConnType
      <4>2. auth \in Items
        <5>1. "auth" \in Positions /\ 0 \in 0 .. NEntries
          BY BoundAssumption DEF Positions
        <5> QED
          BY <4>1, <5>1, ItemType
      <4>3. conn'.toClient = Append(w, auth) /\ conn.up = TRUE /\ conn'.up = TRUE
        BY <3>1, <1>3 DEF ServerAuth, TypeInv, ConnOK, ConnType
      <4> HIDE DEF w, auth
      <4>4. Append(w, auth) = w \o x /\ x \in Seq(Items) /\ x # <<>> /\ x[1] = auth
        BY <1>3, <4>2
      <4>5. Opens(x)
        BY <4>1, <4>4 DEF Opens
      <4> QED
        BY <4>3, <4>4, <4>5
    <3>2. CASE ServerRuns \/ ServerRefuses
      <4>1. req \in Requests
        BY <3>2 DEF ServerRuns, ServerRefuses, TypeInv, ConnOK, ConnType
      <4>2. PICK x \in {Answer(req), Refusal(req)} :
               conn'.toClient = w \o x /\ conn'.up = TRUE /\ conn.up = TRUE
        BY <3>2, <1>3 DEF ServerRuns, ServerRefuses, TypeInv, ConnOK, ConnType
      <4> QED
        BY <4>1, <4>2, AnswerType, AnswerOrdered, RefusalOrdered
    <3> QED
      BY <1>4, <3>1, <3>2
  <2> HIDE DEF w
  <2>2. Streaming(w, TRUE) => Streaming(w \o x, TRUE)
    BY <1>3, <2>1, StreamingMore DEF GivenInv
  <2>3. Chunking(w) => Chunking(w \o x)
    BY <1>3, <2>1, ChunkingMore
  <2> USE DEF w
  <2>4. PlaceInv'
    BY <1>1, <2>1, <2>2, <2>3 DEF GivenInv, PlaceInv, Streaming, Chunking, Taken
  <2> QED
    BY <1>2, <2>4 DEF GivenInv
<1>5. CASE Lose
  <2>1. PICK k \in 0 .. Len(w) : conn'.toClient = SubSeq(w, 1, k) /\ conn'.up = FALSE
    BY <1>5 DEF Lose, TypeInv, ConnOK, ConnType
  <2>2. /\ Streaming(w, conn.up) => Streaming(SubSeq(w, 1, k), FALSE)
        /\ Chunking(w) => Chunking(SubSeq(w, 1, k))
    BY <1>3, PlacePrefix
  <2>3. PlaceInv'
    BY <1>1, <2>1, <2>2 DEF GivenInv, PlaceInv, Streaming, Chunking, Taken
  <2> QED
    BY <1>2, <2>3 DEF GivenInv
<1>6. CASE LateRun
  BY <1>1, <1>2, <1>6 DEF LateRun, GivenInv, PlaceInv, Streaming, Chunking, Taken
<1> QED
  BY <1>4, <1>5, <1>6

\* A step that gives nothing and does not read.
LEMMA NothingGiven ==
    ASSUME GivenInv, call'.got = call.got, call'.seen = call.seen, call'.op = call.op,
           call'.pos = call.pos, call'.no = call.no, call'.pc # "read",
           Unwritten' => Unwritten \/ call.op.retry,
           outcome' = outcome \/ outcome'[call.no] # "ok",
           call.op \in OpType
    PROVE  GivenInv'
<1>1. CountInv'
  BY DEF GivenInv, CountInv, Taken
<1>2. RestartInv'
  <2>1. call.op.each /\ call.op.retry => call.op.dedup
    BY DEF OpType
  <2> QED
    BY <2>1 DEF GivenInv, RestartInv, Restarted
<1>3. WholeInv'
  BY DEF GivenInv, WholeInv, Taken
<1>4. PlaceInv'
  BY DEF GivenInv, PlaceInv
<1> QED
  BY <1>1, <1>2, <1>3, <1>4 DEF GivenInv

\* The operation of a call is one of those there are.
LEMMA CallOp == TypeInv => call.op \in OpType
BY OpsAssumption DEF TypeInv, TypeOK, CallType

\* A method that returns without an answer gives nothing.
LEMMA ReturnGiven ==
    ASSUME TypeInv, GivenInv, call.pc # "idle", NEW c, NEW status, status # "ok",
           Return(c, status)
    PROVE  GivenInv'
<1>1. call \in CallType /\ call.no \in CallIds /\ outcome \in [CallIds -> Outcomes]
  BY DEF TypeInv, TypeOK
<1>2. /\ call'.got = call.got /\ call'.seen = call.seen /\ call'.op = call.op
      /\ call'.pos = call.pos /\ call'.no = call.no /\ call'.pc = "idle"
  BY <1>1 DEF Return, CallType
<1>3. outcome'[call.no] # "ok"
  BY <1>1 DEF Return
<1>4. ~Unwritten'
  BY <1>2 DEF Unwritten
<1> QED
  BY <1>2, <1>3, <1>4, CallOp, NothingGiven

\* An error gives nothing, and a method that cannot tell what it has given does
\* not start over.
LEMMA FailGiven ==
    ASSUME TypeInv, GivenInv, call.pc # "idle", NEW c, NEW err \in Errors, Fail(c, err)
    PROVE  GivenInv'
<1>1. call \in CallType
  BY DEF TypeInv, TypeOK
<1>2. CASE StartOver(c, err)
  <2>1. /\ call' = [call EXCEPT !.pc = "connect", !.dials = 0, !.attempt = NextAttempt]
        /\ outcome' = outcome /\ call.op.retry
    BY <1>2, Zenon DEF StartOver, MayRetry
  <2>2. /\ call'.got = call.got /\ call'.seen = call.seen /\ call'.op = call.op
        /\ call'.pos = call.pos /\ call'.no = call.no /\ call'.pc = "connect"
    BY <1>1, <2>1 DEF CallType
  <2> QED
    BY <2>1, <2>2, CallOp, NothingGiven
<1>3. CASE GiveUp(c, err)
  <2>1. Return(c, err) \/ Return(NoConn, err)
    BY <1>3 DEF GiveUp
  <2> QED
    BY <2>1, ReturnGiven DEF Errors
<1> QED
  BY <1>2, <1>3 DEF Fail

\* Reaching, or failing to reach, a connection gives nothing.
LEMMA ConnectGiven ==
    ASSUME TypeInv, GivenInv, AlreadyConnected \/ Reconnect \/ ReconnectFails \/ Cancel
    PROVE  GivenInv'
<1>0. call \in CallType
  BY DEF TypeInv, TypeOK
<1>1. CASE AlreadyConnected \/ Reconnect
  <2>1. /\ call'.got = call.got /\ call'.seen = call.seen /\ call'.op = call.op
        /\ call'.pos = call.pos /\ call'.no = call.no /\ call'.pc = "send"
    BY <1>0, <1>1 DEF AlreadyConnected, Reconnect, CallType
  <2>2. Unwritten /\ outcome' = outcome
    BY <1>1 DEF AlreadyConnected, Reconnect, Unwritten
  <2> QED
    BY <2>1, <2>2, CallOp, NothingGiven
<1>2. CASE ReconnectFails
  <2>1. CASE DialAgain
    <3>1. /\ call'.got = call.got /\ call'.seen = call.seen /\ call'.op = call.op
          /\ call'.pos = call.pos /\ call'.no = call.no /\ call'.pc = call.pc
      BY <1>0, <2>1 DEF DialAgain, CallType
    <3>2. Unwritten /\ outcome' = outcome /\ call.pc # "read"
      BY <1>2, <2>1 DEF ReconnectFails, DialAgain, Unwritten
    <3> QED
      BY <3>1, <3>2, CallOp, NothingGiven
  <2>2. ASSUME NEW err \in Errors, NoDial(err) PROVE GivenInv'
    BY <1>2, <2>2, FailGiven, ReturnGiven DEF ReconnectFails, NoDial, Errors
  <2> QED
    BY <1>2, <2>1, <2>2 DEF ReconnectFails
<1>3. CASE Cancel
  BY <1>3, ReturnGiven DEF Cancel
<1> QED
  BY <1>1, <1>2, <1>3

\* A method that starts has given nothing.
LEMMA StartCallGiven ==
    ASSUME TypeInv, NEW op \in Ops, NEW url \in Urls, NEW limit \in 0 .. NEntries,
           StartCall(op, url, limit)
    PROVE  GivenInv'
<1>1. /\ call'.got = <<>> /\ call'.seen = {} /\ call'.op = op /\ call'.pos = 1
      /\ call'.no = call.no + 1 /\ call'.pc = "connect"
  BY StartedCall
<1>2. Taken' = 0
  BY <1>1, EmptySeq DEF Taken
<1>3. CountInv'
  <2>1. {} = 1 .. 0 /\ 0 <= NEntries
    BY BoundAssumption
  <2> QED
    BY <1>1, <1>2, <2>1 DEF CountInv
<1>4. RestartInv'
  BY <1>1 DEF RestartInv
<1>5. WholeInv'
  <2>1. outcome'[call.no + 1] = "open"
    <3>1. call.no + 1 \in CallIds
      BY BoundAssumption DEF StartCall, TypeInv, TypeOK, CallType, CallIds
    <3> QED
      BY <3>1 DEF StartCall, TypeInv, TypeOK
  <2> QED
    BY <1>1, <2>1 DEF WholeInv
<1>6. PlaceInv'
  <2>1. Len(op.script) \in {2, 3, 4}
    BY OpsAssumption, ScriptKinds
  <2>2. \A n \in {2, 3, 4} : 1 \in 1 .. n
    OBVIOUS
  <2>3. 1 \in 1 .. Len(op.script)
    BY <2>1, <2>2, Zenon
  <2> QED
    BY <1>1, <2>3 DEF PlaceInv
<1> QED
  BY <1>3, <1>4, <1>5, <1>6 DEF GivenInv

\* Writing the command: a method that collects begins anew.
LEMMA SentGiven ==
    ASSUME TypeInv, StatusInv, GivenInv, call.pc = "send", NEW c, Sent(c)
    PROVE  GivenInv'
<1>0. call \in CallType /\ call.no \in CallIds
  BY DEF TypeInv, TypeOK
<1>1. /\ call'.got = IF call.op.each THEN call.got ELSE <<>>
      /\ call'.seen = call.seen /\ call'.op = call.op /\ call'.pos = 1
      /\ call'.no = call.no /\ call'.pc = "read" /\ outcome' = outcome
  BY <1>0 DEF Sent, CallType
<1>2. call.op.dedup => call.op.each
  BY CallOp DEF OpType
<1>3. Taken' = IF call.op.each THEN Taken ELSE 0
  BY <1>1, EmptySeq DEF Taken
<1>4. CountInv'
  <2>1. CASE call.op.each
    BY <1>1, <1>3, <2>1 DEF GivenInv, CountInv
  <2>2. CASE ~call.op.each
    <3>1. Taken' = 0 /\ 0 <= NEntries /\ 1 .. 0 = {}
      BY <1>3, <2>2, BoundAssumption
    <3> QED
      BY <1>1, <1>2, <2>2, <3>1 DEF CountInv
  <2> QED
    BY <2>1, <2>2
<1>5. RestartInv'
  BY <1>1 DEF GivenInv, RestartInv, Restarted, Unwritten
<1>6. WholeInv'
  <2>1. outcome[call.no] = "open"
    BY <1>0 DEF StatusInv
  <2> QED
    BY <1>1, <2>1 DEF WholeInv
<1>7. PlaceInv'
  <2>1. Len(call.op.script) \in {2, 3, 4}
    BY CallOp, ScriptKinds
  <2>2. \A n \in {2, 3, 4} : 1 \in 1 .. n
    OBVIOUS
  <2>3. 1 \in 1 .. Len(call.op.script)
    BY <2>1, <2>2, Zenon
  <2> QED
    BY <1>1, <2>3 DEF PlaceInv, Streaming, Chunking
<1> QED
  BY <1>4, <1>5, <1>6, <1>7 DEF GivenInv

\* What is read next, and what comes after it.
LEMMA NextItem ==
    ASSUME TypeInv, OrderInv, conn.toClient # <<>>
    PROVE  LET w == conn.toClient
               t == Rest.toClient
           IN /\ Head(w) = w[1] /\ w[1] \in Items /\ t \in Seq(Items)
              /\ Rest.up = conn.up
              /\ w[1].kind = "ok" => w[1].shape \in Shapes
              /\ t # <<>> => /\ Adjacent(w[1], t[1]) /\ t[1] = w[2] /\ Len(w) > 1
                             /\ Len(t) > 1 => Whole(w[1], t[1], t[2])
              /\ t = <<>> /\ conn.up => w[1].kind \notin {"entry", "chunk", "done"}
<1> DEFINE w == conn.toClient
           t == Tail(w)
<1>1. w \in Seq(Items) /\ Rest.toClient = t /\ Rest.up = conn.up
  BY DEF TypeInv, ConnOK, ConnType, Rest
<1>2. /\ Head(w) = w[1] /\ w[1] \in Items /\ t \in Seq(Items) /\ Len(t) = Len(w) - 1
      /\ Len(w) \in Nat /\ Len(w) > 0 /\ (t # <<>> <=> Len(t) > 0)
      /\ \A i \in 1 .. Len(t) : t[i] = w[i + 1]
  <2>1. /\ Head(w) = w[1] /\ Len(w) \in Nat /\ Len(w) > 0
        /\ t \in Seq(Items) /\ Len(t) = Len(w) - 1
        /\ \A i \in 1 .. Len(t) : t[i] = w[i + 1]
    BY <1>1
  <2>2. w[1] \in Items
    BY <1>1, <2>1
  <2>3. t # <<>> <=> Len(t) > 0
    <3>1. \A s \in Seq(Items) : s # <<>> <=> Len(s) > 0
      OBVIOUS
    <3> QED
      BY <2>1, <3>1, Zenon
  <2> QED
    BY <2>1, <2>2, <2>3
<1>3. /\ \A i \in 1 .. Len(w) - 1 : Adjacent(w[i], w[i + 1])
      /\ \A i \in 1 .. Len(w) - 2 : Whole(w[i], w[i + 1], w[i + 2])
      /\ \A i \in 1 .. Len(w) : w[i].kind = "ok" => w[i].shape \in Shapes
      /\ conn.up => w[Len(w)].kind \notin {"entry", "chunk", "done"}
  BY DEF OrderInv, OrderOK, Ordered, Latest
<1> HIDE DEF w, t
<1>4. w[1].kind = "ok" => w[1].shape \in Shapes
  BY <1>2, <1>3
<1>5. t # <<>> => Adjacent(w[1], t[1]) /\ t[1] = w[2] /\ Len(w) > 1
  BY <1>2, <1>3
<1>6. Len(t) > 1 => Whole(w[1], t[1], t[2])
  BY <1>2, <1>3
<1>7. t = <<>> /\ conn.up => w[1].kind \notin {"entry", "chunk", "done"}
  BY <1>2, <1>3
<1> USE DEF w
<1> QED
  BY <1>1, <1>2, <1>4, <1>5, <1>6, <1>7

\* The read positions of the scripts.
LEMMA ScriptPositions ==
    ASSUME NEW op \in OpType, NEW pos \in 1 .. Len(op.script)
    PROVE  /\ pos = 1 => op.script[pos] = "auth"
           /\ op.script = StreamScript =>
                 /\ pos \in {1, 2, 3} /\ Len(op.script) = 3
                 /\ pos = 2 => op.script[pos] = "stream"
                 /\ pos = 3 => op.script[pos] = "any"
           /\ op.script = FileScript =>
                 /\ pos \in {1, 2, 3, 4} /\ Len(op.script) = 4
                 /\ pos = 2 => op.script[pos] = "file"
                 /\ pos = 3 => op.script[pos] = "chunks"
           /\ op.script[pos] = "stream" => op.script = StreamScript /\ pos = 2
           /\ op.script[pos] = "chunks" => op.script = FileScript /\ pos = 3
<1>1. CASE op.script = StreamScript
  <2>1. Len(op.script) = 3 /\ op.script = <<"auth", "stream", "any">>
    BY <1>1 DEF StreamScript
  <2>2. StreamScript # FileScript
    BY DEF StreamScript, FileScript
  <2>3. pos \in {1, 2, 3}
    BY <2>1
  <2> QED
    BY <1>1, <2>1, <2>2, <2>3
<1>2. CASE op.script = FileScript
  <2>1. Len(op.script) = 4 /\ op.script = <<"auth", "file", "chunks", "any">>
    BY <1>2 DEF FileScript
  <2>2. StreamScript # FileScript
    BY DEF StreamScript, FileScript
  <2>3. pos \in {1, 2, 3, 4}
    BY <2>1
  <2> QED
    BY <1>2, <2>1, <2>2, <2>3
<1>3. CASE \E shape \in Shapes : op.script = <<"auth", shape>>
  <2>1. PICK shape \in Shapes : op.script = <<"auth", shape>>
    BY <1>3
  <2>2. Len(op.script) = 2 /\ op.script[1] = "auth" /\ op.script[2] = shape
    BY <2>1
  <2>3. pos \in {1, 2}
    BY <2>2
  <2>4. shape # "stream" /\ shape # "chunks"
    BY DEF Shapes
  <2>5. op.script # StreamScript /\ op.script # FileScript
    BY <2>2 DEF StreamScript, FileScript
  <2> QED
    BY <2>2, <2>3, <2>4, <2>5
<1> QED
  BY <1>1, <1>2, <1>3, ScriptKinds

\* Reading on: the response to an auth-request or to get-file, or the end of
\* a row.
LEMMA ReadOnGiven ==
    ASSUME TypeInv, OrderInv, StatusInv, GivenInv, call.pc = "read", conn.toClient # <<>>,
           Accepts(Position, conn.toClient[1]), conn.toClient[1].kind \in {"auth", "ok", "done", "eod"},
           ~IsLast(conn.toClient[1]), ReadOn(conn.toClient[1])
    PROVE  GivenInv'
<1> DEFINE w == conn.toClient
           t == conn'.toClient
           item == conn.toClient[1]
<1>0. call \in CallType /\ call.op \in OpType /\ call.pos \in 1 .. Len(call.op.script)
  BY CallOp DEF TypeInv, TypeOK, GivenInv, PlaceInv
<1>1. /\ call'.got = call.got /\ call'.seen = call.seen /\ call'.op = call.op
      /\ call'.pos = call.pos + 1 /\ call'.no = call.no /\ call'.pc = "read"
      /\ outcome' = outcome /\ conn' = Rest
  BY <1>0 DEF ReadOn, CallType
<1>2. /\ item.kind = "ok" => item.shape \in Shapes
      /\ t # <<>> => /\ Adjacent(item, t[1]) /\ t[1] = w[2] /\ Len(w) > 1
                     /\ Len(t) > 1 => Whole(item, t[1], t[2])
      /\ t = <<>> /\ conn.up => item.kind # "done"
      /\ conn'.up = conn.up
  BY <1>1, NextItem
<1>3. /\ call.pos = 1 => call.op.script[call.pos] = "auth"
      /\ call.op.script = StreamScript =>
            /\ call.pos \in {1, 2, 3} /\ Len(call.op.script) = 3
            /\ call.pos = 2 => call.op.script[call.pos] = "stream"
      /\ call.op.script = FileScript =>
            /\ call.pos \in {1, 2, 3, 4} /\ Len(call.op.script) = 4
            /\ call.pos = 2 => call.op.script[call.pos] = "file"
  BY <1>0, ScriptPositions
<1>4. Taken \in Nat /\ (call.got = <<>> <=> Taken = 0) /\ Taken <= NEntries /\ Taken' = Taken
  BY <1>1, NoneTaken DEF GivenInv, CountInv, Taken
<1>5. CountInv' /\ WholeInv'
  BY <1>1 DEF GivenInv, CountInv, WholeInv, Taken
<1>6. ~call.op.dedup /\ call.pos = 1 => Taken = 0
  BY <1>4 DEF GivenInv, RestartInv, Restarted
<1>7. ~call.op.dedup /\ call.op.script = FileScript /\ call.pos \in {1, 2} => call.got = <<>>
  BY DEF GivenInv, RestartInv, Restarted
<1>8. RestartInv'
  <2>1. ~Unwritten'
    BY <1>1 DEF Unwritten
  <2>2. call'.pos # 1
    BY <1>0, <1>1
  <2>3. call'.pos = 2 => call.pos = 1
    BY <1>0, <1>1
  <2> QED
    BY <1>1, <1>7, <2>1, <2>2, <2>3 DEF RestartInv, Restarted
<1>9. ASSUME call.op.script = StreamScript PROVE Streaming(conn.toClient, conn.up)'
  <2>1. CASE call.pos = 1
    <3>1. call'.pos = 2
      BY <1>1, <2>1
    <3>2. t # <<>> /\ t[1].kind = "entry" => t[1].n = 1
      BY <1>2 DEF Adjacent
    <3>3. t # <<>> /\ t[1].kind = "done" /\ Len(t) > 1 /\ t[2].kind = "ok" => NEntries = 0
      BY <1>2 DEF Whole
    <3>4. t # <<>> /\ t[1].kind = "entry" => /\ t[1].n \in 1 .. Taken + 1
                                             /\ ~call.op.dedup => t[1].n = Taken + 1
      BY <1>4, <1>6, <2>1, <3>2
    <3>5. t # <<>> /\ t[1].kind = "done" /\ Len(t) > 1 /\ t[2].kind = "ok" => Taken = NEntries
      BY <1>4, <3>3
    <3>6. ~call.op.dedup => call.got = <<>>
      BY <1>4, <1>6, <2>1
    <3> QED
      BY <1>1, <1>4, <3>1, <3>4, <3>5, <3>6 DEF Streaming
  <2>2. CASE call.pos = 2
    <3>1. call'.pos = 3
      BY <1>1, <2>2
    <3>2. item.kind = "done"
      BY <1>2, <1>3, <1>9, <2>2 DEF Accepts, Position, Shapes
    <3>3. t # <<>> => t[1].kind \in {"ok", "fail"} /\ t[1] = w[2] /\ Len(w) > 1
      BY <1>2, <3>2 DEF Adjacent
    <3>4. t # <<>> /\ t[1].kind = "ok" => Taken = NEntries
      BY <1>9, <2>2, <3>2, <3>3 DEF GivenInv, PlaceInv, Streaming
    <3>5. t = <<>> => ~conn'.up
      BY <1>2, <3>2
    <3> QED
      BY <1>1, <1>4, <3>1, <3>3, <3>4, <3>5 DEF Streaming
  <2>3. call.pos # 3
    BY <1>3, <1>9 DEF IsLast
  <2> QED
    BY <1>3, <1>9, <2>1, <2>2, <2>3
<1>10. ASSUME call.op.script = FileScript PROVE Chunking(conn.toClient)'
  <2>1. CASE call.pos = 2
    <3>1. ~call.op.dedup
      BY <1>0, <1>10 DEF OpType, StreamScript, FileScript
    <3>2. Taken = 0
      BY <1>4, <1>7, <1>10, <2>1, <3>1
    <3>3. t # <<>> /\ t[1].kind = "chunk" => t[1].n = 1
      BY <1>2 DEF Adjacent
    <3> QED
      BY <1>1, <1>4, <3>2, <3>3 DEF Chunking
  <2>2. CASE call.pos # 2
    <3>1. call'.pos # 3
      BY <1>0, <1>1, <2>2
    <3> QED
      BY <3>1 DEF Chunking
  <2> QED
    BY <2>1, <2>2
<1>11. call'.pos \in 1 .. Len(call'.op.script)
  <2>1. Len(call.op.script) \in {2, 3, 4} /\ call.pos # Len(call.op.script)
    BY <1>0, ScriptKinds DEF IsLast
  <2>2. Len(call.op.script) \in Nat
    BY <2>1
  <2>3. call.pos + 1 \in 1 .. Len(call.op.script)
    BY <1>0, <2>1, <2>2
  <2> QED
    BY <1>1, <2>3
<1> QED
  BY <1>1, <1>5, <1>8, <1>9, <1>10, <1>11 DEF GivenInv, PlaceInv

\* One item more is given: the one after the last.
LEMMA DeliverGiven ==
    ASSUME TypeInv, OrderInv, StatusInv, GivenInv, call.pc = "read", conn.toClient # <<>>,
           Accepts(Position, conn.toClient[1]), conn.toClient[1].kind \in {"entry", "chunk"},
           Deliver(conn.toClient[1])
    PROVE  GivenInv'
<1> DEFINE w == conn.toClient
           t == conn'.toClient
           item == conn.toClient[1]
<1>0. /\ call \in CallType /\ call.op \in OpType /\ call.pos \in 1 .. Len(call.op.script)
      /\ call.no \in CallIds /\ call.got \in Seq(0 .. NEntries)
  BY CallOp DEF TypeInv, TypeOK, CallType, GivenInv, PlaceInv
<1>1. /\ call'.got = Append(call.got, item.n) /\ call'.seen = call.seen \cup {item.n}
      /\ call'.op = call.op /\ call'.pos = call.pos /\ call'.no = call.no /\ call'.pc = "read"
      /\ outcome' = outcome /\ conn' = Rest /\ ~AlreadySeen(item)
  BY <1>0 DEF Deliver, CallType
<1>2. /\ item.n \in 0 .. NEntries
      /\ t # <<>> => Adjacent(item, t[1])
      /\ t = <<>> => ~conn'.up
  BY <1>1, NextItem DEF Items
<1>3. \/ /\ call.op.script = StreamScript /\ call.pos = 2 /\ item.kind = "entry"
      \/ /\ call.op.script = FileScript /\ call.pos = 3 /\ item.kind = "chunk"
         /\ ~call.op.dedup
  <2>1. \/ Position = "stream" /\ item.kind = "entry"
        \/ Position = "chunks" /\ item.kind = "chunk"
    BY DEF Accepts
  <2>2. StreamScript # FileScript
    BY DEF StreamScript, FileScript
  <2>3. call.op.dedup => call.op.script = StreamScript
    BY <1>0 DEF OpType
  <2> QED
    BY <1>0, <2>1, <2>2, <2>3, ScriptPositions DEF Position
<1>4. Taken \in Nat /\ Taken <= NEntries /\ NEntries \in Nat
  BY NoneTaken, BoundAssumption DEF GivenInv, CountInv
<1>5. item.n = Taken + 1
  <2>1. CASE call.op.script = StreamScript /\ call.pos = 2 /\ item.kind = "entry"
    <3>1. item.n \in 1 .. Taken + 1 /\ (~call.op.dedup => item.n = Taken + 1)
      BY <2>1 DEF GivenInv, PlaceInv, Streaming
    <3>2. call.op.dedup => item.n \notin 1 .. Taken
      BY <1>1 DEF AlreadySeen, GivenInv, CountInv
    <3> QED
      BY <1>4, <3>1, <3>2
  <2>2. CASE call.op.script = FileScript /\ call.pos = 3 /\ item.kind = "chunk"
    BY <2>2 DEF GivenInv, PlaceInv, Chunking
  <2> QED
    BY <1>3, <2>1, <2>2
<1>6. Taken' = Taken + 1
  BY <1>0, <1>1 DEF Taken
<1>7. CountInv'
  <2>1. Taken' <= NEntries
    BY <1>2, <1>5, <1>6
  <2>2. ASSUME NEW i \in 1 .. Taken' PROVE call'.got[i] = i
    <3>1. CASE i = Taken + 1
      BY <1>0, <1>1, <1>5, <3>1 DEF Taken
    <3>2. CASE i # Taken + 1
      <4>1. i \in 1 .. Taken
        BY <1>4, <1>6, <3>2
      <4>2. call'.got[i] = call.got[i]
        BY <1>0, <1>1, <4>1 DEF Taken
      <4> QED
        BY <4>1, <4>2 DEF GivenInv, CountInv
    <3> QED
      BY <3>1, <3>2
  <2>3. call'.op.dedup => call'.seen = 1 .. Taken'
    <3>1. 1 .. (Taken + 1) = (1 .. Taken) \cup {Taken + 1}
      BY <1>4
    <3> QED
      BY <1>1, <1>5, <1>6, <3>1 DEF GivenInv, CountInv
  <2> QED
    BY <2>1, <2>2, <2>3 DEF CountInv
<1>8. RestartInv'
  <2>1. ~Unwritten'
    BY <1>1 DEF Unwritten
  <2>2. StreamScript # FileScript
    BY DEF StreamScript, FileScript
  <2> QED
    BY <1>1, <1>3, <2>1, <2>2 DEF RestartInv, Restarted
<1>9. WholeInv'
  <2>1. outcome[call.no] = "open"
    BY <1>0 DEF StatusInv
  <2> QED
    BY <1>1, <2>1 DEF WholeInv
<1>10. PlaceInv'
  <2>1. CASE call.op.script = StreamScript /\ call.pos = 2 /\ item.kind = "entry"
    <3>1. t # <<>> /\ t[1].kind = "entry" => t[1].n = Taken' + 1
      BY <1>2, <1>5, <1>6, <2>1 DEF Adjacent
    <3>2. t # <<>> /\ t[1].kind = "done" => Taken' = NEntries
      BY <1>2, <1>5, <1>6, <2>1 DEF Adjacent
    <3>3. Taken' + 1 \in 1 .. Taken' + 1
      BY <1>4, <1>6
    <3>4. Streaming(conn.toClient, conn.up)'
      BY <1>1, <1>2, <2>1, <3>1, <3>2, <3>3 DEF Streaming
    <3>5. StreamScript # FileScript
      BY DEF StreamScript, FileScript
    <3> QED
      BY <1>0, <1>1, <2>1, <3>4, <3>5 DEF PlaceInv
  <2>2. CASE call.op.script = FileScript /\ call.pos = 3 /\ item.kind = "chunk"
    <3>1. t # <<>> /\ t[1].kind = "chunk" => t[1].n = Taken' + 1
      BY <1>2, <1>5, <1>6, <2>2 DEF Adjacent
    <3>2. Chunking(conn.toClient)'
      BY <3>1 DEF Chunking
    <3>3. StreamScript # FileScript
      BY DEF StreamScript, FileScript
    <3> QED
      BY <1>0, <1>1, <2>2, <3>2, <3>3 DEF PlaceInv
  <2> QED
    BY <1>3, <2>1, <2>2
<1> QED
  BY <1>7, <1>8, <1>9, <1>10 DEF GivenInv

\* An item that was given before is passed over.
LEMMA SuppressGiven ==
    ASSUME TypeInv, OrderInv, GivenInv, call.pc = "read", conn.toClient # <<>>,
           Accepts(Position, conn.toClient[1]), conn.toClient[1].kind \in {"entry", "chunk"},
           Suppress(conn.toClient[1])
    PROVE  GivenInv'
<1> DEFINE t == conn'.toClient
           item == conn.toClient[1]
<1>0. call.op \in OpType /\ call.pos \in 1 .. Len(call.op.script)
  BY CallOp DEF GivenInv, PlaceInv
<1>1. /\ call' = call /\ outcome' = outcome /\ conn' = Rest
      /\ call.op.dedup /\ item.n \in call.seen
  BY DEF Suppress, AlreadySeen
<1>2. /\ t # <<>> => Adjacent(item, t[1])
      /\ t = <<>> => ~conn'.up
  BY <1>1, NextItem
<1>3. CountInv' /\ RestartInv' /\ WholeInv' /\ Taken' = Taken
  BY <1>1 DEF GivenInv, CountInv, RestartInv, Restarted, Unwritten, WholeInv, Taken
<1>4. call.op.script = StreamScript /\ StreamScript # FileScript
  BY <1>0, <1>1 DEF OpType, StreamScript, FileScript
<1>5. call.pos = 2 /\ item.kind = "entry"
  BY <1>0, <1>4, ScriptPositions DEF Accepts, Position
<1>6. Taken \in Nat /\ Taken <= NEntries /\ item.n \in 1 .. Taken /\ NEntries \in Nat
  BY <1>1, NoneTaken, BoundAssumption DEF GivenInv, CountInv
<1>7. t # <<>> /\ t[1].kind = "entry" => t[1].n \in 1 .. Taken + 1
  <2>1. t # <<>> /\ t[1].kind = "entry" => t[1].n = item.n + 1
    BY <1>2, <1>5 DEF Adjacent
  <2> QED
    BY <1>6, <2>1
<1>8. t # <<>> /\ t[1].kind = "done" => Taken = NEntries
  <2>1. t # <<>> /\ t[1].kind = "done" => item.n = NEntries
    BY <1>2, <1>5 DEF Adjacent
  <2> QED
    BY <1>6, <2>1
<1>9. Streaming(conn.toClient, conn.up)'
  BY <1>1, <1>2, <1>3, <1>5, <1>7, <1>8 DEF Streaming
<1> QED
  BY <1>0, <1>1, <1>3, <1>4, <1>9 DEF GivenInv, PlaceInv

\* Ok after a stream: the response after its end.
LEMMA SucceedGiven ==
    ASSUME TypeInv, OrderInv, GivenInv, call.pc = "read", conn.toClient # <<>>,
           Accepts(Position, conn.toClient[1]), IsLast(conn.toClient[1]),
           Succeed(Rest, conn.toClient[1])
    PROVE  GivenInv'
<1> DEFINE item == conn.toClient[1]
<1>0. call \in CallType /\ call.op \in OpType /\ call.pos \in 1 .. Len(call.op.script)
  BY CallOp DEF TypeInv, TypeOK, GivenInv, PlaceInv
<1>1. /\ call'.got = call.got /\ call'.seen = call.seen /\ call'.op = call.op
      /\ call'.pos = call.pos /\ call'.no = call.no /\ call'.pc = "idle"
  BY <1>0 DEF Succeed, CallType
<1>2. CountInv' /\ Taken' = Taken
  BY <1>1 DEF GivenInv, CountInv, Taken
<1>3. RestartInv'
  BY <1>1 DEF RestartInv, Restarted, Unwritten
<1>4. PlaceInv'
  BY <1>0, <1>1 DEF PlaceInv
<1>5. call.op.script = StreamScript => Taken = NEntries
  <2>1. SUFFICES ASSUME call.op.script = StreamScript PROVE Taken = NEntries
    OBVIOUS
  <2>2. call.pos = 3 /\ call.op.script[call.pos] = "any"
    BY <1>0, <2>1, ScriptPositions, SMTT(30) DEF IsLast
  <2>3. item.kind \in {"auth", "ok"}
    BY <2>2 DEF Accepts, Position
  <2> QED
    BY <2>1, <2>2, <2>3 DEF GivenInv, PlaceInv, Streaming
<1>6. WholeInv'
  BY <1>1, <1>2, <1>5 DEF WholeInv
<1> QED
  BY <1>2, <1>3, <1>4, <1>6 DEF GivenInv

\* Reading an item.
LEMMA ReadItemGiven ==
    ASSUME TypeInv, OrderInv, StatusInv, GivenInv, ReadItem
    PROVE  GivenInv'
<1> DEFINE item == conn.toClient[1]
<1>1. /\ call.pc = "read" /\ conn.toClient # <<>> /\ Head(conn.toClient) = item
      /\ Reject(item) \/ Complete(item) \/ Take(item)
  BY NextItem DEF ReadItem
<1>2. CASE Reject(item)
  <2>1. Misread(Position, item) \in Errors
    BY DEF Misread, Errors
  <2> QED
    BY <1>1, <1>2, <2>1, FailGiven DEF Reject
<1>3. CASE Complete(item)
  BY <1>1, <1>3, SucceedGiven, ReadOnGiven DEF Complete
<1>4. CASE Take(item)
  <2>1. CASE Overflow(item) \/ CallbackFails(item)
    BY <1>1, <2>1, FailGiven DEF Overflow, CallbackFails, Errors
  <2> QED
    BY <1>1, <1>4, <2>1, DeliverGiven, SuppressGiven DEF Take
<1> QED
  BY <1>1, <1>2, <1>3, <1>4

\* Every step gives the caller the next item or none.
LEMMA GivenStep == TypeInv /\ OrderInv /\ StatusInv /\ GivenInv /\ [Next]_vars => GivenInv'
<1> SUFFICES ASSUME TypeInv, OrderInv, StatusInv, GivenInv, [Next]_vars PROVE GivenInv'
  OBVIOUS
<1>1. CASE Send
  <2>1. CASE SendFails \/ SendTimesOut
    BY <1>1, <2>1, FailGiven DEF Send, SendFails, SendTimesOut, Errors
  <2> QED
    BY <1>1, <2>1, SentGiven DEF Send, SendCommand, SendInVain
<1>2. CASE ReadEof \/ ReadTimeout
  BY <1>2, FailGiven DEF ReadEof, ReadTimeout, Errors
<1>3. CASE UNCHANGED vars
  BY <1>3 DEF vars, GivenInv, CountInv, RestartInv, Restarted, Unwritten, WholeInv,
              PlaceInv, Streaming, Chunking, Taken
<1> QED
  BY <1>1, <1>2, <1>3, ConnectGiven, StartCallGiven, ReadItemGiven, ServerGiven
     DEF Next, Progress, Environment

\* At first nothing was given, and nothing is on its way.
LEMMA GivenInit == Init => OrderInv /\ GivenInv
<1> SUFFICES ASSUME Init PROVE OrderInv /\ GivenInv
  OBVIOUS
<1>1. conn.toClient = <<>>
  BY DEF Init, Fresh
<1>2. /\ call.got = <<>> /\ call.seen = {} /\ call.pos = 1 /\ call.no = 0
      /\ call.pc = "idle" /\ call.op \in OpType
  BY OpsAssumption DEF Init, Idle
<1>3. Taken = 0
  BY <1>2, EmptySeq DEF Taken
<1>4. CountInv
  <2>1. {} = 1 .. 0 /\ 0 <= NEntries
    BY BoundAssumption
  <2> QED
    BY <1>2, <1>3, <2>1 DEF CountInv
<1>5. PlaceInv
  <2>1. Len(call.op.script) \in {2, 3, 4}
    BY <1>2, ScriptKinds
  <2>2. \A n \in {2, 3, 4} : 1 \in 1 .. n
    OBVIOUS
  <2>3. 1 \in 1 .. Len(call.op.script)
    BY <2>1, <2>2, Zenon
  <2> QED
    BY <1>2, <2>3 DEF PlaceInv
<1> QED
  BY <1>1, <1>2, <1>4, <1>5, OrderNone DEF OrderInv, GivenInv, RestartInv, WholeInv

\* The entries of a stream and the chunks of a file reach the caller once and
\* in order, over all restarts and whatever was left on the connection by
\* calls before; Ok after a stream says that all of them did.
THEOREM EntriesInOrder == Spec => []EntriesOnce
<1>1. TypeInv /\ GivenInv => EntriesOnce
  <2> SUFFICES ASSUME TypeInv, GivenInv PROVE EntriesOnce
    OBVIOUS
  <2>1. call.op \in OpType /\ call.got \in Seq(0 .. NEntries)
    BY CallOp DEF TypeInv, TypeOK, CallType
  <2>2. \A i \in DOMAIN call.got : call.got[i] = i
    BY <2>1 DEF GivenInv, CountInv, Taken
  <2>3. \A i \in DOMAIN call.op.script :
           call.op.script[i] = "stream" => call.op.script = StreamScript
    <3>1. call.op.script \in Seq(Positions)
      BY <2>1, ScriptType
    <3>2. DOMAIN call.op.script = 1 .. Len(call.op.script)
      BY <3>1
    <3> QED
      BY <2>1, <3>2, ScriptPositions
  <2> QED
    BY <2>2, <2>3 DEF GivenInv, WholeInv, EntriesOnce, Taken
<1> QED
  BY <1>1, TypeInit, TypeStep, StatusInit, StatusStep, GivenInit, OrderStep, GivenStep,
     PTL DEF Spec

-----------------------------------------------------------------------------
(* As long as nothing but lost connections and refusals went wrong, what a *)
(* method reads is the answer to its own command.                          *)

\* The command of the call in progress.
Own(req) == req.call = call.no /\ req.op = call.op /\ req.url = call.url

\* The server has executed it, if it has an effect.
Executed == call.op \in Mutating => \E r \in served : r.call = call.no

\* Unread items of its answer: the auth-request and the response to get-file
\* are where they are read, and nothing follows the item that ends the answer.
Placed(w) ==
    \A i \in 1 .. Len(w) :
       /\ w[i].kind = "auth" => call.pos + i = 2
       /\ w[i].kind = "ok" /\ ~Final(call.op, w[i])
             => call.op.script = FileScript /\ call.pos + i = 3
       /\ Final(call.op, w[i]) => i = Len(w)
       /\ Final(call.op, w[i]) /\ w[i].kind = "ok" => Executed

\* Nothing is on its way on a connection, and a live one is where the session
\* believes it to be.
AtRest ==
    /\ conn.toServer = <<>> /\ conn.toClient = <<>> /\ ~conn.authed
    /\ conn.up => conn.url = baseUrl

\* The command is under way to the server, which has yet to ask ...
Asked ==
    /\ conn.up /\ ~conn.authed /\ conn.url = baseUrl /\ call.pos = 1
    /\ conn.toServer # <<>> /\ Tail(conn.toServer) = <<>> /\ Own(Head(conn.toServer))
    /\ conn.toClient = <<>>

\* ... or has asked for authentication ...
Authenticating ==
    /\ conn.up /\ conn.authed /\ conn.url = baseUrl
    /\ conn.toServer # <<>> /\ Tail(conn.toServer) = <<>> /\ Own(Head(conn.toServer))
    /\ \/ /\ call.pos = 1 /\ conn.toClient # <<>> /\ Tail(conn.toClient) = <<>>
          /\ Head(conn.toClient).kind = "auth"
       \/ call.pos = 2 /\ conn.toClient = <<>>

\* ... or has answered, and all of it arrives unless the connection is lost.
Answered ==
    /\ conn.toServer = <<>> /\ ~conn.authed
    /\ Placed(conn.toClient)
    /\ conn.up => /\ conn.toClient # <<>> /\ Final(call.op, Latest(conn.toClient))
                  /\ conn.url = IF Latest(conn.toClient).kind = "ok" THEN UrlAfterOk ELSE baseUrl

Tidy ==
    \/ call.pc # "read" /\ AtRest
    \/ call.pc = "read" /\ (Asked \/ Authenticating \/ Answered)

TidyInv == Undisturbed => Tidy

\* What a call has returned stays.
LEMMA OutcomeStays ==
    ASSUME TypeInv, StatusInv, [Next]_vars, NEW c \in CallIds,
           outcome[c] # "none", outcome[c] # "open"
    PROVE  outcome'[c] = outcome[c]
<1>0. outcome \in [CallIds -> Outcomes]
  BY DEF TypeInv, TypeOK
<1>1. c # call.no + 1 /\ ~(c = call.no /\ call.pc # "idle")
  <2>1. call.no \in Nat /\ c \in Nat
    BY DEF TypeInv, TypeOK, CallType, CallIds
  <2> QED
    BY <1>0, <2>1 DEF StatusInv
<1>2. ASSUME NEW op, NEW url, NEW limit, StartCall(op, url, limit)
      PROVE  outcome'[c] = outcome[c]
  BY <1>0, <1>1, <1>2 DEF StartCall
<1>3. ASSUME NEW status, Returns(status) PROVE outcome'[c] = outcome[c]
  BY <1>0, <1>1, <1>3 DEF Returns
<1>4. CASE GoesOn \/ UNCHANGED <<call, outcome>> \/ UNCHANGED vars
  BY <1>4 DEF GoesOn, vars
<1> QED
  BY <1>2, <1>3, <1>4, StepKinds

\* What was disturbed stays disturbed.
LEMMA DisturbedStays ==
    ASSUME TypeInv, StatusInv, [Next]_vars, Undisturbed'
    PROVE  Undisturbed
<1> SUFFICES ASSUME NEW c \in CallIds, outcome[c] \in Disturbing PROVE FALSE
  BY DEF Undisturbed
<1>1. outcome[c] # "none" /\ outcome[c] # "open"
  BY DEF Disturbing
<1> QED
  BY <1>1, OutcomeStays DEF Undisturbed

\* A call that returns undisturbed has a result that disturbs nothing.
LEMMA ReturnsUndisturbed ==
    ASSUME TypeInv, NEW status, call.no \in CallIds, Undisturbed',
           outcome' = [outcome EXCEPT ![call.no] = status]
    PROVE  status \notin Disturbing
<1>1. outcome'[call.no] = status
  BY DEF TypeInv, TypeOK
<1> QED
  BY <1>1 DEF Undisturbed

\* A session without a connection is at rest.
LEMMA NoConnAtRest ==
    ASSUME conn' = NoConn
    PROVE  AtRest'
BY DEF AtRest, NoConn

\* A method that fails undisturbed leaves no connection, or the one it has.
LEMMA FailUndisturbed ==
    ASSUME TypeInv, call.pc # "idle", Undisturbed', NEW c, NEW err, Fail(c, err)
    PROVE  /\ call'.pc # "read" /\ baseUrl' = baseUrl
           /\ \/ conn' = NoConn
              \/ conn' = c /\ err \notin Disturbing
<1>1. baseUrl' = baseUrl /\ call \in CallType /\ call.no \in CallIds
  BY DEF Fail, TypeInv, TypeOK
<1>2. CASE StartOver(c, err)
  <2>1. /\ call' = [call EXCEPT !.pc = "connect", !.dials = 0, !.attempt = NextAttempt]
        /\ conn' = NoConn
    BY <1>2, Zenon DEF StartOver
  <2> QED
    BY <1>1, <2>1 DEF CallType
<1>3. CASE GiveUp(c, err)
  <2>1. outcome' = [outcome EXCEPT ![call.no] = err] /\ (conn' = c \/ conn' = NoConn)
    BY <1>3 DEF GiveUp, Return
  <2>2. call'.pc = "idle"
    BY <1>1, <1>3 DEF GiveUp, Return, CallType
  <2> QED
    BY <1>1, <2>1, <2>2, ReturnsUndisturbed
<1> QED
  BY <1>2, <1>3 DEF Fail

\* What the server has executed stays executed.
LEMMA ExecutedStays ==
    ASSUME call'.no = call.no, call'.op = call.op, served \subseteq served', Executed
    PROVE  Executed'
BY DEF Executed

\* The last item stays the last when the first is read.
LEMMA LatestTail ==
    ASSUME NEW w \in Seq(Items), w # <<>>, Tail(w) # <<>>
    PROVE  Latest(Tail(w)) = Latest(w)
<1> DEFINE t == Tail(w)
<1>1. /\ Len(w) \in Nat /\ Len(t) = Len(w) - 1 /\ Len(t) > 0
      /\ \A i \in 1 .. Len(t) : t[i] = w[i + 1]
  OBVIOUS
<1>2. Len(t) \in 1 .. Len(t) /\ Len(t) + 1 = Len(w)
  BY <1>1
<1> HIDE DEF t
<1>3. Latest(t) = Latest(w)
  BY <1>1, <1>2 DEF Latest
<1> QED
  BY <1>3 DEF t

\* An item other than the last is not the end of the answer.
LEMMA OneLeft ==
    ASSUME NEW w \in Seq(Items), w # <<>>, Placed(w), Final(call.op, w[1])
    PROVE  Tail(w) = <<>> /\ Latest(w) = w[1]
<1>1. 1 \in 1 .. Len(w)
  OBVIOUS
<1>2. Len(w) = 1
  BY <1>1 DEF Placed
<1>3. Tail(w) \in Seq(Items) /\ Len(Tail(w)) = 0
  BY <1>2
<1>4. \A s \in Seq(Items) : s = <<>> <=> Len(s) = 0
  OBVIOUS
<1>5. Tail(w) = <<>>
  BY <1>3, <1>4, Zenon
<1> QED
  BY <1>2, <1>5 DEF Latest

\* Reading an item leaves the rest where it is read.
LEMMA PlacedTail ==
    ASSUME NEW w \in Seq(Items), w # <<>>, Placed(w), conn'.toClient = Tail(w),
           call'.no = call.no, call'.op = call.op, served \subseteq served',
           call.pos \in Nat,
           \/ call'.pos = call.pos + 1
           \/ call'.pos = call.pos /\ call.pos >= 2
    PROVE  Placed(conn.toClient)'
<1> DEFINE t == Tail(w)
<1>1. /\ Len(w) \in Nat /\ Len(t) = Len(w) - 1
      /\ \A i \in 1 .. Len(t) : t[i] = w[i + 1]
  OBVIOUS
<1>2. ASSUME NEW i \in 1 .. Len(t)
      PROVE  /\ t[i].kind = "auth" => call'.pos + i = 2
             /\ t[i].kind = "ok" /\ ~Final(call.op, t[i])
                   => call.op.script = FileScript /\ call'.pos + i = 3
             /\ Final(call.op, t[i]) => i = Len(t)
             /\ Final(call.op, t[i]) /\ t[i].kind = "ok" => Executed'
  <2>1. i + 1 \in 1 .. Len(w) /\ t[i] = w[i + 1] /\ i \in Nat /\ i >= 1
    BY <1>1
  <2> HIDE DEF t
  <2>2. /\ t[i].kind = "auth" => call.pos + (i + 1) = 2
        /\ t[i].kind = "ok" /\ ~Final(call.op, t[i])
              => call.op.script = FileScript /\ call.pos + (i + 1) = 3
        /\ Final(call.op, t[i]) => i + 1 = Len(w)
        /\ Final(call.op, t[i]) /\ t[i].kind = "ok" => Executed
    BY <2>1 DEF Placed
  <2>3. Executed => Executed'
    BY ExecutedStays
  <2>4. call.pos + (i + 1) = 2 => call'.pos + i = 2
    BY <2>1
  <2>5. call.pos + (i + 1) = 3 => call'.pos + i = 3
    BY <2>1
  <2> QED
    BY <1>1, <2>1, <2>2, <2>3, <2>4, <2>5
<1> QED
  BY <1>2 DEF Placed

\* A method that is not reading is at rest.
LEMMA NotReading ==
    ASSUME Tidy, call.pc # "read"
    PROVE  AtRest
BY DEF Tidy

\* Reaching, or failing to reach, a connection.
LEMMA ConnectTidy ==
    ASSUME TypeInv, Undisturbed', Tidy,
           AlreadyConnected \/ Reconnect \/ ReconnectFails \/ Cancel
    PROVE  Tidy'
<1>0. call \in CallType
  BY DEF TypeInv, TypeOK
<1>1. CASE AlreadyConnected
  <2>1. call'.pc = "send" /\ conn' = conn /\ baseUrl' = baseUrl /\ call.pc # "read"
    BY <1>0, <1>1 DEF AlreadyConnected, CallType
  <2> QED
    BY <2>1, NotReading DEF Tidy, AtRest
<1>2. CASE Reconnect
  <2>1. call'.pc = "send" /\ conn' = Fresh(baseUrl) /\ baseUrl' = baseUrl
    BY <1>0, <1>2 DEF Reconnect, CallType
  <2> QED
    BY <2>1 DEF Tidy, AtRest, Fresh
<1>3. CASE ReconnectFails
  <2>0. AtRest /\ call.pc = "connect"
    BY <1>3, NotReading DEF ReconnectFails
  <2>1. CASE DialAgain
    <3>1. call'.pc = "connect" /\ conn' = conn /\ baseUrl' = baseUrl
      BY <1>0, <2>0, <2>1 DEF DialAgain, CallType
    <3> QED
      BY <2>0, <3>1 DEF Tidy, AtRest
  <2>2. ASSUME NEW err \in Errors, NoDial(err) PROVE Tidy'
    <3>1. CASE Fail(conn, err)
      <4>1. /\ call'.pc # "read" /\ baseUrl' = baseUrl
            /\ conn' = NoConn \/ conn' = conn
        BY <2>0, <3>1, FailUndisturbed
      <4> QED
        BY <2>0, <4>1, NoConnAtRest DEF Tidy, AtRest
    <3>2. CASE Return(conn, err) /\ baseUrl' = baseUrl
      <4>1. call'.pc = "idle" /\ conn' = conn
        BY <1>0, <3>2 DEF Return, CallType
      <4> QED
        BY <2>0, <3>2, <4>1 DEF Tidy, AtRest
    <3> QED
      BY <2>2, <3>1, <3>2 DEF NoDial
  <2> QED
    BY <1>3, <2>1, <2>2 DEF ReconnectFails
<1>4. CASE Cancel
  <2>1. call.no \in CallIds /\ outcome' = [outcome EXCEPT ![call.no] = "cancelled"]
    BY <1>4 DEF Cancel, Return, TypeInv
  <2>2. FALSE
    BY <2>1, ReturnsUndisturbed DEF Disturbing
  <2> QED
    BY <2>2
<1> QED
  BY <1>1, <1>2, <1>3, <1>4

\* Writing the command.
LEMMA SendTidy ==
    ASSUME TypeInv, Undisturbed', Tidy, Send
    PROVE  Tidy'
<1>0. call \in CallType /\ call.pc = "send" /\ AtRest /\ conn \in ConnType
  BY NotReading DEF TypeInv, TypeOK, Send
<1>1. ASSUME NEW c, Sent(c)
      PROVE  /\ call'.pc = "read" /\ call'.pos = 1 /\ call'.no = call.no /\ call'.op = call.op
             /\ call'.url = call.url /\ conn' = c /\ baseUrl' = baseUrl
  BY <1>0, <1>1 DEF Sent, CallType
<1>2. CASE SendCommand
  <2> DEFINE c == [conn EXCEPT !.toServer = Append(@, Request)]
  <2>1. /\ c.toServer = Append(<<>>, Request) /\ c.toClient = <<>>
        /\ c.up /\ ~c.authed /\ c.url = baseUrl
    BY <1>0, <1>2 DEF ConnType, AtRest, SendCommand
  <2>2. /\ Append(<<>>, Request) # <<>> /\ Tail(Append(<<>>, Request)) = <<>>
        /\ Head(Append(<<>>, Request)) = Request
    <3> HIDE DEF c
    <3> QED
      OBVIOUS
  <2>3. Request.call = call.no /\ Request.op = call.op /\ Request.url = call.url
    BY DEF Request
  <2>4. Sent(c)
    BY <1>2 DEF SendCommand
  <2> HIDE DEF c
  <2>5. Asked'
    BY <1>1, <2>1, <2>2, <2>3, <2>4 DEF Asked, Own
  <2> QED
    BY <1>1, <2>4, <2>5 DEF Tidy
<1>3. CASE SendInVain
  <2>1. conn' = conn /\ call'.pc = "read" /\ ~conn.up
    BY <1>1, <1>3 DEF SendInVain
  <2>2. \A i \in 1 .. Len(<<>>) : FALSE
    BY EmptySeq
  <2>3. Answered'
    BY <1>0, <2>1, <2>2 DEF Answered, AtRest, Placed
  <2> QED
    BY <2>1, <2>3 DEF Tidy
<1>4. CASE SendFails \/ SendTimesOut
  <2>1. /\ call'.pc # "read" /\ baseUrl' = baseUrl
        /\ conn' = NoConn \/ conn' = conn
    BY <1>0, <1>4, FailUndisturbed DEF SendFails, SendTimesOut
  <2> QED
    BY <1>0, <2>1, NoConnAtRest DEF Tidy, AtRest
<1> QED
  BY <1>2, <1>3, <1>4 DEF Send

\* A method that reads has the items of its answer in front of it.
LEMMA UnderWay ==
    ASSUME Tidy, call.pc = "read"
    PROVE  Asked \/ Authenticating \/ Answered
BY DEF Tidy

\* What is left of a connection when an item has been read.
LEMMA RestFields ==
    ASSUME TypeInv, conn.toClient # <<>>
    PROVE  /\ Rest.toServer = conn.toServer /\ Rest.authed = conn.authed
           /\ Rest.up = conn.up /\ Rest.url = conn.url
           /\ Rest.toClient = Tail(conn.toClient)
           /\ conn.toClient \in Seq(Items) /\ Head(conn.toClient) = conn.toClient[1]
           /\ conn.toClient[1] \in Items
<1>1. conn \in ConnType
  BY DEF TypeInv, ConnOK
<1>2. conn.toClient \in Seq(Items)
  BY <1>1 DEF ConnType
<1>3. Head(conn.toClient) = conn.toClient[1] /\ conn.toClient[1] \in Items
  BY <1>2
<1> QED
  BY <1>1, <1>2, <1>3 DEF Rest, ConnType

\* An answer is read on until its end.
LEMMA AnsweredMore ==
    ASSUME TypeInv, Answered, conn.toClient # <<>>, ~Final(call.op, conn.toClient[1]),
           conn' = Rest, baseUrl' = baseUrl, served' = served,
           call'.no = call.no, call'.op = call.op, call'.url = call.url,
           \/ call'.pos = call.pos + 1
           \/ call'.pos = call.pos /\ call.pos >= 2
    PROVE  Answered'
<1> DEFINE w == conn.toClient
           t == conn'.toClient
<1>1. /\ conn'.toServer = <<>> /\ ~conn'.authed /\ conn'.up = conn.up /\ conn'.url = conn.url
      /\ t = Tail(w) /\ w \in Seq(Items) /\ call.pos \in Nat
  BY RestFields DEF Answered, TypeInv, TypeOK, CallType
<1>2. Placed(conn.toClient)'
  BY <1>1, PlacedTail DEF Answered
<1>3. conn.up => Final(call.op, Latest(w))
  BY DEF Answered
<1>4. conn.up => t # <<>>
  <2>1. t = <<>> => Len(w) = 1
    <3>1. \A s \in Seq(Items) : s # <<>> => Len(Tail(s)) = Len(s) - 1 /\ Len(s) \in Nat
      OBVIOUS
    <3>2. Len(t) = Len(w) - 1 /\ Len(w) \in Nat
      BY <1>1, <3>1
    <3> HIDE DEF t, w
    <3> QED
      BY <3>2, EmptySeq
  <2>2. Latest(w) = w[Len(w)]
    BY DEF Latest
  <2> QED
    BY <1>3, <2>1, <2>2
<1>5. conn.up => Latest(t) = Latest(w)
  BY <1>1, <1>4, LatestTail
<1>6. UrlAfterOk' = UrlAfterOk
  BY DEF UrlAfterOk
<1>7. conn.up => conn.url = IF Latest(w).kind = "ok" THEN UrlAfterOk ELSE baseUrl
  BY DEF Answered
<1>8. conn'.up => /\ t # <<>> /\ Final(call'.op, Latest(t))
                  /\ conn'.url = IF Latest(t).kind = "ok" THEN UrlAfterOk' ELSE baseUrl'
  BY <1>1, <1>3, <1>4, <1>5, <1>6, <1>7
<1> QED
  BY <1>1, <1>2, <1>8 DEF Answered, Latest, Final, Ends

\* The last position is the end of the answer.
LEMMA LastIsFinal ==
    ASSUME TypeInv, PlaceInv, Tidy, call.pc = "read", conn.toClient # <<>>,
           Accepts(Position, conn.toClient[1]),
           conn.toClient[1].kind \in {"auth", "ok", "done", "eod"},
           IsLast(conn.toClient[1])
    PROVE  Answered /\ conn.toClient[1].kind = "ok" /\ Final(call.op, conn.toClient[1])
<1> DEFINE item == conn.toClient[1]
<1>1. /\ call.pos = Len(call.op.script) /\ Len(call.op.script) \in {2, 3, 4}
      /\ Position = Ends(call.op) /\ Ends(call.op) \in Shapes
  BY CallOp, ScriptKinds DEF IsLast, Position, Ends
<1>2. call.pos # 1 /\ call.pos + 1 # 2
  <2>1. \A n \in {2, 3, 4} : n # 1 /\ n + 1 # 2
    OBVIOUS
  <2> QED
    BY <1>1, <2>1
<1>3. Answered
  BY <1>2, UnderWay DEF Asked, Authenticating
<1>4. /\ item.kind = "auth" => call.pos + 1 = 2
      /\ item.kind = "ok" /\ ~Final(call.op, item) => call.op.script = FileScript /\ call.pos + 1 = 3
  <2>1. 1 \in 1 .. Len(conn.toClient)
    <3>1. \A s \in Seq(Items) : s # <<>> => 1 \in 1 .. Len(s)
      OBVIOUS
    <3> QED
      BY <3>1, RestFields, Zenon
  <2> QED
    BY <1>3, <2>1 DEF Answered, Placed
<1>5. item.kind \in {"auth", "ok"}
  BY <1>1 DEF Accepts, Shapes
<1>6. item.kind # "auth"
  BY <1>2, <1>4
<1>7. ASSUME call.op.script = FileScript PROVE call.pos = 4 /\ call.pos + 1 # 3
  <2>1. Len(FileScript) = 4
    BY DEF FileScript
  <2> QED
    BY <1>1, <1>7, <2>1
<1> QED
  BY <1>3, <1>4, <1>5, <1>6, <1>7

\* No position before the last is.
LEMMA EarlierIsNot ==
    ASSUME TypeInv, PlaceInv, conn.toClient # <<>>, Accepts(Position, conn.toClient[1]),
           ~IsLast(conn.toClient[1])
    PROVE  ~Final(call.op, conn.toClient[1])
<1> DEFINE item == conn.toClient[1]
<1>0. call.op \in OpType /\ call.pos \in 1 .. Len(call.op.script)
  BY CallOp DEF PlaceInv
<1>1. Position \in {"auth", "stream", "file", "chunks"}
  <2>1. /\ Len(call.op.script) \in {2, 3, 4} /\ call.op.script[1] = "auth"
        /\ \A i \in 2 .. Len(call.op.script) - 1 :
              call.op.script[i] \in {"stream", "file", "chunks"}
    BY <1>0, ScriptKinds
  <2>2. call.pos = 1 \/ call.pos \in 2 .. Len(call.op.script) - 1
    BY <1>0, <2>1 DEF IsLast
  <2> QED
    BY <2>1, <2>2 DEF Position
<1>2. item.kind # "fail"
  BY <1>1 DEF Accepts
<1>3. item.kind = "ok" => item.shape = Position
  BY <1>1 DEF Accepts
<1>4. Ends(call.op) \in Shapes
  BY <1>0, ScriptKinds
<1>5. Position # Ends(call.op)
  <2>1. "auth" \notin Shapes /\ "stream" \notin Shapes /\ "chunks" \notin Shapes
    BY DEF Shapes
  <2>2. CASE Position = "file"
    <3>1. call.op.script # StreamScript
      <4>1. call.op.script = StreamScript => Position \in {"auth", "stream", "any"}
        BY <1>0, ScriptPositions DEF Position
      <4> QED
        BY <2>2, <4>1
    <3>2. call.op.script = FileScript => Ends(call.op) = "any"
      BY <1>0, ScriptKinds
    <3>3. ASSUME NEW shape \in Shapes, call.op.script = <<"auth", shape>> PROVE FALSE
      <4>1. Len(call.op.script) = 2 /\ call.op.script[1] = "auth"
        BY <3>3
      <4>2. call.pos = 1
        BY <1>0, <4>1 DEF IsLast
      <4> QED
        BY <2>2, <4>1, <4>2 DEF Position
    <3> QED
      BY <1>0, <2>2, <3>1, <3>2, <3>3, ScriptKinds
  <2> QED
    BY <1>1, <1>4, <2>1, <2>2
<1> QED
  BY <1>2, <1>3, <1>5 DEF Final

\* Reading an item.
LEMMA ReadItemTidy ==
    ASSUME TypeInv, PlaceInv, Undisturbed', Tidy, ReadItem
    PROVE  Tidy'
<1> DEFINE w == conn.toClient
           item == conn.toClient[1]
<1>0. /\ call \in CallType /\ call.pc = "read" /\ w # <<>> /\ w \in Seq(Items)
      /\ Head(w) = item /\ call.op \in OpType /\ call.pos \in 1 .. Len(call.op.script)
      /\ Len(call.op.script) \in {2, 3, 4}
  BY RestFields, CallOp, ScriptKinds DEF ReadItem, TypeInv, TypeOK, PlaceInv
<1>1. ASSUME NEW err, Fail(Rest, err), err \in Disturbing PROVE Tidy'
  <2>1. call'.pc # "read" /\ conn' = NoConn
    BY <1>0, <1>1, FailUndisturbed
  <2> QED
    BY <2>1, NoConnAtRest DEF Tidy
<1>2. CASE Reject(item)
  <2>1. CASE item.kind = "fail" /\ Misread(Position, item) = "server"
    <3>2. Answered
      <4>1. Authenticating => item.kind = "auth"
        BY <1>0 DEF Authenticating
      <4> QED
        BY <1>0, <2>1, <4>1, UnderWay DEF Asked
    <3>3. Tail(w) = <<>> /\ Latest(w) = item
      BY <1>0, <2>1, <3>2, OneLeft DEF Answered, Final
    <3>4. conn.up => conn.url = baseUrl
      BY <2>1, <3>2, <3>3 DEF Answered
    <3>5. /\ call'.pc # "read" /\ baseUrl' = baseUrl
          /\ conn' = NoConn \/ conn' = Rest
      BY <1>0, <1>2, FailUndisturbed DEF Reject
    <3>6. conn' = Rest => AtRest'
      BY <1>0, <3>2, <3>3, <3>4, <3>5, RestFields DEF AtRest, Answered
    <3> QED
      BY <3>5, <3>6, NoConnAtRest DEF Tidy
  <2>2. CASE ~(item.kind = "fail" /\ Misread(Position, item) = "server")
    <3>1. Misread(Position, item) \in Disturbing
      BY <2>2 DEF Misread, Disturbing
    <3> QED
      BY <1>1, <1>2, <3>1 DEF Reject
  <2> QED
    BY <2>1, <2>2
<1>3. CASE Complete(item) /\ IsLast(item) /\ Succeed(Rest, item)
  <2>1. Answered /\ item.kind = "ok" /\ Final(call.op, item)
    BY <1>0, <1>3, LastIsFinal DEF Complete
  <2>2. Tail(w) = <<>> /\ Latest(w) = item
    BY <1>0, <2>1, OneLeft DEF Answered
  <2>3. call'.pc = "idle" /\ conn' = Rest /\ baseUrl' = UrlAfterOk
    BY <1>0, <1>3 DEF Succeed, CallType
  <2>4. conn.up => conn.url = UrlAfterOk
    BY <1>0, <2>1, <2>2 DEF Answered
  <2>5. AtRest'
    BY <1>0, <2>1, <2>2, <2>3, <2>4, RestFields DEF AtRest, Answered
  <2> QED
    BY <2>3, <2>5 DEF Tidy
<1>4. CASE Complete(item) /\ ~IsLast(item) /\ ReadOn(item)
  <2>1. /\ conn' = Rest /\ call'.pos = call.pos + 1 /\ call'.pc = "read"
        /\ call'.no = call.no /\ call'.op = call.op /\ call'.url = call.url
        /\ baseUrl' = baseUrl /\ served' = served
    BY <1>0, <1>4 DEF ReadOn, CallType
  <2>2. CASE Authenticating
    <3>1. call.pos = 1 /\ Tail(w) = <<>>
      BY <1>0, <2>2 DEF Authenticating
    <3>2. call'.pos = 2 /\ conn'.toClient = <<>> /\ conn'.toServer = conn.toServer
      <4>1. call'.pos = 2
        BY <2>1, <3>1
      <4>2. Rest.toClient = Tail(w) /\ Rest.toServer = conn.toServer
        BY <1>0, RestFields
      <4> QED
        BY <2>1, <3>1, <4>1, <4>2
    <3>3. conn'.up = conn.up /\ conn'.authed = conn.authed /\ conn'.url = conn.url
      BY <1>0, <2>1, RestFields
    <3>4. Authenticating'
      BY <2>1, <2>2, <3>2, <3>3 DEF Authenticating, Own
    <3> QED
      BY <2>1, <3>4 DEF Tidy
  <2>3. CASE Answered
    <3>1. ~Final(call.op, item)
      BY <1>0, <1>4, EarlierIsNot DEF Complete
    <3>2. Answered'
      BY <1>0, <2>1, <2>3, <3>1, AnsweredMore
    <3> QED
      BY <2>1, <3>2 DEF Tidy
  <2> QED
    BY <1>0, <2>2, <2>3, UnderWay DEF Asked
<1>5. CASE Accepts(Position, item) /\ item.kind \in {"entry", "chunk"} /\ (Deliver(item) \/ Suppress(item))
  <2>1. /\ conn' = Rest /\ call'.pos = call.pos /\ call'.pc = "read"
        /\ call'.no = call.no /\ call'.op = call.op /\ call'.url = call.url
        /\ baseUrl' = baseUrl /\ served' = served
    BY <1>0, <1>5 DEF Deliver, Suppress, CallType
  <2>2. call.pos >= 2
    <3>1. Position \in {"stream", "chunks"}
      BY <1>5 DEF Accepts
    <3>2. call.pos \in {2, 3}
      BY <1>0, <3>1, ScriptPositions DEF Position
    <3> QED
      BY <3>2
  <2>3. Answered
    <3>1. Authenticating => item.kind = "auth"
      BY <1>0 DEF Authenticating
    <3> QED
      BY <1>0, <1>5, <3>1, UnderWay DEF Asked
  <2>4. ~Final(call.op, item)
    BY <1>5 DEF Final
  <2>5. Answered'
    BY <1>0, <2>1, <2>2, <2>3, <2>4, AnsweredMore
  <2> QED
    BY <2>1, <2>5 DEF Tidy
<1>6. CASE Overflow(item) \/ CallbackFails(item)
  BY <1>1, <1>6 DEF Overflow, CallbackFails, Disturbing
<1> QED
  BY <1>0, <1>2, <1>3, <1>4, <1>5, <1>6 DEF ReadItem, Complete, Take

\* Waiting in vain.
LEMMA WaitTidy ==
    ASSUME TypeInv, Undisturbed', Tidy, ReadEof \/ ReadTimeout
    PROVE  Tidy'
<1>1. CASE ReadEof
  <2>1. Answered
    BY <1>1, UnderWay DEF ReadEof, Asked, Authenticating
  <2>2. /\ call'.pc # "read" /\ baseUrl' = baseUrl
        /\ conn' = NoConn \/ conn' = conn
    BY <1>1, FailUndisturbed DEF ReadEof
  <2> QED
    BY <1>1, <2>1, <2>2, NoConnAtRest DEF Tidy, AtRest, ReadEof, Answered
<1>2. CASE ReadTimeout
  <2>1. call'.pc # "read" /\ conn' = NoConn
    BY <1>2, FailUndisturbed DEF ReadTimeout, Disturbing
  <2> QED
    BY <2>1, NoConnAtRest DEF Tidy
<1> QED
  BY <1>1, <1>2

\* The answer comes after the auth-request, whether that has been read or not.
LEMMA PlacedAnswer ==
    ASSUME TypeInv, Authenticating, call' = call, served \subseteq served',
           NEW x \in Seq(Items), x # <<>>, Closes(call.op, x),
           conn'.toClient = conn.toClient \o x,
           Latest(x).kind = "ok" => Executed'
    PROVE  Placed(conn.toClient)'
<1> DEFINE w == conn.toClient
           t == conn'.toClient
<1>0. w \in Seq(Items) /\ Len(w) \in Nat /\ Len(x) \in Nat /\ Len(x) > 0 /\ call.pos \in Nat
  BY DEF TypeInv, TypeOK, CallType, ConnOK, ConnType
<1>1. /\ \A i \in 1 .. Len(w) : w[i].kind = "auth"
      /\ \/ call.pos = 1 /\ Len(w) = 1
         \/ call.pos = 2 /\ Len(w) = 0
  <2>1. CASE call.pos = 1 /\ w # <<>> /\ Tail(w) = <<>> /\ Head(w).kind = "auth"
    <3>1. Len(w) = 1 /\ w[1].kind = "auth"
      <4>1. Len(Tail(w)) = Len(w) - 1 /\ w[1].kind = "auth"
        BY <1>0, <2>1
      <4>2. Len(Tail(w)) = 0
        BY <2>1, EmptySeq
      <4> HIDE DEF w
      <4> QED
        BY <1>0, <4>1, <4>2
    <3>2. \A i \in 1 .. Len(w) : i = 1
      <4> HIDE DEF w
      <4> QED
        BY <3>1
    <3> QED
      BY <2>1, <3>1, <3>2
  <2>2. CASE call.pos = 2 /\ w = <<>>
    <3>1. Len(w) = 0
      BY <2>2, EmptySeq
    <3> QED
      BY <2>2, <3>1
  <2> QED
    BY <2>1, <2>2 DEF Authenticating
<1>2. /\ Len(t) = Len(w) + Len(x)
      /\ \A i \in 1 .. Len(w) : t[i] = w[i]
      /\ \A i \in 1 .. Len(x) : t[Len(w) + i] = x[i]
  BY <1>0
<1> HIDE DEF w, t
<1>3. ASSUME NEW i \in 1 .. Len(t)
      PROVE  /\ t[i].kind = "auth" => call.pos + i = 2
             /\ t[i].kind = "ok" /\ ~Final(call.op, t[i])
                   => call.op.script = FileScript /\ call.pos + i = 3
             /\ Final(call.op, t[i]) => i = Len(t)
             /\ Final(call.op, t[i]) /\ t[i].kind = "ok" => Executed'
  <2>1. CASE i <= Len(w)
    <3>1. i \in 1 .. Len(w)
      BY <1>0, <1>2, <2>1
    <3>2. t[i].kind = "auth"
      BY <1>1, <1>2, <3>1
    <3>3. call.pos + i = 2
      <4>1. Len(w) # 0
        BY <1>0, <3>1
      <4>2. call.pos = 1 /\ Len(w) = 1
        BY <1>1, <4>1
      <4> QED
        BY <3>1, <4>2
    <3> QED
      BY <3>2, <3>3 DEF Final
  <2>2. CASE i > Len(w)
    <3> DEFINE j == i - Len(w)
    <3>1. j \in 1 .. Len(x) /\ i = Len(w) + j
      BY <1>0, <1>2, <2>2
    <3>2. t[i] = x[j]
      BY <1>2, <3>1
    <3>3. j # Len(x) => j \in 1 .. Len(x) - 1
      <4> HIDE DEF j
      <4> QED
        BY <1>0, <3>1
    <3>4. /\ x[j].kind # "auth"
          /\ x[j].kind = "ok" /\ ~Final(call.op, x[j]) => call.op.script = FileScript /\ j = 1
          /\ Final(call.op, x[j]) => j = Len(x)
      BY <3>1, <3>3 DEF Closes
    <3>5. j = Len(x) => x[j] = Latest(x) /\ i = Len(t)
      BY <1>2, <3>1 DEF Latest
    <3>6. ASSUME j = 1 PROVE call.pos + i = 3
      <4>1. i = Len(w) + 1
        BY <3>1, <3>6
      <4>2. CASE call.pos = 1 /\ Len(w) = 1
        BY <4>1, <4>2
      <4>3. CASE call.pos = 2 /\ Len(w) = 0
        BY <4>1, <4>3
      <4> QED
        BY <1>1, <4>2, <4>3
    <3> HIDE DEF j
    <3> QED
      BY <3>2, <3>4, <3>5, <3>6
  <2> QED
    BY <1>0, <1>2, <2>1, <2>2
<1> QED
  BY <1>3 DEF Placed, t

\* A lost connection keeps a beginning of the answer.
LEMMA PlacedPrefix ==
    ASSUME NEW w \in Seq(Items), Placed(w), NEW k \in 0 .. Len(w),
           conn'.toClient = SubSeq(w, 1, k), call' = call, served' = served
    PROVE  Placed(conn.toClient)'
<1> DEFINE t == conn'.toClient
<1>1. Len(t) = k /\ k \in Nat /\ k <= Len(w) /\ Len(w) \in Nat
  OBVIOUS
<1>2. \A i \in 1 .. k : t[i] = w[i]
  OBVIOUS
<1> HIDE DEF t
<1>3. ASSUME NEW i \in 1 .. Len(t)
      PROVE  /\ t[i].kind = "auth" => call.pos + i = 2
             /\ t[i].kind = "ok" /\ ~Final(call.op, t[i])
                   => call.op.script = FileScript /\ call.pos + i = 3
             /\ Final(call.op, t[i]) => i = Len(t)
             /\ Final(call.op, t[i]) /\ t[i].kind = "ok" => Executed'
  <2>1. i \in 1 .. Len(w) /\ t[i] = w[i]
    BY <1>1, <1>2
  <2>2. i = Len(w) => i = Len(t)
    BY <1>1
  <2>3. Executed' = Executed
    BY DEF Executed
  <2> QED
    BY <2>1, <2>2, <2>3 DEF Placed
<1> QED
  BY <1>3 DEF Placed, t

\* A loss leaves nothing on its way to the server.
LEMMA LoseTidy ==
    ASSUME TypeInv, Tidy, Lose
    PROVE  Tidy'
<1> DEFINE w == conn.toClient
<1>0. w \in Seq(Items) /\ conn \in ConnType
  BY DEF TypeInv, ConnOK, ConnType
<1>1. PICK k \in 0 .. Len(w) : conn' = [conn EXCEPT !.up = FALSE, !.authed = FALSE,
                                          !.toServer = <<>>, !.toClient = SubSeq(@, 1, k)]
  BY DEF Lose
<1>2. /\ conn'.toServer = <<>> /\ conn'.toClient = SubSeq(w, 1, k) /\ ~conn'.up
      /\ ~conn'.authed /\ call' = call /\ served' = served
  BY <1>0, <1>1 DEF Lose, ConnType
<1>3. ASSUME Placed(w) PROVE Answered' \/ call.pc # "read"
  <2>1. Placed(conn.toClient)'
    BY <1>0, <1>2, <1>3, PlacedPrefix
  <2> QED
    BY <1>2, <2>1 DEF Answered
<1>4. CASE call.pc # "read"
  <2>1. w = <<>>
    BY <1>4, NotReading DEF AtRest
  <2>2. SubSeq(w, 1, k) = <<>>
    <3>1. k = 0
      BY <2>1, EmptySeq
    <3> QED
      BY <1>0, <2>1, <3>1
  <2> QED
    BY <1>2, <1>4, <2>2 DEF Tidy, AtRest
<1>5. CASE call.pc = "read"
  <2>1. Placed(w)
    <3>1. ASSUME w = <<>> PROVE Placed(w)
      <4>1. \A i \in 1 .. Len(<<>>) : FALSE
        BY EmptySeq
      <4> QED
        BY <3>1, <4>1 DEF Placed
    <3>2. ASSUME call.pos = 1, w # <<>>, Tail(w) = <<>>, Head(w).kind = "auth"
          PROVE  Placed(w)
      <4>1. Len(Tail(w)) = Len(w) - 1 /\ Len(w) \in Nat /\ w[1].kind = "auth"
        BY <1>0, <3>2
      <4>2. Len(Tail(w)) = 0
        BY <3>2, EmptySeq
      <4>3. \A i \in 1 .. Len(w) : i = 1
        <5> HIDE DEF w
        <5>1. Len(w) = 1
          BY <4>1, <4>2
        <5> QED
          BY <5>1
      <4>4. call.pos + 1 = 2
        BY <3>2
      <4> QED
        BY <4>1, <4>3, <4>4 DEF Placed, Final
    <3> QED
      BY <1>5, <3>1, <3>2, UnderWay DEF Asked, Authenticating, Answered
  <2> QED
    BY <1>2, <1>3, <1>5, <2>1 DEF Tidy
<1> QED
  BY <1>4, <1>5

\* The server asks, then answers.
LEMMA ServerTidy ==
    ASSUME TypeInv, Tidy, ServerAuth \/ ServerRuns \/ ServerRefuses \/ LateRun
    PROVE  Tidy'
<1> DEFINE w == conn.toClient
           req == Head(conn.toServer)
<1>0. w \in Seq(Items) /\ conn \in ConnType /\ call' = call /\ baseUrl' = baseUrl
  BY DEF TypeInv, ConnOK, ConnType, ServerAuth, ServerRuns, ServerRefuses, LateRun
<1>1. CASE ServerAuth
  <2>1. call.pc = "read" /\ Asked
    BY <1>1 DEF Tidy, AtRest, Authenticating, Answered, ServerAuth
  <2>2. /\ conn'.toClient = Append(<<>>, Item(req, "auth", "auth", 0))
        /\ conn'.authed /\ conn'.up = conn.up /\ conn'.url = conn.url
        /\ conn'.toServer = conn.toServer
    BY <1>0, <1>1, <2>1 DEF ServerAuth, ConnType, Asked
  <2>3. \A x : Append(<<>>, x) # <<>> /\ Tail(Append(<<>>, x)) = <<>> /\ Head(Append(<<>>, x)) = x
    OBVIOUS
  <2>4. Authenticating'
    BY <1>0, <2>1, <2>2, <2>3, ItemFields DEF Asked, Authenticating, Own
  <2> QED
    BY <1>0, <2>1, <2>4 DEF Tidy
<1>2. CASE ServerRuns \/ ServerRefuses
  <2>1. call.pc = "read" /\ Authenticating
    BY <1>2 DEF Tidy, AtRest, Asked, Answered, ServerRuns, ServerRefuses
  <2>2. req \in Requests /\ req.call = call.no /\ req.op = call.op /\ req.url = call.url
    BY <2>1 DEF Authenticating, Own, TypeInv, ConnOK, ConnType
  <2> DEFINE x == IF ServerRuns THEN Answer(req) ELSE Refusal(req)
  <2>3. /\ x \in Seq(Items) /\ Opens(x) /\ Closes(call.op, x)
        /\ Latest(x).kind = IF ServerRuns THEN "ok" ELSE "fail"
    BY <2>2, AnswerType, AnswerOrdered, RefusalOrdered DEF Latest
  <2>4. /\ conn'.toClient = w \o x /\ conn'.toServer = <<>> /\ ~conn'.authed
        /\ conn'.url = IF ServerRuns /\ call.op.moves THEN call.url ELSE baseUrl
    BY <1>0, <1>2, <2>1, <2>2 DEF ServerRuns, ServerRefuses, ConnType, Authenticating
  <2>5. served \subseteq served' /\ (ServerRuns => Executed')
    <3>1. CASE ServerRuns
      <4>1. served' = served \cup Effects({req})
        BY <3>1 DEF ServerRuns
      <4>2. call.op \in Mutating => req \in served'
        BY <2>2, <4>1 DEF Effects
      <4> QED
        BY <1>0, <2>2, <4>1, <4>2 DEF Executed
    <3>2. CASE ~ServerRuns
      BY <1>2, <3>2 DEF ServerRefuses
    <3> QED
      BY <3>1, <3>2
  <2>6. x # <<>> /\ Latest(w \o x) = Latest(x)
    BY <1>0, <2>3, LatestConcat DEF Opens
  <2>7. w \o x # <<>>
    <3>1. Len(w \o x) = Len(w) + Len(x) /\ Len(x) > 0 /\ Len(w) \in Nat /\ Len(x) \in Nat
      BY <1>0, <2>3, <2>6
    <3> HIDE DEF w, x
    <3> QED
      BY <3>1, EmptySeq
  <2>8. Latest(x).kind = "ok" <=> ServerRuns
    BY <2>3
  <2>9. Final(call.op, Latest(x))
    BY <2>3 DEF Closes, Latest
  <2> HIDE DEF x
  <2>10. Placed(conn.toClient)'
    BY <1>0, <2>1, <2>3, <2>4, <2>5, <2>6, <2>8, PlacedAnswer
  <2>11. UrlAfterOk' = IF call.op.moves THEN call.url ELSE baseUrl
    BY <1>0 DEF UrlAfterOk
  <2>12. Answered'
    BY <1>0, <2>4, <2>6, <2>7, <2>8, <2>9, <2>10, <2>11 DEF Answered, Latest, Final, Ends
  <2> QED
    BY <1>0, <2>1, <2>12 DEF Tidy
<1>3. CASE LateRun
  <2>1. served \subseteq served' /\ conn' = conn
    BY <1>3 DEF LateRun
  <2>2. Executed => Executed'
    BY <1>0, <2>1 DEF Executed
  <2>3. Answered => Answered'
    BY <1>0, <2>1, <2>2 DEF Answered, Placed, UrlAfterOk
  <2>4. (Asked => Asked') /\ (Authenticating => Authenticating') /\ (AtRest => AtRest')
    BY <1>0, <2>1 DEF Asked, Authenticating, AtRest, Own
  <2> QED
    BY <1>0, <2>3, <2>4 DEF Tidy
<1> QED
  BY <1>1, <1>2, <1>3

\* At first nothing was written.
LEMMA TidyInit == Init => TidyInv
<1> SUFFICES ASSUME Init PROVE Tidy
  BY DEF TidyInv
<1>1. PICK url \in Urls : conn = Fresh(url) /\ baseUrl = url
  BY DEF Init
<1>2. call.pc = "idle"
  BY DEF Init, Idle
<1> QED
  BY <1>1, <1>2 DEF Tidy, AtRest, Fresh

\* Every step keeps the answer in front of the method that waits for it.
LEMMA TidyStep ==
    TypeInv /\ StatusInv /\ GivenInv /\ TidyInv /\ [Next]_vars => TidyInv'
<1> SUFFICES ASSUME TypeInv, StatusInv, GivenInv, TidyInv, [Next]_vars, Undisturbed'
             PROVE  Tidy'
  BY DEF TidyInv
<1>1. Tidy /\ PlaceInv
  BY DisturbedStays DEF TidyInv, GivenInv
<1>2. ASSUME NEW op \in Ops, NEW url \in Urls, NEW limit \in 0 .. NEntries,
             StartCall(op, url, limit)
      PROVE  Tidy'
  <2>1. call'.pc = "connect" /\ conn' = conn /\ baseUrl' = baseUrl /\ call.pc = "idle"
    <3>1. call'.pc = "connect"
      BY <1>2, StartedCall
    <3> QED
      BY <1>2, <3>1 DEF StartCall
  <2> QED
    BY <1>1, <2>1, NotReading DEF Tidy, AtRest
<1>3. CASE UNCHANGED vars
  BY <1>1, <1>3 DEF vars, Tidy, AtRest, Asked, Authenticating, Answered, Own, Placed,
                    Executed, UrlAfterOk
<1> QED
  BY <1>1, <1>2, <1>3, ConnectTidy, SendTidy, ReadItemTidy, WaitTidy, LoseTidy, ServerTidy
     DEF Next, Progress, Environment

\* Between calls a connection that nothing disturbed is quiet, and session and
\* server agree on the URL (connect.rs, mod.rs reparent).
THEOREM KeptConnection == Spec => []KeptIsUsable
<1>1. StatusInv /\ TidyInv => KeptIsUsable
  BY DEF TidyInv, Tidy, AtRest, KeptIsUsable, QuietWhenIdle, SameUrl
<1>2. Init => OrderInv /\ GivenInv
  BY GivenInit
<1> QED
  BY <1>1, <1>2, TypeInit, TypeStep, StatusInit, StatusStep, OrderStep, GivenStep,
     TidyInit, TidyStep, PTL DEF Spec

-----------------------------------------------------------------------------
(* The session implements calls that run at most once.                     *)

\* A step starts a call, writes nothing, or writes the command of the call.
LEMMA NextWrites ==
    ASSUME TypeInv, Next
    PROVE  \/ \E op \in Ops, url \in Urls, limit \in 0 .. NEntries : StartCall(op, url, limit)
           \/ WritesNothing
           \/ /\ call.pc = "send" /\ outcome' = outcome
              /\ call'.no = call.no /\ call'.op = call.op
              /\ Live' \subseteq Live \cup Effects({Request})
<1>1. CASE Send
  <2>1. ASSUME NEW c, Sent(c), Written(c) \subseteq Written(conn) \cup {Request}
        PROVE  /\ call'.no = call.no /\ call'.op = call.op /\ outcome' = outcome
               /\ Live' \subseteq Live \cup Effects({Request})
    <3>1. call'.no = call.no /\ call'.op = call.op
      BY <2>1 DEF Sent, TypeInv, TypeOK, CallType
    <3>2. Live' \subseteq Live \cup Effects({Request})
      BY <2>1 DEF Sent, Live, Effects
    <3> QED
      BY <2>1, <3>1, <3>2 DEF Sent
  <2> QED
    BY <1>1, <2>1, SendWrites DEF Send
<1>2. CASE Progress \/ Environment
  BY <1>1, <1>2, ClientWritesNothing, ServerWritesNothing DEF Progress, Environment
<1> QED
  BY <1>2 DEF Next

\* The calls whose command has an effect are noted when they are made.
WriteInv ==
    /\ \A c \in writes : c <= call.no
    /\ call.no > 0 => (call.no \in writes <=> call.op \in Mutating)
    /\ \A r \in Live : r.call \in writes

\* Every step keeps the notes.
LEMMA WriteStep == TypeInv /\ WriteInv /\ [Next]_vars => WriteInv'
<1> SUFFICES ASSUME TypeInv, WriteInv, [Next]_vars PROVE WriteInv'
  OBVIOUS
<1>0. call.no \in Nat /\ writes \subseteq Nat
  BY BoundAssumption DEF TypeInv, TypeOK, CallType, CallIds
<1>1. ASSUME NEW op \in Ops, NEW url \in Urls, NEW limit \in 0 .. NEntries,
             StartCall(op, url, limit)
      PROVE  WriteInv'
  <2>1. call'.no = call.no + 1 /\ call'.op = op
    BY <1>1, StartedCall
  <2>2. Live' = Live
    BY <1>1 DEF StartCall, Live
  <2>3. writes' = IF op \in Mutating THEN writes \cup {call.no + 1} ELSE writes
    BY <1>1 DEF StartCall
  <2>4. call.no + 1 \notin writes
    BY <1>0 DEF WriteInv
  <2>5. \A c \in writes' : c <= call.no + 1
    BY <1>0, <2>3 DEF WriteInv
  <2>6. call.no + 1 \in writes' <=> op \in Mutating
    BY <2>3, <2>4
  <2>7. \A r \in Live' : r.call \in writes'
    BY <2>2, <2>3 DEF WriteInv
  <2> QED
    BY <2>1, <2>5, <2>6, <2>7 DEF WriteInv
<1>2. ASSUME writes' = writes, WritesNothing PROVE WriteInv'
  BY <1>2 DEF WritesNothing, WriteInv
<1>3. ASSUME writes' = writes, call.pc = "send", call'.no = call.no, call'.op = call.op,
             Live' \subseteq Live \cup Effects({Request})
      PROVE  WriteInv'
  <2>1. Request.call = call.no /\ Request.op = call.op
    BY DEF Request
  <2>2. call.no > 0
    BY <1>3 DEF TypeInv, CallIds
  <2>3. \A r \in Live' : r \in Live \/ (r = Request /\ call.op \in Mutating)
    BY <1>3, <2>1 DEF Effects
  <2>4. \A r \in Live' : r.call \in writes
    BY <2>1, <2>2, <2>3 DEF WriteInv
  <2> QED
    BY <1>3, <2>4 DEF WriteInv
<1>4. CASE UNCHANGED vars
  BY <1>4 DEF vars, WriteInv, Live
<1> QED
  BY <1>1, <1>2, <1>3, <1>4, NextWrites, StepWrites

\* At first there is nothing to note.
LEMMA WriteInit == Init => WriteInv
<1> SUFFICES ASSUME Init PROVE WriteInv
  OBVIOUS
<1>1. conn.toServer = <<>>
  BY DEF Init, Fresh
<1> QED
  BY <1>1 DEF Init, Idle, Live, Effects, Written, WriteInv

\* An effect of a call whose Ok can be relied on has been executed.
DoneInv ==
    \A r \in Live : outcome[r.call] = "ok" /\ ~Disturbed(r.call) => r \in served

\* Whether an earlier call disturbed one that was made does not change.
LEMMA DisturbedFixed ==
    ASSUME TypeInv, StatusInv, [Next]_vars, NEW c \in CallIds, c <= call.no
    PROVE  Disturbed(c)' <=> Disturbed(c)
<1>1. ASSUME NEW d \in CallIds, d < c PROVE outcome'[d] = outcome[d]
  <2>1. call.no \in Nat /\ c \in Nat /\ d \in Nat
    BY DEF TypeInv, TypeOK, CallType, CallIds
  <2>2. outcome[d] # "none" /\ outcome[d] # "open"
    BY <1>1, <2>1 DEF StatusInv
  <2> QED
    BY <2>2, OutcomeStays
<1> QED
  BY <1>1 DEF Disturbed

\* When the call in progress ends nothing has been disturbed, or an earlier
\* call did it.
LEMMA DisturbedBefore ==
    ASSUME TypeInv, StatusInv, call.pc # "idle", ~Disturbed(call.no)
    PROVE  Undisturbed /\ call.no \in CallIds /\ outcome[call.no] = "open"
<1>0. call.no \in CallIds /\ outcome[call.no] = "open"
  BY DEF TypeInv, StatusInv
<1>1. ASSUME NEW d \in CallIds PROVE outcome[d] \notin Disturbing
  <2>1. call.no \in Nat /\ d \in Nat
    BY <1>0 DEF CallIds
  <2>2. CASE d < call.no
    BY <2>2 DEF Disturbed
  <2>3. CASE d = call.no
    BY <1>0, <2>3 DEF Disturbing
  <2>4. CASE d > call.no
    BY <2>4 DEF StatusInv, Disturbing
  <2> QED
    BY <2>1, <2>2, <2>3, <2>4
<1> QED
  BY <1>0, <1>1 DEF Undisturbed

\* A call returns an Ok that can be relied on when its command was executed.
LEMMA FinishesExecuted ==
    ASSUME TypeInv, StatusInv, PlaceInv, TidyInv, Finishes, ~Disturbed(call.no)
    PROVE  Executed
<1> DEFINE w == conn.toClient
<1>1. Tidy
  BY DisturbedBefore DEF TidyInv, Finishes
<1>2. Head(w) = w[1] /\ w \in Seq(Items) /\ w # <<>>
  BY RestFields DEF Finishes
<1>3. Answered /\ w[1].kind = "ok" /\ Final(call.op, w[1])
  BY <1>1, <1>2, LastIsFinal DEF Finishes, Complete
<1>4. 1 \in 1 .. Len(w)
  <2>1. \A s \in Seq(Items) : s # <<>> => 1 \in 1 .. Len(s)
    OBVIOUS
  <2> QED
    BY <1>2, <2>1, Zenon
<1> QED
  BY <1>3, <1>4 DEF Answered, Placed

\* The server forgets nothing.
LEMMA ServedGrows ==
    ASSUME [Next]_vars
    PROVE  served \subseteq served'
BY StepWrites DEF vars, ServerRuns, LateRun

\* Every step keeps what an Ok means.
LEMMA DoneStep ==
    /\ TypeInv /\ StatusInv /\ GivenInv /\ TidyInv /\ OnceInv /\ WriteInv /\ DoneInv
    /\ [Next]_vars
    => DoneInv'
<1> SUFFICES ASSUME TypeInv, StatusInv, GivenInv, TidyInv, OnceInv, WriteInv, DoneInv, [Next]_vars,
                    NEW r \in Live', outcome'[r.call] = "ok", ~Disturbed(r.call)'
             PROVE  r \in served'
  BY DEF DoneInv
<1>1. r \in Live
  <2>1. ASSUME NEW op, NEW url, NEW limit, StartCall(op, url, limit) PROVE Live' = Live
    BY <2>1 DEF StartCall, Live
  <2>2. ASSUME call.pc = "send", outcome' = outcome, r = Request PROVE FALSE
    <3>1. Request.call = call.no
      BY DEF Request
    <3>2. call.no \in CallIds
      BY <2>2 DEF TypeInv
    <3> QED
      BY <2>2, <3>1, <3>2 DEF StatusInv
  <2>3. Effects({Request}) \subseteq {Request}
    BY DEF Effects
  <2>4. CASE UNCHANGED vars
    BY <2>4 DEF vars, Live
  <2> QED
    BY <2>1, <2>2, <2>3, <2>4, NextWrites DEF WritesNothing
<1>2. r \in Requests /\ r.call \in CallIds /\ r.call <= call.no
  <2>1. r \in Requests
    BY <1>1, WrittenType DEF Live, TypeInv, TypeOK
  <2> QED
    BY <1>1, <2>1 DEF Requests, OnceInv
<1>3. ~Disturbed(r.call)
  BY <1>2, DisturbedFixed
<1>4. CASE outcome[r.call] = "ok"
  BY <1>1, <1>3, <1>4, ServedGrows DEF DoneInv
<1>5. CASE outcome[r.call] # "ok"
  <2>0. outcome \in [CallIds -> Outcomes] /\ call.no \in Nat /\ r.call \in Nat
    BY <1>2 DEF TypeInv, TypeOK, CallType, CallIds
  <2>1. ASSUME NEW op, NEW url, NEW limit, StartCall(op, url, limit) PROVE FALSE
    BY <1>2, <1>5, <2>0, <2>1 DEF StartCall
  <2>2. PICK status \in EndStatus : Returns(status) /\ (status = "ok" => Finishes)
    BY <1>5, <2>1, StepKinds DEF GoesOn, vars
  <2>3. r.call = call.no /\ status = "ok"
    BY <1>2, <1>5, <2>0, <2>2 DEF Returns
  <2>4. Executed
    BY <1>3, <2>2, <2>3, FinishesExecuted DEF GivenInv
  <2>5. call.op \in Mutating
    BY <1>1, <1>2, <2>3 DEF WriteInv, CallIds
  <2>6. PICK q \in served : q.call = call.no
    BY <2>4, <2>5 DEF Executed
  <2>7. q = r
    BY <1>1, <2>3, <2>6 DEF OnceInv, Live
  <2> QED
    BY <2>6, <2>7, ServedGrows
<1> QED
  BY <1>4, <1>5

\* All that is needed of a state to map it.
MapInv ==
    TypeInv /\ StatusInv /\ GivenInv /\ TidyInv /\ OnceInv /\ WriteInv /\ DoneInv

\* A set without two members has none or one.
LEMMA NoneOrOne ==
    ASSUME NEW S, \A r, q \in S : r = q
    PROVE  Cardinality(S) = IF S = {} THEN 0 ELSE 1
<1>1. CASE S = {}
  BY <1>1, FS_EmptySet
<1>2. CASE S # {}
  <2>1. PICK r \in S : TRUE
    BY <1>2
  <2>2. S = {r}
    BY <2>1
  <2> QED
    BY <1>2, <2>2, FS_Singleton
<1> QED
  BY <1>1, <1>2

\* The command of a call was executed once or not at all.
LEMMA RunsValue ==
    ASSUME OnceInv, NEW c \in CallIds
    PROVE  Runs[c] = IF \E r \in served : r.call = c THEN 1 ELSE 0
<1>1. \A r, q \in RunsOf(c) : r = q
  BY DEF OnceInv, Live, RunsOf
<1>2. Runs[c] = Cardinality(RunsOf(c))
  BY DEF Runs
<1>3. Cardinality(RunsOf(c)) = IF RunsOf(c) = {} THEN 0 ELSE 1
  BY <1>1, NoneOrOne
<1>4. RunsOf(c) = {} <=> ~\E r \in served : r.call = c
  BY DEF RunsOf
<1> QED
  BY <1>2, <1>3, <1>4

\* The same after a step.
LEMMA RunsValueNext ==
    ASSUME OnceInv', NEW c \in CallIds
    PROVE  Runs'[c] = IF \E r \in served' : r.call = c THEN 1 ELSE 0
<1>1. \A r, q \in RunsOf(c)' : r = q
  BY DEF OnceInv, Live, RunsOf
<1>2. Runs'[c] = Cardinality(RunsOf(c)')
  BY DEF Runs
<1>3. Cardinality(RunsOf(c)') = IF RunsOf(c)' = {} THEN 0 ELSE 1
  BY <1>1, NoneOrOne
<1>4. RunsOf(c)' = {} <=> ~\E r \in served' : r.call = c
  BY DEF RunsOf
<1> QED
  BY <1>2, <1>3, <1>4

\* A function over the calls is changed at one of them.
LEMMA ChangedAt ==
    ASSUME NEW f, NEW g, f = [c \in CallIds |-> f[c]], g = [c \in CallIds |-> g[c]],
           NEW c \in CallIds, NEW v, \A d \in CallIds : g[d] = IF d = c THEN v ELSE f[d]
    PROVE  g = [f EXCEPT ![c] = v]
<1>1. [f EXCEPT ![c] = v] = [d \in CallIds |-> IF d = c THEN v ELSE f[d]]
  OBVIOUS
<1>2. g = [d \in CallIds |-> IF d = c THEN v ELSE f[d]]
  OBVIOUS
<1> QED
  BY <1>1, <1>2

\* The phases of the calls.
LEMMA PhaseOf ==
    /\ Phases = [c \in CallIds |-> Phases[c]]
    /\ \A c \in CallIds :
          /\ outcome[c] = "none" => Phases[c] = "new"
          /\ outcome[c] = "open" => Phases[c] = "open"
          /\ outcome[c] = "ok" => Phases[c] = IF Disturbed(c) THEN "err" ELSE "ok"
          /\ outcome[c] \in Errors \cup {"cancelled"} => Phases[c] = "err"
BY DEF Phases, Phase, Errors

\* The same after a step.
LEMMA PhaseNext ==
    /\ Phases' = [c \in CallIds |-> Phases'[c]]
    /\ \A c \in CallIds :
          /\ outcome'[c] = "none" => Phases'[c] = "new"
          /\ outcome'[c] = "open" => Phases'[c] = "open"
          /\ outcome'[c] = "ok" => Phases'[c] = IF Disturbed(c)' THEN "err" ELSE "ok"
          /\ outcome'[c] \in Errors \cup {"cancelled"} => Phases'[c] = "err"
BY DEF Phases, Phase, Errors

\* A call whose result does not change keeps its phase.
LEMMA PhaseKept ==
    ASSUME TypeInv, StatusInv, [Next]_vars, NEW c \in CallIds, outcome'[c] = outcome[c]
    PROVE  Phases'[c] = Phases[c]
<1>0. outcome[c] \in Outcomes
  BY DEF TypeInv, TypeOK
<1>1. CASE outcome[c] = "ok"
  <2>1. c <= call.no
    <3>1. c \in Nat /\ call.no \in Nat
      BY DEF TypeInv, TypeOK, CallType, CallIds
    <3> QED
      BY <1>1, <3>1 DEF StatusInv
  <2> QED
    BY <1>1, <2>1, DisturbedFixed, PhaseOf, PhaseNext
<1>2. CASE outcome[c] # "ok"
  BY <1>0, <1>2, PhaseOf, PhaseNext DEF Outcomes
<1> QED
  BY <1>1, <1>2

\* A call that is made begins.
LEMMA BeginMaps ==
    ASSUME MapInv, Next, NEW op \in Ops, NEW url \in Urls, NEW limit \in 0 .. NEntries,
           StartCall(op, url, limit)
    PROVE  Abstract!Next
<1> DEFINE c == call.no + 1
<1>0. /\ TypeInv /\ StatusInv /\ [Next]_vars /\ outcome \in [CallIds -> Outcomes]
      /\ c \in CallIds /\ call.no \in Nat
  BY BoundAssumption DEF MapInv, TypeInv, TypeOK, CallType, CallIds, StartCall
<1>1. outcome[c] = "none" /\ Phases[c] = "new"
  <2>1. outcome[c] = "none"
    BY <1>0 DEF StatusInv
  <2> QED
    BY <1>0, <2>1, PhaseOf
<1>2. \A d \in CallIds : Phases[d] # "open"
  <2>1. ASSUME NEW d \in CallIds PROVE outcome[d] # "open"
    BY <1>0 DEF StatusInv, StartCall
  <2> QED
    BY <1>0, <2>1, PhaseOf DEF Outcomes
<1>3. outcome' = [outcome EXCEPT ![c] = "open"]
  BY DEF StartCall
<1>4. Phases' = [Phases EXCEPT ![c] = "open"]
  <2>1. Phases'[c] = "open"
    BY <1>0, <1>3, PhaseNext
  <2>2. ASSUME NEW d \in CallIds, d # c PROVE Phases'[d] = Phases[d]
    <3>1. outcome'[d] = outcome[d]
      BY <1>0, <1>3, <2>2
    <3> QED
      BY <1>0, <3>1, PhaseKept
  <2> HIDE DEF c
  <2> QED
    BY <1>0, <2>1, <2>2, PhaseOf, PhaseNext, ChangedAt
<1>5. writes' \in {writes, writes \cup {c}} /\ Runs' = Runs
  BY DEF StartCall, Runs, RunsOf
<1> HIDE DEF c
<1>6. Abstract!Begin(c)
  BY <1>1, <1>2, <1>4, <1>5, Zenon DEF Abstract!Begin
<1> QED
  BY <1>0, <1>6, Zenon DEF Abstract!Next

\* A call that returns returns Ok, or an error that promises nothing.
LEMMA ReturnMaps ==
    ASSUME MapInv, Next, NEW status \in EndStatus, Returns(status),
           status = "ok" => Finishes, UNCHANGED <<writes, served>>
    PROVE  Abstract!Next
<1>0. PICK c \in CallIds :
         /\ c = call.no /\ TypeInv /\ StatusInv /\ [Next]_vars
         /\ outcome \in [CallIds -> Outcomes] /\ outcome[c] = "open" /\ c > 0
  BY DEF MapInv, TypeInv, TypeOK, CallIds, StatusInv, Returns
<1>1. outcome' = [outcome EXCEPT ![c] = status] /\ outcome'[c] = status
  BY <1>0 DEF Returns
<1>2. Phases[c] = "open"
  BY <1>0, PhaseOf
<1>3. ASSUME NEW v, Phases'[c] = v PROVE Phases' = [Phases EXCEPT ![c] = v]
  <2>1. ASSUME NEW d \in CallIds, d # c PROVE Phases'[d] = Phases[d]
    <3>1. outcome'[d] = outcome[d]
      BY <1>0, <1>1, <2>1
    <3> QED
      BY <1>0, <3>1, PhaseKept
  <2> QED
    BY <1>0, <1>3, <2>1, PhaseOf, PhaseNext, ChangedAt
<1>4. Runs' = Runs
  BY DEF Runs, RunsOf
<1>5. CASE status = "ok" /\ ~Disturbed(c)
  <2>1. Phases'[c] = "ok"
    <3>1. ~Disturbed(c)'
      <4>1. c <= call.no
        BY <1>0 DEF CallIds
      <4> QED
        BY <1>0, <1>5, <4>1, DisturbedFixed
    <3> QED
      BY <1>0, <1>1, <1>5, <3>1, PhaseNext
  <2>2. c \in writes => Runs[c] = 1
    <3>1. Executed
      BY <1>0, <1>5, FinishesExecuted DEF MapInv, GivenInv
    <3>2. c \in writes => \E r \in served : r.call = c
      BY <1>0, <3>1 DEF Executed, MapInv, WriteInv
    <3> QED
      BY <1>0, <3>2, RunsValue DEF MapInv
  <2>3. Phases' = [Phases EXCEPT ![c] = "ok"]
    BY <1>3, <2>1
  <2>4. Abstract!ReturnOk(c)
    BY <1>2, <1>4, <2>2, <2>3, Zenon DEF Abstract!ReturnOk
  <2> QED
    BY <1>0, <2>4, Zenon DEF Abstract!Next
<1>6. CASE ~(status = "ok" /\ ~Disturbed(c))
  <2>1. Phases'[c] = "err"
    <3>1. CASE status = "ok"
      <4>1. c <= call.no
        BY <1>0 DEF CallIds
      <4>2. Disturbed(c)'
        BY <1>0, <1>6, <3>1, <4>1, DisturbedFixed
      <4> QED
        BY <1>0, <1>1, <3>1, <4>2, PhaseNext
    <3>2. CASE status # "ok"
      BY <1>0, <1>1, <3>2, PhaseNext DEF EndStatus
    <3> QED
      BY <3>1, <3>2
  <2>2. Phases' = [Phases EXCEPT ![c] = "err"]
    BY <1>3, <2>1
  <2>3. Abstract!ReturnErr(c)
    BY <1>2, <1>4, <2>2, Zenon DEF Abstract!ReturnErr
  <2> QED
    BY <1>0, <2>3, Zenon DEF Abstract!Next
<1> QED
  BY <1>5, <1>6

\* The server executes a command, now or late, unless it has nothing to do.
LEMMA RunMaps ==
    ASSUME MapInv, OnceInv', ServerRuns \/ LateRun
    PROVE  [Abstract!Next]_(Abstract!avars)
<1>0. TypeInv /\ StatusInv /\ OnceInv /\ WriteInv /\ DoneInv
  BY DEF MapInv
<1>1. UNCHANGED <<outcome, call, writes>> /\ [Next]_vars
  BY DEF ServerRuns, LateRun, Next, Environment
<1>2. Phases' = Phases
  BY <1>1 DEF Phases, Disturbed
<1>3. PICK r \in Live \cup {Head(conn.toServer)} :
         \/ served' = served
         \/ r \in Live /\ served' = served \cup {r}
  <2>1. CASE ServerRuns
    <3> DEFINE req == Head(conn.toServer)
    <3>1. conn.toServer # <<>> /\ conn.toServer \in Seq(Requests)
      BY <1>0, <2>1 DEF ServerRuns, TypeInv, ConnOK, ConnType
    <3>2. req \in Written(conn)
      <4>1. \A s \in Seq(Requests) : s # <<>> => 1 \in DOMAIN s /\ Head(s) = s[1]
        OBVIOUS
      <4> QED
        BY <3>1, <4>1 DEF Written
    <3>3. served' = served \cup Effects({req})
      BY <2>1 DEF ServerRuns
    <3>4. Effects({req}) = {} \/ (Effects({req}) = {req} /\ req \in Effects(Written(conn)))
      BY <3>2 DEF Effects
    <3> QED
      BY <3>3, <3>4 DEF Live
  <2>2. CASE LateRun
    BY <2>2 DEF LateRun, Live
  <2> QED
    BY <2>1, <2>2
<1>4. CASE r \in Live /\ served' = served \cup {r} /\ r \notin served
  <2> DEFINE c == r.call
  <2>1. c \in CallIds /\ c \in writes /\ c <= call.no
    BY <1>0, <1>4 DEF WriteInv, TypeInv, TypeOK, OnceInv
  <2>2. Runs[c] = 0
    <3>1. ~\E q \in served : q.call = c
      BY <1>0, <1>4 DEF OnceInv, Live
    <3> QED
      BY <1>0, <2>1, <3>1, RunsValue
  <2>3. Runs' = [Runs EXCEPT ![c] = 1]
    <3>1. Runs'[c] = 1
      BY <1>4, <2>1, RunsValueNext
    <3>2. ASSUME NEW d \in CallIds, d # c PROVE Runs'[d] = Runs[d]
      <4>1. (\E q \in served' : q.call = d) <=> (\E q \in served : q.call = d)
        BY <1>4, <3>2
      <4> QED
        BY <1>0, <4>1, RunsValue, RunsValueNext
    <3>3. Runs = [d \in CallIds |-> Runs[d]] /\ Runs' = [d \in CallIds |-> Runs'[d]]
      BY DEF Runs
    <3> HIDE DEF c
    <3> QED
      BY <2>1, <3>1, <3>2, <3>3, ChangedAt
  <2>4. Phases[c] \in {"open", "err"}
    <3>1. outcome[c] # "none" /\ outcome[c] \in Outcomes
      <4>1. c \in Nat /\ call.no \in Nat
        BY <1>0, <2>1 DEF TypeInv, TypeOK, CallType, CallIds
      <4> QED
        BY <1>0, <2>1, <4>1 DEF StatusInv, TypeInv, TypeOK
    <3>2. outcome[c] = "ok" => Disturbed(c)
      BY <1>0, <1>4 DEF DoneInv
    <3> QED
      BY <2>1, <3>1, <3>2, PhaseOf DEF Outcomes
  <2> HIDE DEF c
  <2>5. Abstract!Run(c)
    BY <1>1, <1>2, <2>1, <2>2, <2>3, <2>4, Zenon DEF Abstract!Run
  <2> QED
    BY <2>1, <2>5, Zenon DEF Abstract!Next
<1>5. CASE served' = served
  <2>1. Runs' = Runs
    BY <1>5 DEF Runs, RunsOf
  <2> QED
    BY <1>1, <1>2, <2>1, Zenon DEF Abstract!avars
<1> QED
  <2>1. CASE r \in served /\ served' = served \cup {r}
    <3>1. served' = served
      BY <2>1
    <3> QED
      BY <1>5, <3>1
  <2> QED
    BY <1>3, <1>4, <1>5, <2>1

\* Every step of the session is a step of the calls, or none.
LEMMA StepMaps ==
    MapInv /\ OnceInv' /\ [Next]_vars => [Abstract!Next]_(Abstract!avars)
<1> SUFFICES ASSUME MapInv, OnceInv', [Next]_vars PROVE [Abstract!Next]_(Abstract!avars)
  OBVIOUS
<1>1. ASSUME UNCHANGED <<outcome, writes, served>> PROVE UNCHANGED Abstract!avars
  <2>1. Phases' = Phases /\ Runs' = Runs
    BY <1>1 DEF Phases, Disturbed, Runs, RunsOf
  <2> QED
    BY <1>1, <2>1, Zenon DEF Abstract!avars
<1>2. CASE ServerRuns \/ LateRun
  BY <1>2, RunMaps
<1>3. CASE Next /\ ~(ServerRuns \/ LateRun)
  <2>1. ASSUME NEW op \in Ops, NEW url \in Urls, NEW limit \in 0 .. NEntries,
               StartCall(op, url, limit)
        PROVE  Abstract!Next
    BY <1>3, <2>1, BeginMaps
  <2>2. CASE writes' = writes /\ served' = served
    <3>1. TypeInv
      BY DEF MapInv
    <3>2. ASSUME NEW status \in EndStatus, Returns(status), status = "ok" => Finishes
          PROVE  Abstract!Next
      BY <1>3, <2>2, <3>2, ReturnMaps
    <3> QED
      BY <1>1, <1>3, <2>1, <2>2, <3>1, <3>2, StepKinds DEF GoesOn
  <2> QED
    BY <1>3, <2>1, <2>2, StepWrites
<1>4. CASE UNCHANGED vars
  BY <1>1, <1>4 DEF vars
<1> QED
  BY <1>2, <1>3, <1>4

\* To the owner of a session a command with an effect is executed at most once,
\* and has been executed when its call returns Ok, unless an earlier call was
\* cancelled, timed out, or ended by its limit or its callback (with_retry,
\* locks.rs).
THEOREM Refinement == Spec => ImplementsAtMostOnceCall
<1>1. Init => Abstract!Init
  <2> SUFFICES ASSUME Init PROVE Abstract!Init
    OBVIOUS
  <2>1. Phases = [c \in CallIds |-> "new"] /\ Runs = [c \in CallIds |-> 0]
    <3>1. RunsOf(0) = {} /\ \A c \in CallIds : RunsOf(c) = {}
      BY DEF Init, RunsOf
    <3> QED
      BY <3>1, FS_EmptySet DEF Init, Phases, Phase, Runs
  <2> QED
    BY <2>1, Zenon DEF Init, Abstract!Init
<1>2. Init => MapInv
  <2>1. Init => DoneInv
    <3>1. Init => \A c \in CallIds : outcome[c] # "ok"
      BY DEF Init
    <3>2. Init => Live = {}
      BY DEF Init, Fresh, Live, Effects, Written
    <3> QED
      BY <3>2 DEF DoneInv
  <2> QED
    BY <2>1, TypeInit, StatusInit, GivenInit, TidyInit, OnceInit, WriteInit DEF MapInv
<1>3. Init => OrderInv
  BY GivenInit
<1>4. MapInv /\ OrderInv /\ [Next]_vars => MapInv' /\ OrderInv'
  BY TypeStep, StatusStep, GivenStep, TidyStep, OnceStep, WriteStep, DoneStep, OrderStep
     DEF MapInv
<1>5. MapInv /\ MapInv' /\ [Next]_vars => [Abstract!Next]_(Abstract!avars)
  BY StepMaps DEF MapInv
<1> QED
  BY <1>1, <1>2, <1>3, <1>4, <1>5, PTL DEF Spec, ImplementsAtMostOnceCall, Abstract!Spec
===============================================================================
