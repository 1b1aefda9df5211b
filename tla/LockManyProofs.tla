--------------------------- MODULE LockManyProofs ---------------------------
(***************************************************************************)
(* Proofs about LockMany, for any lists of targets, any server and any     *)
(* number of calls, and whatever goes wrong.                               *)
(***************************************************************************)
EXTENDS LockMany, SequenceTheorems, TLAPS

-----------------------------------------------------------------------------
(* The inductive invariant.                                                *)

\* The two requests a call writes.
BatchRequest == [many |-> TRUE, call |-> call.no, i |-> 0, targets |-> call.targets]
SingleRequest == [many |-> FALSE, call |-> call.no, i |-> This,
                  targets |-> <<call.targets[This]>>]

\* How many targets there are, how many have their entry, and how many items
\* are to be read.
Wanted == Len(call.targets)
Given == Len(call.out)
Unread == Len(conn.toClient)

\* The place of the k-th unread item: 0 for the request for authentication,
\* i for the answer to target i of a batch.
Place(k) == IF call.pc \in {"auth", "singleAuth"} THEN k - 1
            ELSE IF call.pc = "answers" THEN Given + k ELSE k

\* Nothing has been done, or is still to be done, for target i of the call.
Untouched(i) == acts[call.no][i] = 0 /\ <<call.no, i>> \notin orphans

\* A call in progress has no result; calls to come have none.
CallInv ==
    /\ call.pc # "idle" => call.no \in CallIds /\ outcome[call.no].is = "open"
                           /\ call.targets # <<>>
    /\ \A c \in CallIds : c > call.no => outcome[c].is = "none"
    /\ call.pc \in {"connect", "auth"} => call.out = <<>>
    /\ call.pc \in {"singleAuth", "singleResponse"} => Given < Wanted

\* At most one request is under way, and it is the one the call waits for.
RequestInv ==
    /\ conn.toServer # <<>> => conn.up
    /\ conn.up => conn.some
    /\ call.pc \in {"idle", "connect", "single", "response"} => conn.toServer = <<>>
    /\ call.pc \in {"idle", "connect", "single"} => conn.toClient = <<>>
    /\ call.pc \in {"auth", "answers"} => conn.toServer \in {<<>>, <<BatchRequest>>}
    /\ call.pc \in {"singleAuth", "singleResponse"} =>
         conn.toServer \in {<<>>, <<SingleRequest>>}

\* What the server has said of the request it is at: the request for
\* authentication and one answer for each target before the next.
ServerInv ==
    conn.up =>
      /\ conn.toServer = <<>> \/ ~conn.authed => ~conn.authed /\ conn.next = 1
      /\ conn.toServer # <<>> /\ ~conn.authed =>
           conn.toClient = <<>> /\ call.pc \in {"auth", "singleAuth"}
      /\ conn.toServer # <<>> /\ conn.authed => Place(Unread) = conn.next - 1
      /\ conn.toServer # <<>> => conn.next <= Wanted + 1
      /\ call.pc \in {"singleAuth", "singleResponse"} \/ server # "knows" => conn.next = 1

\* The items that may be unread, by their place.
IsAuth(k) == Place(k) = 0 /\ conn.toClient[k].kind = "auth"
IsAnswer(k) ==
    /\ conn.toClient[k].kind \in {"success", "failure", "garbled"}
    /\ conn.toClient[k].call = call.no
    /\ conn.toClient[k].kind # "failure" => <<call.no, conn.toClient[k].i>> \in held
IsBatchAnswer(k) ==
    IsAnswer(k) /\ Place(k) \in 1 .. Wanted /\ conn.toClient[k].i = Place(k)
IsSingleAnswer(k) ==
    /\ IsAnswer(k) /\ Place(k) = 1 /\ conn.toClient[k].i = This
    /\ k = Unread /\ conn.toServer = <<>>
IsUnknown(k) ==
    /\ conn.toClient[k].kind = "unknown" /\ Place(k) \in {0, 1}
    /\ k = Unread /\ conn.toServer = <<>>
    /\ \A i \in Indices : Untouched(i)
IsExtra(k) == conn.toClient[k].kind = "success" /\ Place(k) = Wanted + 1
IsDone(k) == conn.toClient[k].kind = "done" /\ Unread <= k + 1 /\ conn.toServer = <<>>
IsEnd(k) ==
    k > 1 /\ conn.toClient[k - 1].kind = "done" /\ k = Unread /\ conn.toServer = <<>>

WireInv ==
    /\ call.pc \in {"auth", "answers"} => \A k \in 1 .. Unread :
         \/ IsAuth(k) \/ IsBatchAnswer(k) \/ IsUnknown(k)
         \/ IsExtra(k) \/ IsDone(k) \/ IsEnd(k)
    /\ call.pc = "response" => Unread <= 1
    /\ call.pc \in {"singleAuth", "singleResponse"} => \A k \in 1 .. Unread :
         IsAuth(k) \/ IsSingleAnswer(k)

\* The server acts once on what it is asked for once: a target that is still
\* to be asked for, or that a request under way or left behind asks for, has
\* not been acted on.
ActsInv ==
    /\ \A c \in CallIds, i \in Indices :
         /\ acts[c][i] <= 1
         /\ <<c, i>> \in orphans => acts[c][i] = 0 /\ c <= call.no
         /\ c > call.no => acts[c][i] = 0
    /\ call.pc = "connect" => \A i \in Indices : Untouched(i)
    /\ call.pc \in {"auth", "answers"} /\ conn.toServer # <<>> =>
         \A i \in Indices : i >= conn.next => Untouched(i)
    /\ InSingle => \A i \in Indices : i > This => Untouched(i)
    /\ (call.pc = "single" \/ (InSingle /\ conn.toServer # <<>>)) /\ This \in Indices =>
         Untouched(This)

\* Each entry tells the truth of its target.
Truthful(c, out) ==
    \A k \in 1 .. Len(out) :
       /\ out[k].ans \in {"ok", "refused"} => out[k].call = c /\ out[k].i = k
       /\ out[k].ans = "ok" => <<c, k>> \in held
EntryInv ==
    /\ call.pc # "idle" => Truthful(call.no, call.out)
    /\ \A c \in CallIds : Finished(c) => Truthful(c, outcome[c].out)
    /\ call.no > 0 /\ Finished(call.no) => Len(outcome[call.no].out) = Wanted

IInv ==
    /\ TypeOK /\ CallInv /\ RequestInv /\ ServerInv /\ WireInv /\ ActsInv /\ EntryInv

-----------------------------------------------------------------------------
(* Helpers.                                                                *)

\* The numbers of the state are numbers.
LEMMA Sizes ==
    ASSUME TypeOK
    PROVE  /\ Given \in Nat /\ Wanted \in Nat /\ Unread \in Nat
           /\ Given <= Wanted /\ Wanted <= Width /\ Width \in Nat /\ MaxCalls \in Nat
           /\ conn.next \in Nat /\ This = Given + 1 /\ call.no \in Nat
BY SizeAssumption DEF TypeOK, Given, Wanted, Unread, Conns, Calls, This

\* A connection with nothing on it, and a call with no entries, have their shape.
LEMMA Empties ==
    /\ <<>> \in Seq(Requests) /\ <<>> \in Seq(Items) /\ <<>> \in Seq(InnerResults)
    /\ <<>> \in Seq(Targets) /\ 1 \in 1 .. Width + 1
BY SizeAssumption, EmptySeq

\* What is left on the wire when an item has been read.
LEMMA RestFacts ==
    ASSUME TypeOK, conn.toClient # <<>>
    PROVE  /\ Rest \in Conns /\ Rest.toServer = conn.toServer /\ Rest.some = conn.some
           /\ Rest.up = conn.up /\ Rest.authed = conn.authed /\ Rest.next = conn.next
           /\ Unread \in Nat /\ Unread > 0 /\ Len(Rest.toClient) = Unread - 1
           /\ Unread = 1 => Rest.toClient = <<>>
           /\ \A k \in 1 .. Unread - 1 : Rest.toClient[k] = conn.toClient[k + 1]
           /\ Head(conn.toClient) = conn.toClient[1] /\ conn.toClient[1] \in Items
<1>1. conn \in Conns /\ conn.toClient \in Seq(Items)
  BY DEF TypeOK, Conns
<1>2. /\ Tail(conn.toClient) \in Seq(Items) /\ Unread \in Nat /\ Unread > 0
      /\ Len(Tail(conn.toClient)) = Unread - 1
      /\ \A k \in 1 .. Unread - 1 : Tail(conn.toClient)[k] = conn.toClient[k + 1]
      /\ Head(conn.toClient) = conn.toClient[1] /\ conn.toClient[1] \in Items
  BY <1>1 DEF Unread
<1>3. Unread = 1 => Tail(conn.toClient) = <<>>
  <2> DEFINE t == Tail(conn.toClient)
  <2>1. t \in Seq(Items) /\ Len(t) = Unread - 1
    BY <1>2
  <2> HIDE DEF t
  <2>2. Unread = 1 => t = <<>>
    BY <2>1, EmptySeq
  <2> QED
    BY <2>2 DEF t
<1>4. Rest = [conn EXCEPT !.toClient = Tail(conn.toClient)]
  BY DEF Rest
<1>5. Rest \in Conns /\ Rest.toClient = Tail(conn.toClient)
      /\ Rest.toServer = conn.toServer /\ Rest.some = conn.some
      /\ Rest.up = conn.up /\ Rest.authed = conn.authed /\ Rest.next = conn.next
  BY <1>1, <1>2, <1>4 DEF Conns
<1> QED
  BY <1>2, <1>3, <1>5

\* What a connection still has the server do.
LEMMA PendingOf ==
    ASSUME NEW c
    PROVE  /\ c.toServer = <<>> => Pending(c) = {}
           /\ c.toServer = <<BatchRequest>> =>
                Pending(c) = {<<call.no, i>> : i \in c.next .. Wanted}
           /\ c.toServer = <<SingleRequest>> => Pending(c) = {<<call.no, This>>}
<1>1. DOMAIN <<>> = {} /\ DOMAIN <<BatchRequest>> = {1} /\ DOMAIN <<SingleRequest>> = {1}
      /\ <<BatchRequest>>[1] = BatchRequest /\ <<SingleRequest>>[1] = SingleRequest
  OBVIOUS
<1>2. /\ BatchRequest.many = TRUE /\ BatchRequest.call = call.no
      /\ Len(BatchRequest.targets) = Wanted
      /\ SingleRequest.many = FALSE /\ SingleRequest.call = call.no /\ SingleRequest.i = This
  BY DEF BatchRequest, SingleRequest, Wanted
<1>3. CASE c.toServer = <<>>
  BY <1>1, <1>3 DEF Pending
<1>4. CASE c.toServer = <<BatchRequest>>
  <2>1. Pending(c) = Todo(BatchRequest, c.next)
    BY <1>1, <1>4 DEF Pending
  <2> QED
    BY <1>2, <1>4, <2>1 DEF Todo
<1>5. CASE c.toServer = <<SingleRequest>>
  <2>1. Pending(c) = Todo(SingleRequest, c.next)
    BY <1>1, <1>5 DEF Pending
  <2> QED
    BY <1>2, <1>5, <2>1 DEF Todo
<1> QED
  BY <1>3, <1>4, <1>5

\* Nothing of what is under way has been done before.
LEMMA PendingFacts ==
    ASSUME IInv
    PROVE  /\ \A p \in Pending(conn) : p[1] = call.no /\ p = <<call.no, p[2]>>
           /\ Pending(conn) \subseteq CallIds \X Indices
           /\ \A i \in Indices : <<call.no, i>> \in Pending(conn) =>
                Untouched(i) /\ conn.toServer # <<>> /\ (InSingle => i = This)
<1>1. TypeOK /\ conn.next \in Nat /\ conn.next > 0
  BY DEF IInv, TypeOK, Conns
<1>2. conn.toServer \in {<<>>, <<BatchRequest>>, <<SingleRequest>>}
  BY DEF IInv, RequestInv, TypeOK, Calls
<1>3. <<BatchRequest>> # <<>> /\ <<SingleRequest>> # <<>> /\ <<BatchRequest>> # <<SingleRequest>>
  BY DEF BatchRequest, SingleRequest
<1>4. call.pc # "idle" => call.no \in CallIds
  BY DEF IInv, CallInv
<1>5. CASE conn.toServer = <<>>
  BY <1>5, PendingOf
<1>6. CASE conn.toServer = <<BatchRequest>>
  <2>1. call.pc \in {"auth", "answers"} /\ call.no \in CallIds
    BY <1>3, <1>4, <1>6 DEF IInv, RequestInv, TypeOK, Calls
  <2>2. Pending(conn) = {<<call.no, i>> : i \in conn.next .. Wanted}
    BY <1>6, PendingOf
  <2>3. \A i \in conn.next .. Wanted : i \in Indices
    BY <1>1, Sizes DEF Indices
  <2>4. \A i \in Indices : i >= conn.next => Untouched(i)
    BY <1>3, <1>6, <2>1 DEF IInv, ActsInv
  <2> QED
    BY <1>1, <1>3, <1>6, <2>1, <2>2, <2>3, <2>4, Sizes DEF InSingle
<1>7. CASE conn.toServer = <<SingleRequest>>
  <2>1. call.pc \in {"singleAuth", "singleResponse"} /\ call.no \in CallIds
    BY <1>3, <1>4, <1>7 DEF IInv, RequestInv, TypeOK, Calls
  <2>2. Pending(conn) = {<<call.no, This>>}
    BY <1>7, PendingOf
  <2>3. This \in Indices
    BY <1>1, <2>1, Sizes DEF IInv, CallInv, Indices
  <2>4. Untouched(This)
    BY <1>3, <1>7, <2>1, <2>3 DEF IInv, ActsInv, InSingle
  <2> QED
    BY <1>3, <1>7, <2>1, <2>2, <2>3, <2>4
<1> QED
  BY <1>2, <1>5, <1>6, <1>7

-----------------------------------------------------------------------------
(* How a call, or one target of it, ends.                                  *)

\* Nothing is under way on a connection.
Quiet(c) ==
    /\ c \in Conns /\ c.toServer = <<>> /\ c.toClient = <<>>
    /\ c.up => c.some /\ ~c.authed /\ c.next = 1

\* A call that returns leaves the invariant if it leaves the connection quiet.
LEMMA ReturnStep ==
    ASSUME IInv, call.pc # "idle", NEW c, Quiet(c), conn' = c,
           NEW S \in SUBSET Pending(conn), orphans' = orphans \cup S,
           NEW result \in Results, Return(result),
           result.is \in {"ok", "err"},
           result.is = "ok" => result.out = call.out /\ Given = Wanted
    PROVE  IInv'
<1>1. /\ outcome' = [outcome EXCEPT ![call.no] = result]
      /\ call' = [call EXCEPT !.pc = "idle"]
      /\ server' = server /\ acts' = acts /\ held' = held
  BY Zenon DEF Return
<1>2. TypeOK /\ call \in Calls /\ call.no \in CallIds
  BY DEF IInv, CallInv, TypeOK
<1>3. /\ call' \in Calls /\ call'.pc = "idle" /\ call'.no = call.no
      /\ call'.targets = call.targets /\ call'.out = call.out
  BY <1>1, <1>2 DEF Calls
<1>4. /\ outcome' \in [CallIds -> Results] /\ outcome'[call.no] = result
      /\ \A d \in CallIds : d # call.no => outcome'[d] = outcome[d]
  BY <1>1, <1>2 DEF TypeOK
<1>5. TypeOK'
  <2>1. S \subseteq CallIds \X Indices
    BY PendingFacts
  <2> QED
    BY <1>1, <1>2, <1>3, <1>4, <2>1 DEF TypeOK, Quiet
<1>6. CallInv'
  BY <1>2, <1>3, <1>4 DEF IInv, CallInv, CallIds
<1>7. RequestInv' /\ ServerInv' /\ WireInv'
  BY <1>3 DEF Quiet, RequestInv, ServerInv, WireInv
<1>8. ActsInv'
  <2>1. \A i \in Indices : <<call.no, i>> \in S => acts[call.no][i] = 0
    BY PendingFacts DEF Untouched
  <2>2. \A d \in CallIds, i \in Indices : <<d, i>> \in S => d = call.no
    BY PendingFacts
  <2>3. \A d \in CallIds, i \in Indices : <<d, i>> \in orphans' =>
          acts[d][i] = 0 /\ d <= call.no
    BY <1>2, <2>1, <2>2, Sizes DEF IInv, ActsInv
  <2> QED
    BY <1>1, <1>3, <2>3 DEF IInv, ActsInv, InSingle
<1>9. EntryInv'
  <2>1. Truthful(call.no, call.out)
    BY DEF IInv, EntryInv
  <2>2. \A d, o : Truthful(d, o)' <=> Truthful(d, o)
    BY <1>1 DEF Truthful
  <2>3. ASSUME NEW d \in CallIds, Finished(d)' PROVE Truthful(d, outcome'[d].out)
    BY <1>2, <1>4, <2>1, <2>3 DEF IInv, EntryInv, Finished
  <2>4. Finished(call.no)' => Len(outcome'[call.no].out) = Wanted
    <3>1. Finished(call.no)' => outcome'[call.no].out = call.out /\ Given = Wanted
      BY <1>3, <1>4, Zenon DEF Finished
    <3> QED
      BY <3>1, Zenon DEF Given
  <2>5. Wanted' = Wanted
    BY <1>3 DEF Wanted
  <2> QED
    BY <1>3, <2>2, <2>3, <2>4, <2>5 DEF EntryInv
<1> QED
  BY <1>5, <1>6, <1>7, <1>8, <1>9 DEF IInv

\* The fallback goes on to the next target.
LEMMA NextTargetStep ==
    ASSUME IInv, InSingle, Given < Wanted, NEW c, Quiet(c), conn' = c,
           NEW S \in SUBSET Pending(conn), orphans' = orphans \cup S,
           NEW entry \in InnerResults, NextTarget(entry),
           entry.ans \in {"ok", "refused"} => entry.call = call.no /\ entry.i = This,
           entry.ans = "ok" => <<call.no, This>> \in held
    PROVE  IInv'
<1>1. /\ call' = [call EXCEPT !.pc = "single", !.out = Append(call.out, entry)]
      /\ server' = server /\ acts' = acts /\ held' = held /\ outcome' = outcome
  BY Zenon DEF NextTarget, Answered
<1>2. TypeOK /\ call \in Calls /\ call.no \in CallIds /\ call.out \in Seq(InnerResults)
  BY DEF IInv, CallInv, TypeOK, InSingle, Calls
<1>3. DEFINE longer == Append(call.out, entry)
<1>4. /\ longer \in Seq(InnerResults) /\ Len(longer) = Given + 1 /\ longer[Given + 1] = entry
      /\ \A k \in 1 .. Given : longer[k] = call.out[k]
  BY <1>2 DEF Given
<1> HIDE DEF longer
<1>5. /\ call' \in Calls /\ call'.pc = "single" /\ call'.no = call.no
      /\ call'.targets = call.targets /\ call'.out = longer
  <2>1. call' = [call EXCEPT !.pc = "single", !.out = longer]
    BY <1>1 DEF longer
  <2> QED
    BY <1>2, <1>4, <2>1 DEF Calls
<1>6. Given' = Given + 1 /\ Wanted' = Wanted /\ This' = This + 1
  BY <1>4, <1>5, <1>2, Sizes DEF Given, Wanted, This
<1>7. TypeOK'
  <2>1. S \subseteq CallIds \X Indices
    BY PendingFacts
  <2>2. Len(call'.out) <= Len(call'.targets) /\ Len(call'.targets) <= Width
    BY <1>2, <1>4, <1>5, Sizes DEF Wanted
  <2> QED
    BY <1>1, <1>2, <1>5, <2>1, <2>2 DEF TypeOK, Quiet
<1>8. CallInv'
  BY <1>1, <1>2, <1>5 DEF IInv, CallInv, InSingle
<1>9. RequestInv' /\ ServerInv' /\ WireInv'
  BY <1>5 DEF Quiet, RequestInv, ServerInv, WireInv
<1>10. ActsInv'
  <2>1. \A i \in Indices : <<call.no, i>> \in S => acts[call.no][i] = 0 /\ i = This
    BY PendingFacts DEF Untouched
  <2>2. \A d \in CallIds, i \in Indices : <<d, i>> \in S => d = call.no
    BY PendingFacts
  <2>3. \A d \in CallIds, i \in Indices : <<d, i>> \in orphans' =>
          acts[d][i] = 0 /\ d <= call.no
    BY <1>2, <2>1, <2>2, Sizes DEF IInv, ActsInv
  <2>4. ASSUME NEW i \in Indices, i > This PROVE Untouched(i)'
    <3>1. Untouched(i)
      BY <2>4 DEF IInv, ActsInv
    <3>2. <<call.no, i>> \notin S
      BY <1>2, <2>1, <2>4, Sizes DEF Indices
    <3> QED
      BY <1>1, <1>5, <3>1, <3>2 DEF Untouched
  <2>5. \A i \in Indices : i >= This' => Untouched(i)'
    BY <1>2, <1>6, <2>4, Sizes DEF Indices
  <2>6. \A d \in CallIds, i \in Indices :
          /\ acts'[d][i] <= 1
          /\ <<d, i>> \in orphans' => acts'[d][i] = 0 /\ d <= call'.no
          /\ d > call'.no => acts'[d][i] = 0
    BY <1>1, <1>5, <2>3 DEF IInv, ActsInv
  <2>7. \A i \in Indices : i > This' => i >= This'
    BY <1>2, <1>6, Sizes DEF Indices
  <2>8. This' \in Indices => This' >= This'
    BY <1>2, <1>6, Sizes
  <2> QED
    BY <1>5, <2>5, <2>6, <2>7, <2>8 DEF ActsInv
<1>11. EntryInv'
  <2>1. Truthful(call.no, call.out)
    BY DEF IInv, EntryInv, InSingle
  <2>2. \A d, o : Truthful(d, o)' <=> Truthful(d, o)
    BY <1>1 DEF Truthful
  <2>3. Truthful(call.no, longer)
    <3>1. \A k \in 1 .. Given + 1 : k \in 1 .. Given \/ (k = Given + 1 /\ k = This)
      BY <1>2, Sizes
    <3> QED
      BY <1>4, <2>1, <3>1 DEF Truthful, Given
  <2>4. ~Finished(call.no)
    BY DEF IInv, CallInv, InSingle, Finished
  <2> QED
    BY <1>1, <1>2, <1>5, <2>2, <2>3, <2>4 DEF IInv, EntryInv, Finished
<1> QED
  BY <1>7, <1>8, <1>9, <1>10, <1>11 DEF IInv

\* A method that ends with an error, or takes it for the entry of a target,
\* leaves nothing under way: it drops the connection, or has read all of it.
LEMMA FailStep ==
    ASSUME IInv, NEW c, NEW why \in {"eof", "timeout", "protocol", "server"}, Fail(c, why),
           c.toServer = conn.toServer, c.next = conn.next,
           ShouldDrop(why) \/ Quiet(c), call.pc # "idle",
           InSingle => Given < Wanted
    PROVE  IInv'
<1>1. Pending(c) = Pending(conn)
  BY Zenon DEF Pending
<1>2. Quiet(NoConn)
  BY Empties DEF Quiet, NoConn, Conns
<1>3. KeepOrDrop(c, why) =>
        \/ conn' = NoConn /\ orphans' = orphans \cup Pending(conn)
        \/ conn' = c /\ Quiet(c) /\ orphans' = orphans \cup {}
  BY <1>1 DEF KeepOrDrop
<1>4. CASE InBatch /\ FailCall(c, why)
  <2>1. Err(why) \in Results /\ Err(why).is = "err"
    BY Empties DEF Err, Results
  <2>2. Return(Err(why)) /\ KeepOrDrop(c, why)
    BY <1>4 DEF FailCall
  <2> QED
    BY <1>2, <1>3, <2>1, <2>2, ReturnStep
<1>5. CASE InSingle /\ FailTarget(c, why)
  <2>1. Inner(why) \in InnerResults /\ Inner(why).ans \notin {"ok", "refused"}
    BY SizeAssumption DEF Inner, InnerResults
  <2>2. NextTarget(Inner(why)) /\ KeepOrDrop(c, why)
    BY <1>5 DEF FailTarget
  <2> QED
    BY <1>2, <1>3, <1>5, <2>1, <2>2, NextTargetStep
<1> QED
  BY <1>4, <1>5 DEF Fail

-----------------------------------------------------------------------------
(* Steps of the client.                                                    *)

\* The invariant holds before the first call.
LEMMA InitStep == Init => IInv
<1> SUFFICES ASSUME Init PROVE IInv
  OBVIOUS
<1> USE DEF Init, Idle, Fresh, NoConn
<1>1. TypeOK
  <2>1. conn \in Conns
    BY Empties DEF Conns
  <2>2. call \in Calls
    BY Empties, SizeAssumption DEF Calls
  <2>3. [Err("none") EXCEPT !.is = "none"] \in Results
    BY Empties DEF Err, Results
  <2>4. outcome \in [CallIds -> Results]
    BY <2>3
  <2>5. acts \in [CallIds -> [Indices -> Nat]]
    BY DEF Indices
  <2> QED
    BY <2>1, <2>2, <2>4, <2>5, SizeAssumption DEF TypeOK
<1>2. \A d \in CallIds : outcome[d].is = "none"
  BY DEF Err
<1>3. CallInv /\ RequestInv /\ ServerInv /\ WireInv
  BY <1>2 DEF CallInv, RequestInv, ServerInv, WireInv
<1>4. ActsInv
  BY SizeAssumption DEF ActsInv, InSingle, CallIds
<1>5. EntryInv
  <2>1. call.pc = "idle" /\ call.no = 0
    BY DEF Init, Idle
  <2>2. \A c \in CallIds : ~Finished(c)
    BY <1>2 DEF Finished
  <2> QED
    BY <2>1, <2>2, SizeAssumption DEF EntryInv, CallIds
<1> QED
  BY <1>1, <1>3, <1>4, <1>5 DEF IInv

\* A call begins; with nothing to do it returns at once.
LEMMA StartStep ==
    ASSUME IInv, NEW kind \in {"lock", "unlock"}, NEW targets \in Batches,
           StartCall(kind, targets)
    PROVE  IInv'
<1> DEFINE result == IF targets = <<>> THEN Ok(<<>>) ELSE [Err("none") EXCEPT !.is = "open"]
<1>1. /\ call.pc = "idle" /\ call.no < MaxCalls
      /\ call' = [Idle EXCEPT !.no = call.no + 1, !.kind = kind, !.targets = targets,
                     !.pc = IF targets = <<>> THEN "idle" ELSE "connect"]
      /\ outcome' = [outcome EXCEPT ![call.no + 1] = result]
      /\ UNCHANGED <<server, conn, acts, held, orphans>>
  BY DEF StartCall
<1>2. TypeOK /\ call.no \in 0 .. MaxCalls
  BY DEF IInv, TypeOK, Calls
<1>3. targets \in Seq(Targets) /\ Len(targets) <= Width
  BY BatchAssumption
<1>4. call.no + 1 \in CallIds
  BY <1>1, <1>2, SizeAssumption DEF CallIds
<1>5. /\ call' \in Calls /\ call'.no = call.no + 1 /\ call'.targets = targets /\ call'.out = <<>>
      /\ call'.pc = IF targets = <<>> THEN "idle" ELSE "connect"
  <2> DEFINE pc == IF targets = <<>> THEN "idle" ELSE "connect"
  <2>1. pc \in {"idle", "connect"} /\ call.no + 1 \in 0 .. MaxCalls
    BY <1>1, <1>2, SizeAssumption
  <2> HIDE DEF pc
  <2>2. call' = [no |-> call.no + 1, pc |-> pc, kind |-> kind, targets |-> targets, out |-> <<>>]
    BY <1>1, Zenon DEF Idle, pc
  <2>3. call' \in Calls
    BY <1>3, <2>1, <2>2, Empties DEF Calls
  <2> QED
    BY <2>2, <2>3 DEF pc
<1>6. result \in Results /\ (result.is = "ok" => targets = <<>>) /\ result.is # "none"
      /\ result.out = <<>> /\ (targets # <<>> => result.is = "open")
  BY Empties DEF Ok, Err, Results
<1> HIDE DEF result
<1>7. /\ outcome' \in [CallIds -> Results] /\ outcome'[call.no + 1] = result
      /\ \A d \in CallIds : d # call.no + 1 => outcome'[d] = outcome[d]
  BY <1>1, <1>2, <1>4, <1>6 DEF TypeOK
<1>8. TypeOK'
  BY <1>1, <1>2, <1>3, <1>5, <1>7 DEF TypeOK
<1>9. CallInv'
  BY <1>2, <1>4, <1>5, <1>6, <1>7 DEF IInv, CallInv, CallIds
<1>10. conn.toServer = <<>> /\ conn.toClient = <<>> /\ call'.pc \in {"idle", "connect"}
  BY <1>1, <1>5 DEF IInv, RequestInv
<1>11. RequestInv' /\ ServerInv' /\ WireInv'
  BY <1>1, <1>10 DEF IInv, RequestInv, ServerInv, WireInv
<1>12. ActsInv'
  BY <1>1, <1>2, <1>4, <1>5, <1>10 DEF IInv, ActsInv, InSingle, Untouched, CallIds
<1>13. EntryInv'
  <2>1. \A d, o : Truthful(d, o)' <=> Truthful(d, o)
    BY <1>1 DEF Truthful
  <2>2. \A d : Truthful(d, <<>>)
    BY DEF Truthful
  <2>3. outcome'[call.no + 1].is = "ok" => Len(outcome'[call.no + 1].out) = Wanted'
    <3>1. outcome'[call.no + 1].is = "ok" => targets = <<>> /\ result.out = <<>>
      BY <1>6, <1>7, Zenon
    <3> QED
      BY <1>5, <1>7, <3>1, Zenon DEF Wanted
  <2>4. ASSUME NEW d \in CallIds, Finished(d)' PROVE Truthful(d, outcome'[d].out)
    <3>1. CASE d = call.no + 1
      BY <1>6, <1>7, <2>2, <3>1, Zenon
    <3>2. CASE d # call.no + 1
      BY <1>7, <2>4, <3>2, Zenon DEF IInv, EntryInv, Finished
    <3> QED
      BY <3>1, <3>2
  <2>5. call'.pc # "idle" => call'.out = <<>> /\ call'.no = call.no + 1
    BY <1>5
  <2>6. call'.pc # "idle" => Truthful(call'.no, call'.out)
    BY <2>2, <2>5, Zenon
  <2>7. call'.pc # "idle" => Truthful(call.no, call.out)'
    BY <2>1, <2>6, Zenon
  <2>8. \A d \in CallIds : Finished(d)' => Truthful(d, outcome[d].out)'
    BY <2>1, <2>4, Zenon
  <2>9. Finished(call.no)' => Len(outcome'[call'.no].out) = Wanted'
    BY <1>5, <2>3, Zenon DEF Finished
  <2> QED
    BY <2>7, <2>8, <2>9, Zenon DEF EntryInv
<1> QED
  BY <1>8, <1>9, <1>11, <1>12, <1>13 DEF IInv

\* ensure_connected gives a new connection.
LEMMA ConnectStep ==
    ASSUME IInv, Connect
    PROVE  IInv'
<1>1. /\ call.pc \in {"connect", "single"} /\ conn' = Fresh
      /\ UNCHANGED <<server, call, outcome, acts, held, orphans>>
  BY DEF Connect
<1>2. Fresh \in Conns /\ Fresh.toServer = <<>> /\ Fresh.toClient = <<>> /\ Fresh.some
      /\ ~Fresh.authed /\ Fresh.next = 1
  BY Empties DEF Fresh, NoConn, Conns
<1>3. TypeOK' /\ CallInv'
  BY <1>1, <1>2 DEF IInv, TypeOK, CallInv, Given, Wanted
<1>4. RequestInv' /\ ServerInv' /\ WireInv'
  BY <1>1, <1>2 DEF RequestInv, ServerInv, WireInv
<1>5. ActsInv' /\ EntryInv'
  BY <1>1, <1>2 DEF IInv, ActsInv, EntryInv, InSingle, Untouched, This, Truthful, Finished,
                    Wanted
<1> QED
  BY <1>3, <1>4, <1>5 DEF IInv

\* Between two commands nothing is under way.
LEMMA QuietNow ==
    ASSUME IInv, call.pc \in {"idle", "connect", "single"}
    PROVE  Quiet(conn)
BY DEF IInv, TypeOK, RequestInv, ServerInv, Quiet

\* What the next call waits for when nothing is unread.
LEMMA WaitFails ==
    ASSUME IInv, ConnectFails \/ ReadEof \/ ReadTimeout
    PROVE  IInv'
<1>1. Fail(conn, "eof") \/ Fail(conn, "timeout")
  BY DEF ConnectFails, ReadEof, ReadTimeout
<1>2. call.pc # "idle"
  BY DEF ConnectFails, ReadEof, ReadTimeout, Reading
<1>3. InSingle => Given < Wanted
  <2>1. CASE ConnectFails
    BY <2>1, Sizes DEF ConnectFails, Wanted, IInv
  <2>2. CASE ReadEof \/ ReadTimeout
    BY <2>2 DEF ReadEof, ReadTimeout, Reading, InSingle, IInv, CallInv
  <2> QED
    BY <2>1, <2>2
<1> QED
  BY <1>1, <1>2, <1>3, FailStep DEF ShouldDrop

\* A path that does not validate: nothing has been written.
LEMMA RefusePathStep ==
    ASSUME IInv, RefusePath
    PROVE  IInv'
<1>1. call.pc = "connect" /\ FailCall(conn, "path")
  BY DEF RefusePath
<1>2. conn' = conn /\ orphans' = orphans \cup {} /\ Return(Err("path"))
  BY <1>1 DEF FailCall, KeepOrDrop, ShouldDrop
<1>3. Err("path") \in Results /\ Err("path").is = "err"
  BY Empties DEF Err, Results
<1> QED
  BY <1>1, <1>2, <1>3, QuietNow, ReturnStep

\* The fallback has an entry for each target.
LEMMA FallbackDoneStep ==
    ASSUME IInv, FallbackDone
    PROVE  IInv'
<1>1. /\ call.pc = "single" /\ conn' = conn /\ orphans' = orphans \cup {}
      /\ This > Wanted /\ Return(Ok(call.out))
  BY DEF FallbackDone, Wanted
<1>2. Given = Wanted
  BY <1>1, Sizes DEF IInv
<1>3. Ok(call.out) \in Results /\ Ok(call.out).out = call.out /\ Ok(call.out).is = "ok"
  BY DEF IInv, TypeOK, Calls, Ok, Results
<1> QED
  BY <1>1, <1>2, <1>3, QuietNow, ReturnStep

\* A request is written, or lost with the connection.
LEMMA WriteFacts ==
    ASSUME IInv, call.pc \in {"connect", "single"}, NEW req \in Requests,
           NEW place \in {"auth", "singleAuth"}, Write(req, place)
    PROVE  /\ TypeOK' /\ conn'.toServer = (IF conn.up THEN <<req>> ELSE <<>>)
           /\ conn'.toClient = <<>> /\ conn'.up = conn.up /\ conn'.some = conn.some
           /\ conn'.authed = conn.authed /\ conn'.next = conn.next
           /\ call'.no = call.no /\ call'.pc = place /\ call'.targets = call.targets
           /\ call'.out = call.out
           /\ UNCHANGED <<server, outcome, acts, held, orphans, Given, Wanted, This>>
<1>1. /\ conn' = IF conn.up THEN [conn EXCEPT !.toServer = Append(conn.toServer, req)] ELSE conn
      /\ call' = [call EXCEPT !.pc = place]
      /\ UNCHANGED <<server, outcome, acts, held, orphans>>
  BY Zenon DEF Write
<1>2. TypeOK /\ conn \in Conns /\ call \in Calls /\ conn.toServer = <<>> /\ conn.toClient = <<>>
  BY DEF IInv, TypeOK, RequestInv
<1>3. Append(<<>>, req) = <<req>> /\ <<req>> \in Seq(Requests)
  OBVIOUS
<1>4. /\ conn' \in Conns /\ conn'.toServer = (IF conn.up THEN <<req>> ELSE <<>>)
      /\ conn'.toClient = <<>> /\ conn'.up = conn.up /\ conn'.some = conn.some
      /\ conn'.authed = conn.authed /\ conn'.next = conn.next
  <2>1. conn' = IF conn.up THEN [conn EXCEPT !.toServer = <<req>>] ELSE conn
    BY <1>1, <1>2, <1>3
  <2> QED
    BY <1>2, <1>3, <2>1 DEF Conns
<1>5. /\ call' \in Calls /\ call'.no = call.no /\ call'.pc = place
      /\ call'.targets = call.targets /\ call'.out = call.out
  BY <1>1, <1>2 DEF Calls
<1>6. UNCHANGED <<Given, Wanted, This>>
  BY <1>5 DEF Given, Wanted, This
<1>7. TypeOK'
  BY <1>1, <1>2, <1>4, <1>5 DEF TypeOK
<1> QED
  BY <1>1, <1>4, <1>5, <1>6, <1>7

\* lock-many or unlock-many is written.
LEMMA SendBatchStep ==
    ASSUME IInv, SendBatch
    PROVE  IInv'
<1>1. call.pc = "connect" /\ conn.some /\ Write(BatchRequest, "auth")
  BY DEF SendBatch, BatchRequest
<1>2. TypeOK /\ call.no \in CallIds /\ call.targets \in Seq(Targets)
  BY <1>1 DEF IInv, CallInv, TypeOK, Calls
<1>3. BatchRequest \in Requests
  BY <1>2, SizeAssumption DEF BatchRequest, Requests
<1>4. /\ TypeOK' /\ conn'.toServer = (IF conn.up THEN <<BatchRequest>> ELSE <<>>)
      /\ conn'.toClient = <<>> /\ conn'.up = conn.up /\ conn'.some = conn.some
      /\ conn'.authed = conn.authed /\ conn'.next = conn.next
      /\ call'.no = call.no /\ call'.pc = "auth" /\ call'.targets = call.targets
      /\ call'.out = call.out
      /\ UNCHANGED <<server, outcome, acts, held, orphans, Given, Wanted, This>>
  BY <1>1, <1>3, WriteFacts
<1>5. Quiet(conn) /\ call.out = <<>> /\ \A i \in Indices : Untouched(i)
  BY <1>1, QuietNow DEF IInv, CallInv, ActsInv
<1>6. BatchRequest' = BatchRequest /\ <<BatchRequest>> # <<>>
  BY <1>4 DEF BatchRequest
<1>7. CallInv'
  BY <1>1, <1>4, <1>5 DEF IInv, CallInv
<1>8. RequestInv'
  BY <1>1, <1>4, <1>6 DEF IInv, RequestInv
<1>9. ServerInv'
  BY <1>2, <1>4, <1>5, Sizes DEF ServerInv, Quiet
<1>10. Unread' = 0
  BY <1>4 DEF Unread
<1>11. WireInv'
  BY <1>4, <1>10 DEF WireInv
<1>12. ActsInv'
  BY <1>4, <1>5 DEF IInv, ActsInv, InSingle, Untouched
<1>13. EntryInv'
  BY <1>1, <1>4 DEF IInv, EntryInv, Truthful, Finished
<1> QED
  BY <1>4, <1>7, <1>8, <1>9, <1>11, <1>12, <1>13 DEF IInv

\* lock or unlock is written for the next target.
LEMMA SendSingleStep ==
    ASSUME IInv, SendSingle
    PROVE  IInv'
<1>1. call.pc = "single" /\ conn.some /\ This <= Wanted /\ Write(SingleRequest, "singleAuth")
  BY DEF SendSingle, SingleRequest, Wanted
<1>2. TypeOK /\ call.no \in CallIds /\ call.targets \in Seq(Targets)
  BY <1>1 DEF IInv, CallInv, TypeOK, Calls
<1>3. SingleRequest \in Requests
  <2>1. This \in 1 .. Wanted /\ This \in 0 .. Width
    BY <1>1, <1>2, Sizes
  <2>2. call.targets[This] \in Targets
    BY <1>2, <2>1 DEF Wanted
  <2> QED
    BY <1>2, <2>1, <2>2 DEF SingleRequest, Requests
<1>4. /\ TypeOK' /\ conn'.toServer = (IF conn.up THEN <<SingleRequest>> ELSE <<>>)
      /\ conn'.toClient = <<>> /\ conn'.up = conn.up /\ conn'.some = conn.some
      /\ conn'.authed = conn.authed /\ conn'.next = conn.next
      /\ call'.no = call.no /\ call'.pc = "singleAuth" /\ call'.targets = call.targets
      /\ call'.out = call.out
      /\ UNCHANGED <<server, outcome, acts, held, orphans, Given, Wanted, This>>
  BY <1>1, <1>3, WriteFacts
<1>5. Quiet(conn)
  BY <1>1, QuietNow
<1>6. SingleRequest' = SingleRequest /\ <<SingleRequest>> # <<>>
  BY <1>4 DEF SingleRequest
<1>7. CallInv'
  BY <1>1, <1>2, <1>4, <1>5, Sizes DEF IInv, CallInv
<1>8. RequestInv'
  BY <1>1, <1>4, <1>6 DEF IInv, RequestInv
<1>9. ServerInv'
  BY <1>2, <1>4, <1>5, Sizes DEF ServerInv, Quiet
<1>10. Unread' = 0
  BY <1>4 DEF Unread
<1>11. WireInv'
  BY <1>4, <1>10 DEF WireInv
<1>12. ActsInv'
  BY <1>1, <1>4 DEF IInv, ActsInv, InSingle, Untouched
<1>13. EntryInv'
  BY <1>1, <1>4 DEF IInv, EntryInv, Truthful, Finished
<1> QED
  BY <1>4, <1>7, <1>8, <1>9, <1>11, <1>12, <1>13 DEF IInv

\* An item of the batch is read and is not the end: the others move up.
LEMMA ShiftStep ==
    ASSUME IInv, call.pc \in {"auth", "answers"}, conn.toClient # <<>>, conn' = Rest,
           call' \in Calls, call'.no = call.no, call'.pc = "answers",
           call'.targets = call.targets, Given' <= Wanted, Given' = Place(1),
           Truthful(call.no, call'.out), conn.toClient[1].kind # "done",
           UNCHANGED <<server, outcome, acts, held, orphans>>
    PROVE  IInv'
<1>1. TypeOK /\ call.no \in CallIds
  BY DEF IInv, CallInv
<1>2. /\ conn' \in Conns /\ conn'.toServer = conn.toServer /\ conn'.some = conn.some
      /\ conn'.up = conn.up /\ conn'.authed = conn.authed /\ conn'.next = conn.next
      /\ Unread \in Nat /\ Unread > 0 /\ Unread' = Unread - 1
      /\ \A k \in 1 .. Unread' : conn'.toClient[k] = conn.toClient[k + 1]
  BY <1>1, RestFacts DEF Unread
<1>3. /\ Wanted' = Wanted /\ BatchRequest' = BatchRequest /\ Given \in Nat /\ Wanted \in Nat
      /\ call.pc = "auth" => Given = 0
  BY <1>1, Sizes DEF Wanted, BatchRequest, IInv, CallInv, Given
<1>4. Given' \in Nat /\ \A k \in Nat : Place(k)' = Place(k + 1)
  BY <1>3 DEF Place
<1>5. TypeOK'
  <2>1. Len(call'.out) <= Len(call'.targets) /\ Len(call'.targets) <= Width
    BY <1>1, <1>3, Sizes DEF Given, Wanted
  <2> QED
    BY <1>1, <1>2, <2>1 DEF TypeOK
<1>6. CallInv'
  BY DEF IInv, CallInv
<1>7. RequestInv'
  BY <1>2, <1>3 DEF IInv, RequestInv
<1>8. ServerInv'
  <2>1. Place(Unread)' = Place(Unread)
    BY <1>2, <1>3, <1>4 DEF Place
  <2> QED
    BY <1>2, <1>3, <2>1 DEF IInv, ServerInv
<1>9. WireInv'
  <2> SUFFICES ASSUME NEW k \in 1 .. Unread'
               PROVE  (\/ IsAuth(k) \/ IsBatchAnswer(k) \/ IsUnknown(k)
                       \/ IsExtra(k) \/ IsDone(k) \/ IsEnd(k))'
    BY DEF WireInv
  <2>1. /\ k + 1 \in 1 .. Unread /\ k \in Nat /\ k > 0 /\ conn'.toClient[k] = conn.toClient[k + 1]
        /\ Place(k)' = Place(k + 1)
    BY <1>2, <1>4
  <2>2. \/ IsAuth(k + 1) \/ IsBatchAnswer(k + 1) \/ IsUnknown(k + 1)
        \/ IsExtra(k + 1) \/ IsDone(k + 1) \/ IsEnd(k + 1)
    BY <2>1 DEF IInv, WireInv
  <2>3. \A i \in Indices : Untouched(i)' <=> Untouched(i)
    BY DEF Untouched
  <2>4. CASE IsAuth(k + 1)
    BY <1>3, <2>1, <2>4 DEF IsAuth, Place
  <2>5. CASE IsBatchAnswer(k + 1)
    BY <1>3, <2>1, <2>5 DEF IsBatchAnswer, IsAnswer
  <2>6. CASE IsUnknown(k + 1)
    BY <1>2, <2>1, <2>3, <2>6 DEF IsUnknown
  <2>7. CASE IsExtra(k + 1)
    BY <1>3, <2>1, <2>7 DEF IsExtra
  <2>8. CASE IsDone(k + 1)
    BY <1>2, <2>1, <2>8 DEF IsDone
  <2>9. CASE IsEnd(k + 1)
    <3>1. k > 1 /\ conn'.toClient[k - 1] = conn.toClient[k]
      BY <1>2, <2>1, <2>9 DEF IsEnd
    <3> QED
      BY <1>2, <2>1, <2>9, <3>1 DEF IsEnd
  <2> QED
    BY <2>2, <2>4, <2>5, <2>6, <2>7, <2>8, <2>9
<1>10. ActsInv'
  BY <1>2 DEF IInv, ActsInv, InSingle, Untouched
<1>11. EntryInv'
  BY <1>1, <1>3 DEF IInv, EntryInv, Truthful, Finished, CallInv
<1> QED
  BY <1>5, <1>6, <1>7, <1>8, <1>9, <1>10, <1>11 DEF IInv

\* A batch whose command is unknown is not begun: the fallback starts, on a
\* quiet connection and with every target untouched.
LEMMA FallbackStep ==
    ASSUME IInv, call.pc = "answers", conn.toClient # <<>>, call.out = <<>>,
           conn.toClient[1].kind = "unknown", Goto("single")
    PROVE  IInv'
<1>1. TypeOK /\ call.no \in CallIds /\ call \in Calls
  BY DEF IInv, CallInv, TypeOK
<1>2. conn' = Rest /\ call' = [call EXCEPT !.pc = "single"]
      /\ UNCHANGED <<server, outcome, acts, held, orphans>>
  BY Zenon DEF Goto
<1>3. /\ call' \in Calls /\ call'.pc = "single" /\ call'.no = call.no
      /\ call'.targets = call.targets /\ call'.out = call.out
  BY <1>1, <1>2 DEF Calls
<1>4. IsUnknown(1)
  <2>1. 1 \in 1 .. Unread
    BY <1>1, RestFacts
  <2>2. \/ IsAuth(1) \/ IsBatchAnswer(1) \/ IsUnknown(1)
        \/ IsExtra(1) \/ IsDone(1) \/ IsEnd(1)
    BY <2>1 DEF IInv, WireInv
  <2> QED
    BY <2>2 DEF IsAuth, IsBatchAnswer, IsAnswer, IsExtra, IsDone, IsEnd
<1>5. Quiet(conn')
  <2>1. /\ Unread = 1 /\ conn.toServer = <<>>
        /\ conn.up => conn.some /\ ~conn.authed /\ conn.next = 1
    BY <1>4 DEF IsUnknown, IInv, RequestInv, ServerInv
  <2> QED
    BY <1>1, <1>2, <1>4, <2>1, RestFacts DEF Quiet, IsUnknown
<1>6. UNCHANGED <<Given, Wanted, This>> /\ This = 1
  BY <1>1, <1>3, Sizes DEF Given, Wanted, This
<1>7. TypeOK'
  BY <1>1, <1>2, <1>3, <1>5 DEF TypeOK, Quiet
<1>8. CallInv'
  BY <1>2, <1>3 DEF IInv, CallInv
<1>9. RequestInv' /\ ServerInv' /\ WireInv'
  BY <1>3, <1>5 DEF Quiet, RequestInv, ServerInv, WireInv
<1>10. ActsInv'
  BY <1>2, <1>3, <1>4, <1>6 DEF IInv, ActsInv, InSingle, Untouched, IsUnknown
<1>11. EntryInv'
  BY <1>2, <1>3, <1>6 DEF IInv, EntryInv, Truthful, Finished
<1> QED
  BY <1>7, <1>8, <1>9, <1>10, <1>11 DEF IInv

\* The answers are at an end: the response is left.
LEMMA ReadDoneStep ==
    ASSUME IInv, call.pc = "answers", conn.toClient # <<>>,
           conn.toClient[1].kind = "done", Goto("response")
    PROVE  IInv'
<1>1. TypeOK /\ call.no \in CallIds /\ call \in Calls
  BY DEF IInv, CallInv, TypeOK
<1>2. conn' = Rest /\ call' = [call EXCEPT !.pc = "response"]
      /\ UNCHANGED <<server, outcome, acts, held, orphans>>
  BY Zenon DEF Goto
<1>3. /\ call' \in Calls /\ call'.pc = "response" /\ call'.no = call.no
      /\ call'.targets = call.targets /\ call'.out = call.out
  BY <1>1, <1>2 DEF Calls
<1>4. IsDone(1)
  <2>1. 1 \in 1 .. Unread
    BY <1>1, RestFacts
  <2>2. \/ IsAuth(1) \/ IsBatchAnswer(1) \/ IsUnknown(1)
        \/ IsExtra(1) \/ IsDone(1) \/ IsEnd(1)
    BY <2>1 DEF IInv, WireInv
  <2> QED
    BY <2>2 DEF IsAuth, IsBatchAnswer, IsAnswer, IsExtra, IsUnknown, IsEnd
<1>5. /\ conn' \in Conns /\ conn'.toServer = <<>> /\ conn'.some = conn.some
      /\ conn'.up = conn.up /\ conn'.authed = conn.authed /\ conn'.next = conn.next
      /\ Unread' <= 1 /\ conn.toServer = <<>>
  BY <1>1, <1>2, <1>4, RestFacts DEF Unread, IsDone
<1>6. UNCHANGED <<Given, Wanted, This>>
  BY <1>3 DEF Given, Wanted, This
<1>7. TypeOK'
  BY <1>1, <1>2, <1>3, <1>5 DEF TypeOK
<1>8. CallInv'
  BY <1>2, <1>3 DEF IInv, CallInv
<1>9. RequestInv' /\ ServerInv' /\ WireInv'
  BY <1>2, <1>3, <1>5 DEF IInv, RequestInv, ServerInv, WireInv
<1>10. ActsInv'
  BY <1>2, <1>3, <1>5 DEF IInv, ActsInv, InSingle, Untouched
<1>11. EntryInv'
  BY <1>2, <1>3, <1>6 DEF IInv, EntryInv, Truthful, Finished
<1> QED
  BY <1>7, <1>8, <1>9, <1>10, <1>11 DEF IInv

\* An entry is pushed, or there is one too many.
LEMMA PushStep ==
    ASSUME IInv, call.pc = "answers", conn.toClient # <<>>,
           conn.toClient[1].kind # "done", NEW entry \in InnerResults, Push(entry),
           Room => /\ entry.ans \in {"ok", "refused"} => entry.call = call.no /\ entry.i = This
                   /\ entry.ans = "ok" => <<call.no, This>> \in held
    PROVE  IInv'
<1>1. TypeOK /\ call.no \in CallIds /\ call \in Calls /\ call.out \in Seq(InnerResults)
  BY DEF IInv, CallInv, TypeOK, Calls
<1>2. CASE ~Room
  <2>1. FailCall(Rest, "protocol")
    BY <1>2, Zenon DEF Push
  <2>2. Fail(Rest, "protocol") /\ ~InSingle
    BY <2>1 DEF Fail, InBatch, InSingle
  <2> QED
    BY <1>1, <2>2, RestFacts, FailStep DEF ShouldDrop
<1>3. CASE Room
  <2> DEFINE longer == Append(call.out, entry)
  <2>1. /\ conn' = Rest /\ call' = [call EXCEPT !.out = longer]
        /\ UNCHANGED <<server, outcome, acts, held, orphans>>
    BY <1>3, Zenon DEF Push
  <2>2. /\ longer \in Seq(InnerResults) /\ Len(longer) = Given + 1 /\ longer[Given + 1] = entry
        /\ \A k \in 1 .. Given : longer[k] = call.out[k]
    BY <1>1 DEF Given
  <2> HIDE DEF longer
  <2>3. /\ call' \in Calls /\ call'.pc = "answers" /\ call'.no = call.no
        /\ call'.targets = call.targets /\ call'.out = longer
    BY <1>1, <2>1, <2>2 DEF Calls
  <2>4. Given' = Given + 1 /\ Given' = Place(1) /\ Given' <= Wanted
    BY <1>1, <1>3, <2>2, <2>3, Sizes DEF Given, Wanted, Place, Room
  <2>5. Truthful(call.no, longer)
    <3>1. Truthful(call.no, call.out)
      BY DEF IInv, EntryInv
    <3>2. \A k \in 1 .. Given + 1 : k \in 1 .. Given \/ (k = Given + 1 /\ k = This)
      BY <1>1, Sizes
    <3> QED
      BY <1>3, <2>2, <3>1, <3>2 DEF Truthful, Given
  <2> QED
    BY <2>1, <2>3, <2>4, <2>5, ShiftStep
<1> QED
  BY <1>2, <1>3

\* The request for authentication is answered.
LEMMA ReadAuthStep ==
    ASSUME IInv, conn.toClient # <<>>, ReadAuth(conn.toClient[1])
    PROVE  IInv'
<1>1. TypeOK /\ call.no \in CallIds /\ call \in Calls
  BY DEF IInv, CallInv, TypeOK, ReadAuth
<1>2. /\ Rest \in Conns /\ Rest.toServer = conn.toServer /\ Rest.some = conn.some
      /\ Rest.up = conn.up /\ Rest.authed = conn.authed /\ Rest.next = conn.next
      /\ Unread \in Nat /\ Unread > 0 /\ Len(Rest.toClient) = Unread - 1
      /\ Unread = 1 => Rest.toClient = <<>>
      /\ \A k \in 1 .. Unread - 1 : Rest.toClient[k] = conn.toClient[k + 1]
      /\ 1 \in 1 .. Unread
  BY <1>1, RestFacts
<1>3. CASE call.pc = "auth" /\ conn.toClient[1].kind = "auth" /\ Goto("answers")
  <2>1. conn' = Rest /\ call' = [call EXCEPT !.pc = "answers"]
        /\ UNCHANGED <<server, outcome, acts, held, orphans>>
    BY <1>3, Zenon DEF Goto
  <2>2. /\ call' \in Calls /\ call'.pc = "answers" /\ call'.no = call.no
        /\ call'.targets = call.targets /\ call'.out = call.out /\ call.out = <<>>
    BY <1>1, <1>3, <2>1 DEF Calls, IInv, CallInv
  <2>3. Given' = 0 /\ Place(1) = 0 /\ 0 <= Wanted
    BY <1>1, <1>3, <2>2, Sizes DEF Given, Place
  <2>4. Truthful(call.no, call'.out)
    BY <2>2 DEF Truthful
  <2> QED
    BY <1>3, <2>1, <2>2, <2>3, <2>4, ShiftStep
<1>4. CASE call.pc = "singleAuth" /\ Goto("singleResponse")
  <2>1. conn' = Rest /\ call' = [call EXCEPT !.pc = "singleResponse"]
        /\ UNCHANGED <<server, outcome, acts, held, orphans>>
    BY <1>4, Zenon DEF Goto
  <2>2. /\ call' \in Calls /\ call'.pc = "singleResponse" /\ call'.no = call.no
        /\ call'.targets = call.targets /\ call'.out = call.out
    BY <1>1, <2>1 DEF Calls
  <2>3. UNCHANGED <<Given, Wanted, This, SingleRequest>> /\ Unread' = Unread - 1
    BY <1>2, <2>1, <2>2 DEF Given, Wanted, This, SingleRequest, Unread
  <2>4. TypeOK'
    BY <1>1, <1>2, <2>1, <2>2 DEF TypeOK
  <2>5. CallInv'
    BY <1>4, <2>1, <2>2, <2>3 DEF IInv, CallInv
  <2>6. RequestInv'
    BY <1>2, <1>4, <2>1, <2>2, <2>3 DEF IInv, RequestInv
  <2>7. ServerInv'
    BY <1>2, <1>4, <2>1, <2>2, <2>3 DEF IInv, ServerInv, Place
  <2>8. WireInv'
    <3> SUFFICES ASSUME NEW k \in 1 .. Unread' PROVE IsAuth(k)' \/ IsSingleAnswer(k)'
      BY <2>2 DEF WireInv
    <3>1. /\ k + 1 \in 1 .. Unread /\ k \in Nat /\ k > 0 /\ conn'.toClient[k] = conn.toClient[k + 1]
          /\ Place(k + 1) = k /\ Place(k)' = k
      BY <1>2, <1>4, <2>1, <2>2, <2>3 DEF Place
    <3>2. IsAuth(k + 1) \/ IsSingleAnswer(k + 1)
      BY <1>4, <3>1 DEF IInv, WireInv
    <3>3. IsSingleAnswer(k + 1)
      BY <3>1, <3>2 DEF IsAuth
    <3>4. k + 1 = Unread => k = Unread'
      BY <1>2, <2>3
    <3> QED
      BY <1>2, <2>1, <2>2, <2>3, <3>1, <3>3, <3>4 DEF IsSingleAnswer, IsAnswer
  <2>9. ActsInv'
    BY <1>2, <1>4, <2>1, <2>2, <2>3 DEF IInv, ActsInv, InSingle, Untouched
  <2>10. EntryInv'
    BY <1>4, <2>1, <2>2, <2>3 DEF IInv, EntryInv, Truthful, Finished
  <2> QED
    BY <2>4, <2>5, <2>6, <2>7, <2>8, <2>9, <2>10 DEF IInv
<1>5. CASE /\ call.pc \in {"auth", "singleAuth"} /\ conn.toClient[1].kind # "auth"
           /\ Fail(Rest, IF conn.toClient[1].kind \in {"failure", "unknown"}
                         THEN "server" ELSE "protocol")
  <2>1. InSingle => Given < Wanted
    BY <1>5 DEF IInv, CallInv, InSingle
  <2>2. CASE Fail(Rest, "protocol")
    BY <1>2, <1>5, <2>1, <2>2, FailStep DEF ShouldDrop
  <2>3. CASE Fail(Rest, "server") /\ conn.toClient[1].kind \in {"failure", "unknown"}
    <3>1. Place(1) = 0
      BY <1>5 DEF Place
    <3>2. call.pc = "auth" => IsUnknown(1)
      <4>1. call.pc = "auth" => \/ IsAuth(1) \/ IsBatchAnswer(1) \/ IsUnknown(1)
                                \/ IsExtra(1) \/ IsDone(1) \/ IsEnd(1)
        BY <1>2 DEF IInv, WireInv
      <4>2. ~IsAuth(1) /\ ~IsExtra(1) /\ ~IsDone(1) /\ ~IsEnd(1)
        BY <2>3 DEF IsAuth, IsExtra, IsDone, IsEnd
      <4>3. ~IsBatchAnswer(1)
        BY <1>1, <3>1, Sizes DEF IsBatchAnswer
      <4> QED
        BY <4>1, <4>2, <4>3
    <3>3. call.pc # "singleAuth"
      <4>1. call.pc = "singleAuth" => IsAuth(1) \/ IsSingleAnswer(1)
        BY <1>2 DEF IInv, WireInv
      <4>2. ~IsAuth(1) /\ ~IsSingleAnswer(1)
        BY <2>3, <3>1 DEF IsAuth, IsSingleAnswer
      <4> QED
        BY <4>1, <4>2
    <3>4. Unread = 1 /\ conn.toServer = <<>>
      BY <1>5, <3>2, <3>3 DEF IsUnknown
    <3>5. Quiet(Rest)
      BY <1>2, <3>4 DEF Quiet, IInv, RequestInv, ServerInv
    <3> QED
      BY <1>2, <1>5, <2>1, <2>3, <3>5, FailStep
  <2> QED
    BY <1>5, <2>2, <2>3
<1> QED
  BY <1>3, <1>4, <1>5 DEF ReadAuth

\* An answer of the batch.
LEMMA ReadAnswerStep ==
    ASSUME IInv, conn.toClient # <<>>, call.pc = "answers",
           \/ ReadSuccess(conn.toClient[1]) \/ ReadFailure(conn.toClient[1])
           \/ ReadDone(conn.toClient[1])
    PROVE  IInv'
<1> DEFINE item == conn.toClient[1]
<1>1. /\ TypeOK /\ item \in Items /\ 1 \in 1 .. Unread
      /\ Rest.toServer = conn.toServer /\ Rest.next = conn.next
  BY RestFacts DEF IInv
<1>2. /\ \/ IsAuth(1) \/ IsBatchAnswer(1) \/ IsUnknown(1)
         \/ IsExtra(1) \/ IsDone(1) \/ IsEnd(1)
      /\ Place(1) = This /\ This = Given + 1 /\ Given \in Nat /\ Wanted \in Nat
  BY <1>1, Sizes DEF IInv, WireInv, Place
<1>3. CASE FailCall(Rest, "protocol")
  <2>1. Fail(Rest, "protocol") /\ ~InSingle
    BY <1>3 DEF Fail, InBatch, InSingle
  <2> QED
    BY <1>1, <2>1, FailStep DEF ShouldDrop
<1>4. CASE item.kind = "success" /\ Push(Entry(item, "ok"))
  <2>1. Entry(item, "ok") \in InnerResults /\ Entry(item, "ok").call = item.call
        /\ Entry(item, "ok").i = item.i
    BY <1>1 DEF Entry, InnerResults, Items
  <2>2. Room => IsBatchAnswer(1)
    BY <1>2, <1>4 DEF IsAuth, IsUnknown, IsExtra, IsDone, IsEnd, Room, Given, Wanted
  <2>3. Room => item.call = call.no /\ item.i = This /\ <<call.no, This>> \in held
    BY <1>2, <1>4, <2>2 DEF IsBatchAnswer, IsAnswer
  <2> QED
    BY <1>4, <2>1, <2>3, PushStep
<1>5. CASE item.kind = "garbled" /\ Push(Inner("protocol"))
  <2>1. Inner("protocol") \in InnerResults /\ Inner("protocol").ans \notin {"ok", "refused"}
    BY SizeAssumption DEF Inner, InnerResults
  <2> QED
    BY <1>5, <2>1, PushStep
<1>6. CASE /\ item.kind \in {"failure", "unknown"} /\ ~Unsupported(item)
           /\ Push(Entry(item, "refused"))
  <2>1. /\ Entry(item, "refused") \in InnerResults /\ Entry(item, "refused").call = item.call
        /\ Entry(item, "refused").i = item.i /\ Entry(item, "refused").ans # "ok"
    BY <1>1 DEF Entry, InnerResults, Items
  <2>2. ~IsUnknown(1)
    <3>1. IsUnknown(1) => Given = 0 /\ item.kind = "unknown"
      BY <1>2 DEF IsUnknown
    <3>2. Given = 0 => call.out = <<>>
      <4>1. call.out \in Seq(InnerResults) /\ Given = Len(call.out)
        BY <1>1 DEF TypeOK, Calls, Given
      <4> QED
        BY <4>1, EmptySeq
    <3> QED
      BY <1>6, <3>1, <3>2 DEF Unsupported
  <2>3. IsBatchAnswer(1)
    BY <1>2, <1>6, <2>2 DEF IsAuth, IsExtra, IsDone, IsEnd
  <2>4. item.call = call.no /\ item.i = This
    BY <1>2, <2>3 DEF IsBatchAnswer, IsAnswer
  <2> QED
    BY <1>6, <2>1, <2>4, PushStep
<1>7. CASE item.kind \in {"failure", "unknown"} /\ Unsupported(item) /\ Goto("single")
  BY <1>7, FallbackStep DEF Unsupported
<1>8. CASE item.kind = "done" /\ Goto("response")
  BY <1>8, ReadDoneStep
<1> QED
  BY <1>3, <1>4, <1>5, <1>6, <1>7, <1>8
     DEF ReadSuccess, ReadLockdesc, ReadPath, ReadFailure, ReadDone, EndOfAnswers

\* The response that ends a batch.
LEMMA ReadResponseStep ==
    ASSUME IInv, conn.toClient # <<>>, call.pc = "response", ReadResponse(conn.toClient[1])
    PROVE  IInv'
<1>1. TypeOK /\ Rest.toServer = conn.toServer /\ Rest.next = conn.next /\ ~InSingle
  BY RestFacts DEF IInv, InSingle
<1>2. Quiet(Rest)
  <2>1. Unread <= 1 /\ conn.toServer = <<>>
    BY DEF IInv, WireInv, RequestInv
  <2>2. conn.up => conn.some /\ ~conn.authed /\ conn.next = 1
    BY <2>1 DEF IInv, RequestInv, ServerInv
  <2> QED
    BY <1>1, <2>1, <2>2, RestFacts DEF Quiet
<1>3. CASE AllAnswered /\ conn' = Rest /\ UNCHANGED orphans /\ Return(Ok(call.out))
  <2>1. Ok(call.out) \in Results /\ Ok(call.out).out = call.out /\ Ok(call.out).is = "ok"
    BY DEF IInv, TypeOK, Calls, Ok, Results
  <2>2. Given = Wanted /\ orphans' = orphans \cup {}
    BY <1>3 DEF AllAnswered, Given, Wanted
  <2> QED
    BY <1>2, <1>3, <2>1, <2>2, ReturnStep
<1>4. CASE FailCall(Rest, "server")
  BY <1>1, <1>2, <1>4, FailStep DEF Fail, InBatch
<1>5. CASE FailCall(Rest, "protocol")
  BY <1>1, <1>2, <1>5, FailStep DEF Fail, InBatch
<1> QED
  BY <1>3, <1>4, <1>5 DEF ReadResponse

\* The response to a single command.
LEMMA ReadSingleStep ==
    ASSUME IInv, conn.toClient # <<>>, call.pc = "singleResponse",
           ReadSingle(conn.toClient[1])
    PROVE  IInv'
<1> DEFINE item == conn.toClient[1]
<1>1. /\ TypeOK /\ item \in Items /\ 1 \in 1 .. Unread
      /\ Rest.toServer = conn.toServer /\ Rest.next = conn.next
      /\ InSingle /\ Given < Wanted /\ Place(1) = 1
  BY RestFacts DEF IInv, CallInv, InSingle, Place
<1>2. IsSingleAnswer(1)
  BY <1>1 DEF IInv, WireInv, IsAuth
<1>3. Quiet(Rest)
  <2>1. Unread = 1 /\ conn.toServer = <<>>
    BY <1>2 DEF IsSingleAnswer
  <2>2. conn.up => conn.some /\ ~conn.authed /\ conn.next = 1
    BY <2>1 DEF IInv, RequestInv, ServerInv
  <2> QED
    BY <1>1, <2>1, <2>2, RestFacts DEF Quiet
<1>4. /\ item.call = call.no /\ item.i = This
      /\ item.kind # "failure" => <<call.no, This>> \in held
  BY <1>2 DEF IsSingleAnswer, IsAnswer
<1>5. CASE GoodForOne(item) /\ conn' = Rest /\ UNCHANGED orphans /\ NextTarget(Entry(item, "ok"))
  <2>1. Entry(item, "ok") \in InnerResults /\ Entry(item, "ok").call = item.call
        /\ Entry(item, "ok").i = item.i
    BY <1>1 DEF Entry, InnerResults, Items
  <2>2. item.kind # "failure" /\ orphans' = orphans \cup {}
    BY <1>5 DEF GoodForOne
  <2> QED
    BY <1>1, <1>3, <1>4, <1>5, <2>1, <2>2, NextTargetStep
<1>6. CASE conn' = Rest /\ UNCHANGED orphans /\ NextTarget(Entry(item, "refused"))
  <2>1. /\ Entry(item, "refused") \in InnerResults /\ Entry(item, "refused").call = item.call
        /\ Entry(item, "refused").i = item.i /\ Entry(item, "refused").ans # "ok"
    BY <1>1 DEF Entry, InnerResults, Items
  <2>2. orphans' = orphans \cup {}
    BY <1>6
  <2> QED
    BY <1>1, <1>3, <1>4, <1>6, <2>1, <2>2, NextTargetStep
<1>7. CASE FailTarget(Rest, "protocol")
  BY <1>1, <1>3, <1>7, FailStep DEF Fail
<1> QED
  BY <1>5, <1>6, <1>7 DEF ReadSingle

\* An item is read.
LEMMA ReadStep ==
    ASSUME IInv, Read
    PROVE  IInv'
<1>1. conn.toClient # <<>> /\ Head(conn.toClient) = conn.toClient[1]
  BY RestFacts DEF Read, IInv
<1> QED
  BY <1>1, ReadAuthStep, ReadAnswerStep, ReadResponseStep, ReadSingleStep DEF Read

-----------------------------------------------------------------------------
(* Steps of the server.                                                    *)

\* The request the server is at.
LEMMA RequestFacts ==
    ASSUME IInv, Serving
    PROVE  /\ TypeOK /\ conn.up /\ conn.some /\ conn.toServer # <<>> /\ call.no \in CallIds
           /\ Tail(conn.toServer) = <<>> /\ Request.call = call.no
           /\ conn.next \in Nat /\ conn.next > 0 /\ conn.next <= Wanted + 1
           /\ \/ /\ call.pc \in {"auth", "answers"} /\ Request.many
                 /\ Request.targets = call.targets /\ conn.toServer = <<BatchRequest>>
              \/ /\ call.pc \in {"singleAuth", "singleResponse"} /\ ~Request.many
                 /\ Request.i = This /\ conn.toServer = <<SingleRequest>> /\ This \in Indices
<1>1. TypeOK /\ conn.up /\ conn.some /\ conn.toServer # <<>>
  BY DEF IInv, RequestInv, Serving
<1>2. conn.next \in Nat /\ conn.next > 0 /\ conn.next <= Wanted + 1
  BY <1>1 DEF IInv, ServerInv, TypeOK, Conns
<1>3. \/ call.pc \in {"auth", "answers"} /\ conn.toServer = <<BatchRequest>>
      \/ call.pc \in {"singleAuth", "singleResponse"} /\ conn.toServer = <<SingleRequest>>
  BY <1>1 DEF IInv, RequestInv, TypeOK, Calls
<1>4. call.no \in CallIds
  BY <1>3 DEF IInv, CallInv
<1>5. /\ Head(<<BatchRequest>>) = BatchRequest /\ Tail(<<BatchRequest>>) = <<>>
      /\ Head(<<SingleRequest>>) = SingleRequest /\ Tail(<<SingleRequest>>) = <<>>
  OBVIOUS
<1>6. /\ BatchRequest.many = TRUE /\ BatchRequest.call = call.no
      /\ BatchRequest.targets = call.targets
      /\ SingleRequest.many = FALSE /\ SingleRequest.call = call.no /\ SingleRequest.i = This
  BY DEF BatchRequest, SingleRequest
<1>7. call.pc \in {"singleAuth", "singleResponse"} => This \in Indices
  BY <1>1, Sizes DEF IInv, CallInv, Indices
<1> QED
  BY <1>1, <1>2, <1>3, <1>4, <1>5, <1>6, <1>7 DEF Request

\* What the server says comes after what it has said.
LEMMA SayFacts ==
    ASSUME TypeOK, NEW items \in Seq(Items), conn'.toClient = conn.toClient \o items
    PROVE  /\ conn'.toClient \in Seq(Items) /\ Unread \in Nat
           /\ Unread' = Unread + Len(items)
           /\ \A k \in 1 .. Unread : conn'.toClient[k] = conn.toClient[k]
           /\ \A j \in 1 .. Len(items) : conn'.toClient[Unread + j] = items[j]
<1> DEFINE old == conn.toClient
           new == conn'.toClient
<1>1. old \in Seq(Items) /\ new = old \o items /\ Unread = Len(old) /\ Unread' = Len(new)
  BY DEF TypeOK, Conns, Unread
<1> HIDE DEF old, new
<1>2. /\ new \in Seq(Items) /\ Len(new) = Len(old) + Len(items) /\ Len(old) \in Nat
      /\ \A k \in 1 .. Len(old) : new[k] = old[k]
      /\ \A j \in 1 .. Len(items) : new[Len(old) + j] = items[j]
  BY <1>1
<1> QED
  BY <1>1, <1>2 DEF old, new

\* What a step of the server leaves as it was.
LEMMA ServerKeeps ==
    ASSUME IInv, UNCHANGED <<server, call, outcome, orphans>>, held \subseteq held'
    PROVE  /\ CallInv' /\ EntryInv'
           /\ UNCHANGED <<Given, Wanted, This, BatchRequest, SingleRequest, InSingle>>
           /\ \A k : Place(k)' = Place(k)
<1>1. CallInv'
  BY DEF IInv, CallInv, Given, Wanted
<1>2. \A d, o : Truthful(d, o) => Truthful(d, o)'
  BY DEF Truthful
<1>3. EntryInv'
  BY <1>2 DEF IInv, EntryInv, Finished, Wanted
<1>4. /\ UNCHANGED <<Given, Wanted, This, BatchRequest, SingleRequest, InSingle>>
      /\ \A k : Place(k)' = Place(k)
  BY DEF Given, Wanted, This, BatchRequest, SingleRequest, InSingle, Place
<1> QED
  BY <1>1, <1>3, <1>4

\* What it has said of the request it is at stays true.
LEMMA WireKeeps ==
    ASSUME IInv, UNCHANGED <<server, call, outcome, orphans>>, held \subseteq held',
           conn.toServer # <<>>, NEW k \in 1 .. Unread, conn'.toClient[k] = conn.toClient[k]
    PROVE  /\ call.pc \in {"auth", "answers"} => (IsAuth(k) \/ IsBatchAnswer(k) \/ IsExtra(k))'
           /\ call.pc \in {"singleAuth", "singleResponse"} => IsAuth(k)'
<1>1. /\ call.pc \in {"auth", "answers"} => IsAuth(k) \/ IsBatchAnswer(k) \/ IsExtra(k)
      /\ call.pc \in {"singleAuth", "singleResponse"} => IsAuth(k)
  BY DEF IInv, WireInv, IsUnknown, IsDone, IsEnd, IsSingleAnswer
<1>2. Place(k)' = Place(k) /\ Wanted' = Wanted
  BY ServerKeeps
<1>3. IsAuth(k) => IsAuth(k)'
  BY <1>2 DEF IsAuth
<1>4. IsBatchAnswer(k) => IsBatchAnswer(k)'
  BY <1>2 DEF IsBatchAnswer, IsAnswer
<1>5. IsExtra(k) => IsExtra(k)'
  BY <1>2 DEF IsExtra
<1> QED
  BY <1>1, <1>3, <1>4, <1>5

\* A reply to the request the server is at.
LEMMA ReplyType ==
    ASSUME IInv, Serving, NEW i \in 0 .. Width,
           NEW kind \in {"auth", "success", "failure", "garbled", "unknown", "done"}
    PROVE  /\ Reply(kind, i) \in Items /\ Reply(kind, i).kind = kind
           /\ Reply(kind, i).call = call.no /\ Reply(kind, i).i = i
BY RequestFacts DEF Reply, Item, Items

\* The server asks for authentication.
LEMMA ServerAuthStep ==
    ASSUME IInv, ServerAuth
    PROVE  IInv'
<1> DEFINE item == Reply("auth", 0)
<1>1. /\ Serving /\ ~conn.authed
      /\ conn' = [Says(<<item>>) EXCEPT !.authed = TRUE]
      /\ UNCHANGED <<server, call, outcome, acts, held, orphans>>
  BY DEF ServerAuth
<1>2. item \in Items /\ item.kind = "auth" /\ TypeOK /\ conn.up /\ conn.toServer # <<>>
  BY <1>1, ReplyType, RequestFacts, Sizes
<1> HIDE DEF item
<1>3. <<item>> \in Seq(Items) /\ Len(<<item>>) = 1 /\ <<item>>[1] = item
  BY <1>2
<1>4. /\ conn.toClient = <<>> /\ call.pc \in {"auth", "singleAuth"} /\ conn.next = 1
      /\ Unread = 0 /\ conn.some
  BY <1>1, <1>2 DEF IInv, ServerInv, RequestInv, Unread
<1>5. /\ conn'.toClient = conn.toClient \o <<item>> /\ conn'.toServer = conn.toServer
      /\ conn'.some = conn.some /\ conn'.up = conn.up /\ conn'.authed = TRUE
      /\ conn'.next = conn.next
  BY <1>1, <1>2 DEF Says, TypeOK, Conns
<1>6. conn'.toClient \in Seq(Items) /\ Unread' = 1 /\ conn'.toClient[1] = item
  <2>1. /\ conn'.toClient \in Seq(Items) /\ Unread' = Unread + Len(<<item>>)
        /\ \A j \in 1 .. Len(<<item>>) : conn'.toClient[Unread + j] = <<item>>[j]
    BY <1>2, <1>3, <1>5, SayFacts
  <2> QED
    BY <1>3, <1>4, <2>1
<1>7. conn' \in Conns
  <2>1. conn' = [conn EXCEPT !.toClient = conn'.toClient, !.authed = TRUE]
    BY <1>1, <1>2, <1>5 DEF Says, TypeOK, Conns
  <2> QED
    BY <1>2, <1>6, <2>1 DEF TypeOK, Conns
<1>8. /\ CallInv' /\ EntryInv'
      /\ UNCHANGED <<Given, Wanted, This, BatchRequest, SingleRequest, InSingle>>
  BY <1>1, ServerKeeps
<1>9. TypeOK'
  BY <1>1, <1>2, <1>7 DEF TypeOK
<1>10. RequestInv'
  BY <1>1, <1>4, <1>5, <1>8 DEF IInv, RequestInv
<1>11. ServerInv'
  BY <1>1, <1>2, <1>4, <1>5, <1>6, <1>8 DEF IInv, ServerInv, Place
<1>12. WireInv'
  BY <1>1, <1>2, <1>4, <1>6 DEF WireInv, IsAuth, Place
<1>13. ActsInv'
  BY <1>1, <1>5, <1>8 DEF IInv, ActsInv, Untouched
<1> QED
  BY <1>8, <1>9, <1>10, <1>11, <1>12, <1>13 DEF IInv

\* The last that the server says of a request.
LEMMA FinishFacts ==
    ASSUME IInv, Serving, NEW items \in Seq(Items), conn' = Finishes(items),
           UNCHANGED <<server, call, outcome, orphans>>, held \subseteq held',
           held' \subseteq CallIds \X Indices, acts' \in [CallIds -> [Indices -> Nat]]
    PROVE  /\ TypeOK' /\ CallInv' /\ RequestInv' /\ ServerInv' /\ EntryInv'
           /\ conn'.toServer = <<>> /\ conn'.toClient = conn.toClient \o items
<1>1. TypeOK /\ conn \in Conns /\ conn.up /\ conn.some /\ Tail(conn.toServer) = <<>>
      /\ conn.toServer # <<>>
  BY RequestFacts DEF TypeOK
<1>2. conn' = [conn EXCEPT !.toClient = conn.toClient \o items, !.toServer = <<>>,
                           !.authed = FALSE, !.next = 1]
  BY <1>1 DEF Finishes, Says, Conns
<1>3. conn.toClient \o items \in Seq(Items)
  BY <1>1 DEF Conns
<1>4. /\ conn'.toClient = conn.toClient \o items /\ conn'.toServer = <<>>
      /\ conn'.some = conn.some /\ conn'.up = conn.up /\ conn'.authed = FALSE
      /\ conn'.next = 1 /\ conn' \in Conns
  <2> DEFINE both == conn.toClient \o items
  <2>1. both \in Seq(Items)
    BY <1>3
  <2>2. conn' = [conn EXCEPT !.toClient = both, !.toServer = <<>>, !.authed = FALSE, !.next = 1]
    BY <1>2
  <2> HIDE DEF both
  <2>3. /\ conn'.toClient = both /\ conn'.toServer = <<>>
        /\ conn'.some = conn.some /\ conn'.up = conn.up /\ conn'.authed = FALSE
        /\ conn'.next = 1 /\ conn' \in Conns
    BY <1>1, <2>1, <2>2, Empties DEF Conns
  <2> QED
    BY <2>3 DEF both
<1>5. CallInv' /\ EntryInv'
  BY ServerKeeps
<1>6. TypeOK'
  BY <1>1, <1>4 DEF TypeOK
<1>7. call.pc \notin {"idle", "connect", "single"}
  BY <1>1, RequestFacts
<1>8. RequestInv' /\ ServerInv'
  BY <1>1, <1>4, <1>7 DEF IInv, RequestInv, ServerInv
<1> QED
  BY <1>4, <1>5, <1>6, <1>8

\* Where the next item goes.
LEMMA NextPlace ==
    ASSUME IInv, Serving, conn.authed
    PROVE  Unread \in Nat /\ Place(Unread + 1) = conn.next
<1>1. Place(Unread) = conn.next - 1 /\ TypeOK /\ conn.next \in Nat
  BY RequestFacts DEF IInv, ServerInv
<1>2. Unread \in Nat /\ Given \in Nat
  BY <1>1, Sizes
<1> QED
  BY <1>1, <1>2 DEF Place

\* The server does not know the command: nothing has been done.
LEMMA ServerRejectsStep ==
    ASSUME IInv, ServerRejects
    PROVE  IInv'
<1> DEFINE item == Reply("unknown", 0)
<1>1. /\ Serving /\ Request.many /\ server # "knows"
      /\ conn' = Finishes(<<item>>)
      /\ UNCHANGED <<server, call, outcome, acts, held, orphans>>
  BY DEF ServerRejects
<1>2. item \in Items /\ item.kind = "unknown" /\ TypeOK
  BY <1>1, ReplyType, RequestFacts, Sizes
<1> HIDE DEF item
<1>3. <<item>> \in Seq(Items) /\ Len(<<item>>) = 1 /\ <<item>>[1] = item
  BY <1>2
<1>4. /\ TypeOK' /\ CallInv' /\ RequestInv' /\ ServerInv' /\ EntryInv'
      /\ conn'.toServer = <<>> /\ conn'.toClient = conn.toClient \o <<item>>
  <2>1. held' \subseteq CallIds \X Indices /\ acts' \in [CallIds -> [Indices -> Nat]]
    BY <1>1, <1>2 DEF TypeOK
  <2> QED
    BY <1>1, <1>3, <2>1, FinishFacts
<1>5. /\ Unread' = Unread + 1 /\ Unread \in Nat /\ conn'.toClient[Unread + 1] = item
      /\ \A k \in 1 .. Unread : conn'.toClient[k] = conn.toClient[k]
  <2>1. /\ Unread' = Unread + Len(<<item>>) /\ Unread \in Nat
        /\ \A k \in 1 .. Unread : conn'.toClient[k] = conn.toClient[k]
        /\ \A j \in 1 .. Len(<<item>>) : conn'.toClient[Unread + j] = <<item>>[j]
    BY <1>2, <1>3, <1>4, SayFacts
  <2> QED
    BY <1>3, <2>1
<1>6. /\ call.pc \in {"auth", "answers"} /\ conn.toServer # <<>> /\ conn.up /\ conn.next = 1
      /\ \A k : Place(k)' = Place(k)
  BY <1>1, RequestFacts, ServerKeeps DEF IInv, ServerInv
<1>7. \A i \in Indices : Untouched(i)
  <2>1. \A i \in Indices : i >= 1
    BY DEF Indices
  <2> QED
    BY <1>6, <2>1 DEF IInv, ActsInv
<1>8. Place(Unread + 1) \in {0, 1}
  <2>1. CASE conn.authed
    BY <1>1, <1>6, <2>1, NextPlace
  <2>2. CASE ~conn.authed
    <3>1. conn.toClient = <<>> /\ call.pc = "auth"
      BY <1>6, <2>2 DEF IInv, ServerInv
    <3>2. Unread = 0
      BY <3>1 DEF Unread
    <3> QED
      BY <3>1, <3>2 DEF Place
  <2>3. conn.authed \in BOOLEAN
    BY <1>2 DEF TypeOK, Conns
  <2> QED
    BY <2>1, <2>2, <2>3
<1>9. WireInv'
  <2> SUFFICES ASSUME NEW k \in 1 .. Unread'
               PROVE  (\/ IsAuth(k) \/ IsBatchAnswer(k) \/ IsUnknown(k)
                       \/ IsExtra(k) \/ IsDone(k) \/ IsEnd(k))'
    BY <1>1, <1>6 DEF WireInv
  <2>1. CASE k \in 1 .. Unread
    BY <1>1, <1>5, <1>6, <2>1, WireKeeps
  <2>2. CASE k = Unread + 1
    BY <1>1, <1>2, <1>4, <1>5, <1>6, <1>7, <1>8, <2>2 DEF IsUnknown, Untouched
  <2> QED
    BY <1>5, <2>1, <2>2
<1>10. ActsInv'
  BY <1>1, <1>4, <1>6 DEF IInv, ActsInv, Untouched, InSingle
<1> QED
  BY <1>4, <1>9, <1>10 DEF IInv

\* The server acts on a target: it had not done so before.
LEMMA ActFacts ==
    ASSUME IInv, NEW i \in Indices, NEW well \in BOOLEAN, call.no \in CallIds,
           Untouched(i), ActsOn(call.no, i, well)
    PROVE  /\ UNCHANGED <<server, call, outcome, orphans>> /\ held \subseteq held'
           /\ held' \subseteq CallIds \X Indices /\ (well => <<call.no, i>> \in held')
           /\ acts' \in [CallIds -> [Indices -> Nat]]
           /\ \A d \in CallIds, j \in Indices :
                /\ acts'[d][j] <= 1
                /\ <<d, j>> \in orphans' => acts'[d][j] = 0 /\ d <= call'.no
                /\ d > call'.no => acts'[d][j] = 0
           /\ \A j \in Indices : j # i => (Untouched(j)' <=> Untouched(j))
<1>1. /\ acts' = [acts EXCEPT ![call.no][i] = @ + 1]
      /\ held' = IF well THEN held \cup {<<call.no, i>>} ELSE held
      /\ UNCHANGED <<server, call, outcome, orphans>>
  BY DEF ActsOn
<1>2. TypeOK /\ acts \in [CallIds -> [Indices -> Nat]] /\ call.no \in Nat
  BY Sizes DEF IInv, TypeOK
<1>3. /\ acts' \in [CallIds -> [Indices -> Nat]] /\ acts'[call.no][i] = acts[call.no][i] + 1
      /\ \A d \in CallIds, j \in Indices :
           <<d, j>> # <<call.no, i>> => acts'[d][j] = acts[d][j]
  BY <1>1, <1>2
<1>4. held \subseteq held' /\ held' \subseteq CallIds \X Indices
      /\ (well => <<call.no, i>> \in held')
  BY <1>1, <1>2 DEF TypeOK
<1>5. acts[call.no][i] = 0 /\ <<call.no, i>> \notin orphans
  BY DEF Untouched
<1>6. \A d \in CallIds, j \in Indices :
        /\ acts'[d][j] <= 1
        /\ <<d, j>> \in orphans' => acts'[d][j] = 0 /\ d <= call'.no
        /\ d > call'.no => acts'[d][j] = 0
  <2> SUFFICES ASSUME NEW d \in CallIds, NEW j \in Indices
               PROVE  /\ acts'[d][j] <= 1
                      /\ <<d, j>> \in orphans => acts'[d][j] = 0 /\ d <= call.no
                      /\ d > call.no => acts'[d][j] = 0
    BY <1>1
  <2>1. CASE <<d, j>> = <<call.no, i>>
    BY <1>2, <1>3, <1>5, <2>1
  <2>2. CASE <<d, j>> # <<call.no, i>>
    BY <1>3, <2>2 DEF IInv, ActsInv
  <2> QED
    BY <2>1, <2>2
<1>7. \A j \in Indices : j # i => (Untouched(j)' <=> Untouched(j))
  BY <1>1, <1>3 DEF Untouched
<1> QED
  BY <1>1, <1>3, <1>4, <1>6, <1>7

\* The server acts on the next target of a batch.
LEMMA ServerActsStep ==
    ASSUME IInv, ServerActs
    PROVE  IInv'
<1>1. /\ Serving /\ conn.authed /\ Request.many /\ server = "knows"
      /\ conn.next <= Len(Request.targets)
  BY DEF ServerActs
<1>2. PICK kind \in Verdicts :
        /\ ActsOn(Request.call, conn.next, kind # "failure")
        /\ conn' = [Says(<<Reply(kind, conn.next)>>) EXCEPT !.next = @ + 1]
  BY DEF ServerActs
<1>3. /\ TypeOK /\ conn.up /\ conn.some /\ conn.toServer # <<>> /\ call.no \in CallIds
      /\ Request.call = call.no /\ conn.next \in Nat /\ conn.next > 0
      /\ call.pc \in {"auth", "answers"} /\ conn.next <= Wanted
  BY <1>1, RequestFacts DEF Wanted
<1>4. conn.next \in Indices /\ conn.next \in 0 .. Width /\ conn.next + 1 \in 1 .. Width + 1
      /\ conn.next \in 1 .. Wanted
  BY <1>3, Sizes DEF Indices
<1>5. kind \in {"success", "failure", "garbled"}
  BY DEF Verdicts
<1> DEFINE item == Reply(kind, conn.next)
<1>6. item \in Items /\ item.kind = kind /\ item.call = call.no /\ item.i = conn.next
  BY <1>1, <1>4, <1>5, ReplyType
<1>7. conn' = [conn EXCEPT !.toClient = conn.toClient \o <<item>>, !.next = conn.next + 1]
  BY <1>2, <1>3 DEF Says, TypeOK, Conns
<1> HIDE DEF item
<1>8. <<item>> \in Seq(Items) /\ Len(<<item>>) = 1 /\ <<item>>[1] = item
  BY <1>6
<1>9. conn'.toClient = conn.toClient \o <<item>>
  BY <1>3, <1>7 DEF TypeOK, Conns
<1>10. /\ conn'.toClient \in Seq(Items)
       /\ Unread' = Unread + 1 /\ Unread \in Nat /\ conn'.toClient[Unread + 1] = item
       /\ \A k \in 1 .. Unread : conn'.toClient[k] = conn.toClient[k]
  <2>1. /\ conn'.toClient \in Seq(Items) /\ Unread' = Unread + Len(<<item>>) /\ Unread \in Nat
        /\ \A k \in 1 .. Unread : conn'.toClient[k] = conn.toClient[k]
        /\ \A j \in 1 .. Len(<<item>>) : conn'.toClient[Unread + j] = <<item>>[j]
    BY <1>3, <1>8, <1>9, SayFacts
  <2> QED
    BY <1>8, <2>1
<1>11. /\ conn' \in Conns /\ conn'.toServer = conn.toServer /\ conn'.some = conn.some
       /\ conn'.up = conn.up /\ conn'.authed = conn.authed /\ conn'.next = conn.next + 1
  <2>1. conn' = [conn EXCEPT !.toClient = conn'.toClient, !.next = conn.next + 1]
    BY <1>7, <1>9
  <2> QED
    BY <1>3, <1>4, <1>10, <2>1 DEF TypeOK, Conns
<1>12. Untouched(conn.next)
  BY <1>3, <1>4 DEF IInv, ActsInv
<1>13. /\ UNCHANGED <<server, call, outcome, orphans>> /\ held \subseteq held'
       /\ held' \subseteq CallIds \X Indices
       /\ (kind # "failure" => <<call.no, conn.next>> \in held')
       /\ acts' \in [CallIds -> [Indices -> Nat]]
       /\ \A d \in CallIds, j \in Indices :
            /\ acts'[d][j] <= 1
            /\ <<d, j>> \in orphans' => acts'[d][j] = 0 /\ d <= call'.no
            /\ d > call'.no => acts'[d][j] = 0
       /\ \A j \in Indices : j # conn.next => (Untouched(j)' <=> Untouched(j))
  <2>1. ActsOn(call.no, conn.next, kind # "failure") /\ (kind # "failure") \in BOOLEAN
    BY <1>2, <1>3
  <2> QED
    BY <1>3, <1>4, <1>12, <2>1, ActFacts
<1>14. /\ CallInv' /\ EntryInv'
       /\ UNCHANGED <<Given, Wanted, This, BatchRequest, SingleRequest, InSingle>>
       /\ \A k : Place(k)' = Place(k)
  BY <1>13, ServerKeeps
<1>15. TypeOK'
  BY <1>3, <1>11, <1>13 DEF TypeOK
<1>16. RequestInv'
  BY <1>3, <1>11, <1>13, <1>14 DEF IInv, RequestInv
<1>17. Place(Unread + 1) = conn.next
  BY <1>1, NextPlace
<1>18. ServerInv'
  <2>1. Place(Unread)' = conn'.next - 1
    <3>1. Place(Unread)' = Place(Unread + 1)
      BY <1>10, <1>13, <1>14 DEF Place
    <3> QED
      BY <1>3, <1>11, <1>17, <3>1
  <2> QED
    BY <1>1, <1>3, <1>11, <1>13, <1>14, <2>1, Sizes DEF ServerInv
<1>19. WireInv'
  <2> SUFFICES ASSUME NEW k \in 1 .. Unread'
               PROVE  (\/ IsAuth(k) \/ IsBatchAnswer(k) \/ IsUnknown(k)
                       \/ IsExtra(k) \/ IsDone(k) \/ IsEnd(k))'
    BY <1>3, <1>13 DEF WireInv
  <2>1. CASE k \in 1 .. Unread
    BY <1>3, <1>10, <1>13, <2>1, WireKeeps
  <2>2. CASE k = Unread + 1
    <3>1. IsAnswer(k)'
      BY <1>5, <1>6, <1>10, <1>13, <2>2 DEF IsAnswer
    <3>2. Place(k)' = conn.next /\ Wanted' = Wanted
      BY <1>14, <1>17, <2>2
    <3> QED
      BY <1>4, <1>6, <1>10, <2>2, <3>1, <3>2 DEF IsBatchAnswer
  <2> QED
    BY <1>10, <2>1, <2>2
<1>20. ActsInv'
  <2>1. \A j \in Indices : j >= conn'.next => Untouched(j)'
    <3>1. \A j \in Indices : j >= conn'.next => j # conn.next /\ j >= conn.next
      BY <1>3, <1>11 DEF Indices
    <3> QED
      BY <1>3, <1>13, <3>1 DEF IInv, ActsInv
  <2> QED
    BY <1>3, <1>13, <1>14, <2>1 DEF ActsInv, InSingle
<1> QED
  BY <1>14, <1>15, <1>16, <1>18, <1>19, <1>20 DEF IInv

\* A batch ends: in full, cut short, or with one answer too many.
LEMMA ServerEndsStep ==
    ASSUME IInv, ServerEnds
    PROVE  IInv'
<1>1. /\ Serving /\ conn.authed /\ Request.many
      /\ UNCHANGED <<server, call, outcome, acts, held, orphans>>
  BY DEF ServerEnds
<1>2. PICK kind \in {"success", "failure"}, extra \in {<<>>, <<Reply("success", 1)>>} :
        /\ extra # <<>> => conn.next > Len(Request.targets)
        /\ conn' = Finishes(extra \o <<Reply("done", 0), Reply(kind, 0)>>)
  BY DEF ServerEnds
<1>3. /\ TypeOK /\ call.pc \in {"auth", "answers"} /\ conn.toServer # <<>> /\ call.no \in CallIds
      /\ conn.next \in Nat /\ conn.next <= Wanted + 1 /\ Wanted \in Nat /\ Wanted > 0
      /\ (extra # <<>> => conn.next = Wanted + 1)
  <2>1. /\ TypeOK /\ call.pc \in {"auth", "answers"} /\ conn.toServer # <<>>
        /\ call.no \in CallIds /\ Request.targets = call.targets
        /\ conn.next \in Nat /\ conn.next <= Wanted + 1
    BY <1>1, RequestFacts
  <2>2. Wanted \in Nat /\ Wanted > 0
    <3>1. call.targets # <<>> /\ call.targets \in Seq(Targets)
      BY <2>1 DEF IInv, CallInv, TypeOK, Calls
    <3> QED
      BY <3>1, EmptySeq DEF Wanted
  <2>3. extra # <<>> => conn.next > Wanted
    BY <1>2, <2>1 DEF Wanted
  <2> QED
    BY <2>1, <2>2, <2>3
<1> DEFINE more == Reply("success", 1)
           done == Reply("done", 0)
           last == Reply(kind, 0)
           items == extra \o <<done, last>>
<1>4. /\ more \in Items /\ more.kind = "success" /\ done \in Items /\ done.kind = "done"
      /\ last \in Items
  <2>1. 1 \in 0 .. Width /\ 0 \in 0 .. Width
    BY <1>3, Sizes
  <2> QED
    BY <1>1, <2>1, ReplyType
<1> DEFINE n == Len(extra)
<1>5. /\ items \in Seq(Items) /\ n \in {0, 1} /\ Len(items) = n + 2
      /\ items[n + 1] = done /\ items[n + 2] = last
      /\ n = 1 => items[1] = more /\ extra # <<>>
  <2> DEFINE pair == <<done, last>>
  <2> HIDE DEF more, done, last
  <2>1. pair \in Seq(Items) /\ Len(pair) = 2 /\ pair[1] = done /\ pair[2] = last
    BY <1>4
  <2>2. <<more>> \in Seq(Items) /\ Len(<<more>>) = 1 /\ <<more>>[1] = more
    BY <1>4
  <2>3. /\ extra \in Seq(Items) /\ n \in {0, 1}
        /\ n = 1 => extra[1] = more /\ extra # <<>>
    <3>1. extra = <<>> \/ extra = <<more>>
      BY DEF more
    <3>2. CASE extra = <<>>
      <4>1. Len(<<>>) = 0
        OBVIOUS
      <4> QED
        BY <3>2, <4>1, Empties
    <3>3. CASE extra = <<more>>
      BY <2>2, <3>3
    <3> QED
      BY <3>1, <3>2, <3>3
  <2> HIDE DEF pair
  <2>4. /\ extra \o pair \in Seq(Items) /\ Len(extra \o pair) = n + 2
        /\ (extra \o pair)[n + 1] = pair[1] /\ (extra \o pair)[n + 2] = pair[2]
        /\ n = 1 => (extra \o pair)[1] = extra[1]
    <3> DEFINE both == extra \o pair
    <3>1. /\ both \in Seq(Items) /\ Len(both) = Len(extra) + Len(pair)
          /\ \A j \in 1 .. Len(extra) : both[j] = extra[j]
          /\ \A j \in 1 .. Len(pair) : both[Len(extra) + j] = pair[j]
      <4>1. extra \in Seq(Items) /\ pair \in Seq(Items)
        BY <2>1, <2>3
      <4> QED
        BY <4>1, ConcatProperties
    <3> HIDE DEF both
    <3>2. 1 \in 1 .. Len(pair) /\ 2 \in 1 .. Len(pair)
      BY <2>1
    <3>3. n = 1 => 1 \in 1 .. Len(extra)
      OBVIOUS
    <3> QED
      BY <2>1, <3>1, <3>2, <3>3 DEF both
  <2> QED
    BY <2>1, <2>3, <2>4 DEF pair
<1>6. conn' = Finishes(items)
  BY <1>2
<1> HIDE DEF items, more, done, last, n
<1>7. /\ TypeOK' /\ CallInv' /\ RequestInv' /\ ServerInv' /\ EntryInv'
      /\ conn'.toServer = <<>> /\ conn'.toClient = conn.toClient \o items
  <2>1. held' \subseteq CallIds \X Indices /\ acts' \in [CallIds -> [Indices -> Nat]]
    BY <1>1, <1>3 DEF TypeOK
  <2> QED
    BY <1>1, <1>5, <1>6, <2>1, FinishFacts
<1>8. /\ Unread' = Unread + n + 2 /\ Unread \in Nat
      /\ \A k \in 1 .. Unread : conn'.toClient[k] = conn.toClient[k]
      /\ n = 1 => conn'.toClient[Unread + 1] = more
      /\ conn'.toClient[Unread + n + 1] = done
      /\ conn'.toClient[Unread + n + 2] = last
  <2>1. /\ Unread' = Unread + Len(items) /\ Unread \in Nat
        /\ \A k \in 1 .. Unread : conn'.toClient[k] = conn.toClient[k]
        /\ \A j \in 1 .. Len(items) : conn'.toClient[Unread + j] = items[j]
    BY <1>3, <1>5, <1>7, SayFacts
  <2>2. n + 1 \in 1 .. Len(items) /\ n + 2 \in 1 .. Len(items)
        /\ (n = 1 => 1 \in 1 .. Len(items))
    BY <1>5
  <2>3. Unread + (n + 1) = Unread + n + 1 /\ Unread + (n + 2) = Unread + n + 2
    BY <1>5, <2>1
  <2> QED
    BY <1>5, <2>1, <2>2, <2>3
<1>9. /\ Place(Unread + 1) = conn.next /\ Wanted' = Wanted
      /\ \A k : Place(k)' = Place(k)
  BY <1>1, NextPlace, ServerKeeps
<1>10. WireInv'
  <2> SUFFICES ASSUME NEW k \in 1 .. Unread'
               PROVE  (\/ IsAuth(k) \/ IsBatchAnswer(k) \/ IsUnknown(k)
                       \/ IsExtra(k) \/ IsDone(k) \/ IsEnd(k))'
    BY <1>1, <1>3 DEF WireInv
  <2>1. CASE k \in 1 .. Unread
    BY <1>1, <1>3, <1>8, <2>1, WireKeeps
  <2>2. CASE n = 1 /\ k = Unread + 1
    <3>1. Place(k)' = Wanted' + 1 /\ conn'.toClient[k].kind = "success"
      BY <1>3, <1>4, <1>5, <1>8, <1>9, <2>2
    <3> QED
      BY <3>1 DEF IsExtra
  <2>3. CASE k = Unread + n + 1
    <3>1. conn'.toClient[k].kind = "done" /\ Unread' <= k + 1
      BY <1>4, <1>5, <1>8, <2>3
    <3> QED
      BY <1>7, <3>1 DEF IsDone
  <2>4. CASE k = Unread + n + 2
    <3>1. k - 1 = Unread + n + 1 /\ k > 1
      BY <1>5, <1>8, <2>4
    <3> QED
      BY <1>4, <1>7, <1>8, <2>4, <3>1 DEF IsEnd
  <2> QED
    BY <1>5, <1>8, <2>1, <2>2, <2>3, <2>4
<1>11. ActsInv'
  BY <1>1, <1>3, <1>7 DEF IInv, ActsInv, Untouched, InSingle
<1> QED
  BY <1>7, <1>10, <1>11 DEF IInv

\* The server acts on the target of a single command and is done with it.
LEMMA ServerActsOnOneStep ==
    ASSUME IInv, ServerActsOnOne
    PROVE  IInv'
<1>1. Serving /\ conn.authed /\ ~Request.many
  BY DEF ServerActsOnOne
<1>2. PICK kind \in Verdicts :
        /\ ActsOn(Request.call, Request.i, kind # "failure")
        /\ conn' = Finishes(<<Reply(kind, Request.i)>>)
  BY DEF ServerActsOnOne
<1>3. /\ TypeOK /\ conn.up /\ conn.toServer # <<>> /\ call.no \in CallIds
      /\ Request.call = call.no /\ Request.i = This /\ This \in Indices
      /\ call.pc \in {"singleAuth", "singleResponse"}
  BY <1>1, RequestFacts
<1>4. This \in 0 .. Width /\ kind \in {"success", "failure", "garbled"}
  BY <1>3, Sizes DEF Indices, Verdicts
<1> DEFINE item == Reply(kind, This)
<1>5. item \in Items /\ item.kind = kind /\ item.call = call.no /\ item.i = This
  BY <1>1, <1>4, ReplyType
<1>6. conn' = Finishes(<<item>>)
  BY <1>2, <1>3
<1> HIDE DEF item
<1>7. <<item>> \in Seq(Items) /\ Len(<<item>>) = 1 /\ <<item>>[1] = item
  BY <1>5
<1>8. Untouched(This)
  BY <1>3 DEF IInv, ActsInv, InSingle
<1>9. /\ UNCHANGED <<server, call, outcome, orphans>> /\ held \subseteq held'
      /\ held' \subseteq CallIds \X Indices
      /\ (kind # "failure" => <<call.no, This>> \in held')
      /\ acts' \in [CallIds -> [Indices -> Nat]]
      /\ \A d \in CallIds, j \in Indices :
           /\ acts'[d][j] <= 1
           /\ <<d, j>> \in orphans' => acts'[d][j] = 0 /\ d <= call'.no
           /\ d > call'.no => acts'[d][j] = 0
      /\ \A j \in Indices : j # This => (Untouched(j)' <=> Untouched(j))
  <2>1. ActsOn(call.no, This, kind # "failure") /\ (kind # "failure") \in BOOLEAN
    BY <1>2, <1>3
  <2> QED
    BY <1>3, <1>8, <2>1, ActFacts
<1>10. /\ TypeOK' /\ CallInv' /\ RequestInv' /\ ServerInv' /\ EntryInv'
       /\ conn'.toServer = <<>> /\ conn'.toClient = conn.toClient \o <<item>>
  BY <1>1, <1>6, <1>7, <1>9, FinishFacts
<1>11. /\ Unread' = Unread + 1 /\ Unread \in Nat /\ conn'.toClient[Unread + 1] = item
       /\ \A k \in 1 .. Unread : conn'.toClient[k] = conn.toClient[k]
  <2>1. /\ Unread' = Unread + Len(<<item>>) /\ Unread \in Nat
        /\ \A k \in 1 .. Unread : conn'.toClient[k] = conn.toClient[k]
        /\ \A j \in 1 .. Len(<<item>>) : conn'.toClient[Unread + j] = <<item>>[j]
    BY <1>3, <1>7, <1>10, SayFacts
  <2> QED
    BY <1>7, <2>1
<1>12. /\ Place(Unread + 1) = 1 /\ This' = This
       /\ \A k : Place(k)' = Place(k)
  BY <1>1, <1>3, <1>9, NextPlace, ServerKeeps DEF IInv, ServerInv
<1>13. WireInv'
  <2> SUFFICES ASSUME NEW k \in 1 .. Unread' PROVE IsAuth(k)' \/ IsSingleAnswer(k)'
    BY <1>3, <1>9 DEF WireInv
  <2>1. CASE k \in 1 .. Unread
    BY <1>3, <1>9, <1>11, <2>1, WireKeeps
  <2>2. CASE k = Unread + 1
    <3>1. IsAnswer(k)'
      BY <1>4, <1>5, <1>9, <1>11, <2>2 DEF IsAnswer
    <3> QED
      BY <1>5, <1>10, <1>11, <1>12, <2>2, <3>1 DEF IsSingleAnswer
  <2> QED
    BY <1>11, <2>1, <2>2
<1>14. ActsInv'
  <2>1. \A j \in Indices : j > This' => Untouched(j)'
    <3>1. \A j \in Indices : j > This => j # This /\ Untouched(j)
      BY <1>3 DEF IInv, ActsInv, InSingle, Indices
    <3> QED
      BY <1>9, <1>12, <3>1
  <2> QED
    BY <1>3, <1>9, <1>10, <2>1 DEF ActsInv
<1> QED
  BY <1>10, <1>13, <1>14 DEF IInv

-----------------------------------------------------------------------------
(* Losses.                                                                 *)

\* The transport dies: a prefix of what was said arrives, and what was asked
\* for may still be done.
LEMMA LoseStep ==
    ASSUME IInv, Lose
    PROVE  IInv'
<1>1. PICK n \in 0 .. Len(conn.toClient) :
        conn' = [conn EXCEPT !.up = FALSE, !.toServer = <<>>,
                             !.toClient = SubSeq(conn.toClient, 1, n)]
  BY DEF Lose
<1>2. /\ conn.up /\ orphans' = orphans \cup Pending(conn)
      /\ UNCHANGED <<server, call, outcome, acts, held>>
  BY DEF Lose
<1>3. TypeOK /\ Unread \in Nat /\ n \in 0 .. Unread
  BY Sizes DEF IInv, Unread
<1> DEFINE part == SubSeq(conn.toClient, 1, n)
<1>4. /\ part \in Seq(Items) /\ Len(part) = n
      /\ \A k \in 1 .. n : part[k] = conn.toClient[k]
  BY <1>3 DEF TypeOK, Conns, Unread
<1>5. conn' = [conn EXCEPT !.up = FALSE, !.toServer = <<>>, !.toClient = part]
  BY <1>1
<1> HIDE DEF part
<1>6. /\ conn' \in Conns /\ conn'.toServer = <<>> /\ conn'.toClient = part /\ ~conn'.up
      /\ conn'.some = conn.some /\ conn'.authed = conn.authed /\ conn'.next = conn.next
  BY <1>3, <1>4, <1>5, Empties DEF TypeOK, Conns
<1>7. /\ UNCHANGED <<Given, Wanted, This, InSingle>> /\ \A k : Place(k)' = Place(k)
      /\ Unread' = n /\ \A k \in 1 .. n : conn'.toClient[k] = conn.toClient[k]
  BY <1>2, <1>4, <1>6 DEF Given, Wanted, This, InSingle, Place, Unread
<1>8. TypeOK'
  <2>1. Pending(conn) \subseteq CallIds \X Indices
    BY PendingFacts
  <2> QED
    BY <1>2, <1>3, <1>6, <2>1 DEF TypeOK
<1>9. CallInv'
  BY <1>2, <1>7 DEF IInv, CallInv
<1>10. RequestInv'
  <2>1. conn.toClient = <<>> => part = <<>>
    <3>1. conn.toClient = <<>> => n = 0
      BY <1>3 DEF Unread
    <3> QED
      BY <1>4, <3>1, EmptySeq
  <2> QED
    BY <1>2, <1>6, <2>1 DEF IInv, RequestInv
<1>11. ServerInv'
  BY <1>6 DEF ServerInv
<1>12. conn.toServer = <<>> => orphans' = orphans
  BY <1>2, PendingOf
<1>13. WireInv'
  <2>1. ASSUME call.pc \in {"auth", "answers"}, NEW k \in 1 .. n
        PROVE  (\/ IsAuth(k) \/ IsBatchAnswer(k) \/ IsUnknown(k)
                \/ IsExtra(k) \/ IsDone(k) \/ IsEnd(k))'
    <3>1. k \in 1 .. Unread /\ k \in Nat /\ k > 0 /\ conn'.toClient[k] = conn.toClient[k]
          /\ (k = Unread => k = n) /\ n \in Nat
      BY <1>3, <1>7, <2>1
    <3>2. \/ IsAuth(k) \/ IsBatchAnswer(k) \/ IsUnknown(k)
          \/ IsExtra(k) \/ IsDone(k) \/ IsEnd(k)
      BY <2>1, <3>1 DEF IInv, WireInv
    <3>3. CASE IsAuth(k) \/ IsExtra(k)
      BY <1>7, <3>1, <3>3 DEF IsAuth, IsExtra
    <3>4. CASE IsBatchAnswer(k)
      BY <1>2, <1>7, <3>1, <3>4 DEF IsBatchAnswer, IsAnswer
    <3>5. CASE IsUnknown(k)
      BY <1>2, <1>6, <1>7, <1>12, <3>1, <3>5 DEF IsUnknown, Untouched
    <3>6. CASE IsDone(k)
      BY <1>3, <1>6, <1>7, <3>1, <3>6 DEF IsDone
    <3>7. CASE IsEnd(k)
      <4>1. k > 1 /\ k - 1 \in 1 .. n
        BY <3>1, <3>7 DEF IsEnd
      <4> QED
        BY <1>6, <1>7, <3>1, <3>7, <4>1 DEF IsEnd
    <3> QED
      BY <3>2, <3>3, <3>4, <3>5, <3>6, <3>7
  <2>2. call.pc = "response" => n <= 1
    BY <1>3 DEF IInv, WireInv
  <2>3. ASSUME call.pc \in {"singleAuth", "singleResponse"}, NEW k \in 1 .. n
        PROVE  IsAuth(k)' \/ IsSingleAnswer(k)'
    <3>1. k \in 1 .. Unread /\ conn'.toClient[k] = conn.toClient[k] /\ (k = Unread => k = n)
      BY <1>3, <1>7, <2>3
    <3>2. IsAuth(k) \/ IsSingleAnswer(k)
      BY <2>3, <3>1 DEF IInv, WireInv
    <3> QED
      BY <1>2, <1>6, <1>7, <3>1, <3>2 DEF IsAuth, IsSingleAnswer, IsAnswer
  <2> QED
    BY <1>2, <1>7, <2>1, <2>2, <2>3 DEF WireInv
<1>14. ActsInv'
  <2>1. \A p \in Pending(conn) : p[1] = call.no /\ p = <<call.no, p[2]>>
    BY PendingFacts
  <2>2. \A i \in Indices : <<call.no, i>> \in Pending(conn) =>
          acts[call.no][i] = 0 /\ conn.toServer # <<>> /\ (InSingle => i = This)
    BY PendingFacts DEF Untouched
  <2>3. \A d \in CallIds, i \in Indices : <<d, i>> \in orphans' =>
          acts[d][i] = 0 /\ d <= call.no
    <3> SUFFICES ASSUME NEW d \in CallIds, NEW i \in Indices, <<d, i>> \in Pending(conn)
                 PROVE  acts[d][i] = 0 /\ d <= call.no
      BY <1>2 DEF IInv, ActsInv
    <3>1. d = call.no
      BY <2>1
    <3> QED
      BY <2>2, <3>1, <1>3, Sizes
  <2>4. \A i \in Indices : Untouched(i) /\ <<call.no, i>> \notin Pending(conn) => Untouched(i)'
    BY <1>2 DEF Untouched
  <2>5. \A i \in Indices : i > This => i # This
    BY <1>3, Sizes DEF Indices
  <2>6. call.pc \in {"connect", "single"} => conn.toServer = <<>>
    BY DEF IInv, RequestInv
  <2>7. \A d \in CallIds, i \in Indices :
          /\ acts'[d][i] <= 1
          /\ <<d, i>> \in orphans' => acts'[d][i] = 0 /\ d <= call'.no
          /\ d > call'.no => acts'[d][i] = 0
    BY <1>2, <2>3 DEF IInv, ActsInv
  <2>8. call.pc = "connect" => \A i \in Indices : Untouched(i)'
    BY <2>2, <2>4, <2>6 DEF IInv, ActsInv
  <2>9. InSingle => \A i \in Indices : i > This => Untouched(i)'
    BY <2>2, <2>4, <2>5 DEF IInv, ActsInv
  <2>10. call.pc = "single" /\ This \in Indices => Untouched(This)'
    <3>1. call.pc = "single" /\ This \in Indices => Untouched(This)
      BY DEF IInv, ActsInv
    <3>2. UNCHANGED <<call, This, acts>>
      BY <1>2, <1>7
    <3> QED
      BY <1>12, <2>6, <3>1, <3>2 DEF Untouched
  <2> QED
    BY <1>2, <1>6, <1>7, <2>7, <2>8, <2>9, <2>10 DEF ActsInv
<1>15. EntryInv'
  BY <1>2, <1>7 DEF IInv, EntryInv, Truthful, Finished
<1> QED
  BY <1>8, <1>9, <1>10, <1>11, <1>13, <1>14, <1>15 DEF IInv

\* A target of a request that was left behind is acted on.
LEMMA LateActStep ==
    ASSUME IInv, LateAct
    PROVE  IInv'
<1>1. PICK p \in orphans, well \in BOOLEAN :
        /\ orphans' = orphans \ {p}
        /\ acts' = [acts EXCEPT ![p[1]][p[2]] = @ + 1]
        /\ held' = IF well THEN held \cup {p} ELSE held
        /\ UNCHANGED <<server, conn, call, outcome>>
  BY DEF LateAct
<1>2. TypeOK /\ acts \in [CallIds -> [Indices -> Nat]] /\ call.no \in Nat
  BY Sizes DEF IInv, TypeOK
<1>3. p \in CallIds \X Indices
  BY <1>2 DEF TypeOK
<1> DEFINE c == p[1]
           i == p[2]
<1>4. c \in CallIds /\ i \in Indices /\ p = <<c, i>>
  BY <1>3
<1>5. /\ acts' = [acts EXCEPT ![c][i] = @ + 1] /\ orphans' = orphans \ {<<c, i>>}
      /\ <<c, i>> \in orphans
  BY <1>1, <1>4
<1> HIDE DEF c, i
<1>6. acts[c][i] = 0 /\ c <= call.no
  BY <1>4, <1>5 DEF IInv, ActsInv
<1>7. /\ acts' \in [CallIds -> [Indices -> Nat]] /\ acts'[c][i] = acts[c][i] + 1
      /\ \A d \in CallIds, j \in Indices : <<d, j>> # <<c, i>> => acts'[d][j] = acts[d][j]
  BY <1>2, <1>4, <1>5
<1>8. held \subseteq held' /\ held' \subseteq CallIds \X Indices
  BY <1>1, <1>2, <1>3 DEF TypeOK
<1>9. \A j \in Indices : Untouched(j) => Untouched(j)'
  <2> SUFFICES ASSUME NEW j \in Indices, Untouched(j)
               PROVE  acts'[call.no][j] = 0 /\ <<call.no, j>> \notin orphans'
    BY <1>1 DEF Untouched
  <2>1. <<call.no, j>> # <<c, i>>
    BY <1>5 DEF Untouched
  <2>2. CASE call.no \in CallIds
    BY <1>5, <1>7, <2>1, <2>2 DEF Untouched
  <2>3. CASE call.no \notin CallIds
    BY <1>2, <1>4, <1>6, <2>3, Sizes DEF CallIds, TypeOK, Calls
  <2> QED
    BY <2>2, <2>3
<1>10. TypeOK'
  BY <1>1, <1>2, <1>5, <1>7, <1>8 DEF TypeOK
<1>11. /\ UNCHANGED <<Given, Wanted, This, InSingle, BatchRequest, SingleRequest, Unread>>
       /\ \A k : Place(k)' = Place(k)
  BY <1>1 DEF Given, Wanted, This, InSingle, BatchRequest, SingleRequest, Unread, Place
<1>12. CallInv' /\ RequestInv' /\ ServerInv'
  <2>1. CallInv'
    BY <1>1, <1>11 DEF IInv, CallInv
  <2>2. RequestInv'
    BY <1>1, <1>11 DEF IInv, RequestInv
  <2>3. ServerInv'
    BY <1>1, <1>11 DEF IInv, ServerInv, Place
  <2> QED
    BY <2>1, <2>2, <2>3
<1>13. WireInv'
  <2>1. \A k : IsAuth(k) => IsAuth(k)'
    BY <1>1, <1>11 DEF IsAuth
  <2>2. \A k : IsAnswer(k) => IsAnswer(k)'
    BY <1>1, <1>8 DEF IsAnswer
  <2>3. \A k : IsBatchAnswer(k) => IsBatchAnswer(k)'
    BY <1>1, <1>11, <2>2 DEF IsBatchAnswer
  <2>4. \A k : IsSingleAnswer(k) => IsSingleAnswer(k)'
    BY <1>1, <1>11, <2>2 DEF IsSingleAnswer
  <2>5. \A k : IsUnknown(k) => IsUnknown(k)'
    BY <1>1, <1>9, <1>11 DEF IsUnknown
  <2>6. \A k : /\ IsExtra(k) => IsExtra(k)'
               /\ IsDone(k) => IsDone(k)'
               /\ IsEnd(k) => IsEnd(k)'
    BY <1>1, <1>11 DEF IsExtra, IsDone, IsEnd
  <2> QED
    BY <1>1, <1>11, <2>1, <2>3, <2>4, <2>5, <2>6 DEF IInv, WireInv
<1>14. ActsInv'
  <2>1. \A d \in CallIds, j \in Indices :
          /\ acts'[d][j] <= 1
          /\ <<d, j>> \in orphans' => acts'[d][j] = 0 /\ d <= call'.no
          /\ d > call'.no => acts'[d][j] = 0
    <3> SUFFICES ASSUME NEW d \in CallIds, NEW j \in Indices
                 PROVE  /\ acts'[d][j] <= 1
                        /\ <<d, j>> \in orphans' => acts'[d][j] = 0 /\ d <= call.no
                        /\ d > call.no => acts'[d][j] = 0
      BY <1>1
    <3>1. CASE <<d, j>> = <<c, i>>
      <4>1. d = c /\ j = i /\ d \in Nat
        BY <1>4, <3>1 DEF CallIds
      <4> QED
        BY <1>2, <1>5, <1>6, <1>7, <4>1
    <3>2. CASE <<d, j>> # <<c, i>>
      BY <1>5, <1>7, <3>2 DEF IInv, ActsInv
    <3> QED
      BY <3>1, <3>2
  <2> QED
    BY <1>1, <1>9, <1>11, <2>1 DEF IInv, ActsInv
<1>15. EntryInv'
  <2>1. \A d, o : Truthful(d, o) => Truthful(d, o)'
    BY <1>8 DEF Truthful
  <2> QED
    BY <1>1, <1>11, <2>1 DEF IInv, EntryInv, Finished
<1> QED
  BY <1>10, <1>12, <1>13, <1>14, <1>15 DEF IInv

-----------------------------------------------------------------------------
(* The theorems.                                                           *)

\* Nothing happens.
LEMMA Stutter ==
    ASSUME IInv, UNCHANGED vars
    PROVE  IInv'
<1>1. /\ server' = server /\ conn' = conn /\ call' = call /\ outcome' = outcome
      /\ acts' = acts /\ held' = held /\ orphans' = orphans
  BY DEF vars
<1>2. TypeOK' /\ CallInv' /\ RequestInv' /\ ServerInv'
  BY <1>1 DEF IInv, TypeOK, CallInv, RequestInv, ServerInv, BatchRequest, SingleRequest,
              This, Given, Wanted, Unread, Place
<1>3. WireInv'
  <2>1. /\ UNCHANGED <<This, Given, Wanted, Unread>> /\ \A k : Place(k)' = Place(k)
        /\ \A i : Untouched(i)' = Untouched(i)
    BY <1>1 DEF This, Given, Wanted, Unread, Place, Untouched
  <2>2. \A k : /\ IsAuth(k) => IsAuth(k)'
               /\ IsBatchAnswer(k) => IsBatchAnswer(k)'
               /\ IsSingleAnswer(k) => IsSingleAnswer(k)'
    BY <1>1, <2>1 DEF IsAuth, IsBatchAnswer, IsSingleAnswer, IsAnswer
  <2>3. \A k : /\ IsUnknown(k) => IsUnknown(k)'
               /\ IsExtra(k) => IsExtra(k)'
               /\ IsDone(k) => IsDone(k)'
               /\ IsEnd(k) => IsEnd(k)'
    BY <1>1, <2>1 DEF IsUnknown, IsExtra, IsDone, IsEnd
  <2> QED
    BY <1>1, <2>1, <2>2, <2>3 DEF IInv, WireInv
<1>4. ActsInv' /\ EntryInv'
  BY <1>1 DEF IInv, ActsInv, EntryInv, Untouched, Truthful, Finished, InSingle, This, Wanted
<1> QED
  BY <1>2, <1>3, <1>4 DEF IInv

\* Every step leaves the invariant.
LEMMA Step ==
    ASSUME IInv, [Next]_vars
    PROVE  IInv'
<1>1. ASSUME NEW kind \in {"lock", "unlock"}, NEW targets \in Batches,
             StartCall(kind, targets)
      PROVE  IInv'
  BY <1>1, StartStep
<1>2. CASE Progress
  BY <1>2, ConnectStep, WaitFails, RefusePathStep, SendBatchStep, SendSingleStep,
     FallbackDoneStep, ReadStep, Zenon DEF Progress
<1>3. CASE ServerStep
  BY <1>3, ServerAuthStep, ServerRejectsStep, ServerActsStep, ServerEndsStep,
     ServerActsOnOneStep, Zenon DEF ServerStep
<1>4. CASE Lose \/ LateAct
  BY <1>4, LoseStep, LateActStep
<1>5. CASE UNCHANGED vars
  BY <1>5, Stutter
<1> QED
  BY <1>1, <1>2, <1>3, <1>4, <1>5, Zenon DEF Next

\* The invariant holds in every state: what is unread, what has been pushed and
\* what the server has done fit together, target by target (lock_many,
\* unlock_many and the loops of single commands they fall back to).
THEOREM Invariance == Spec => []IInv
BY InitStep, Step, PTL DEF Spec

\* The server acts at most once on each target of a call: the fallback starts
\* only when the batch has not, and nothing is written twice.
THEOREM ActsOnce == Spec => []OncePerTarget
<1>1. IInv => OncePerTarget
  BY DEF IInv, ActsInv, OncePerTarget
<1> QED
  BY <1>1, Invariance, PTL

\* The vector a call returns has one entry for each target, in their order, and
\* an Ok entry is of a target the server has locked or unlocked.
THEOREM EntriesAreTrue == Spec => []EntriesHold
<1>1. IInv => EntriesHold
  <2> SUFFICES ASSUME IInv PROVE EntriesHold
    OBVIOUS
  <2>1. \A c \in CallIds : Finished(c) => Truthful(c, outcome[c].out)
    BY DEF IInv, EntryInv
  <2>2. \A c \in CallIds : outcome[c].out \in Seq(InnerResults)
    BY DEF IInv, TypeOK, Results
  <2>3. \A c \in CallIds : Entries(c) = 1 .. Len(outcome[c].out)
    BY <2>2 DEF Entries
  <2>4. EntryPerTarget
    BY <2>1, <2>3 DEF IInv, EntryInv, EntryPerTarget, Truthful, Wanted
  <2>5. OkIsDone
    BY <2>1, <2>3 DEF OkIsDone, Truthful
  <2> QED
    BY <2>4, <2>5 DEF IInv, EntriesHold
<1> QED
  BY <1>1, Invariance, PTL

\* A call that has returned leaves nothing on a connection that still works:
\* neither a request nor an answer the next call could take for its own.
THEOREM LeavesQuiet == Spec => []QuietAfterCall
<1>1. IInv => QuietAfterCall
  BY DEF IInv, RequestInv, QuietAfterCall
<1> QED
  BY <1>1, Invariance, PTL
=============================================================================
