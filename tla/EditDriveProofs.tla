--------------------------- MODULE EditDriveProofs ---------------------------
(***************************************************************************)
(* Proofs about EditDrive, for any methods, numbers of events, revisions   *)
(* and writes of a failure, any size of the two pipes, any number of calls *)
(* and whatever goes wrong.                                                *)
(*                                                                         *)
(* The conversation of one call is a walk over spots.  The client stands   *)
(* at one spot, the server at one that is as many steps ahead as there are *)
(* items on their way to the client: each of them leads from one spot to   *)
(* the next.                                                               *)
(***************************************************************************)
EXTENDS EditDrive, SequenceTheorems, TLAPS

-----------------------------------------------------------------------------
(* The conversation.                                                       *)

\* Where a conversation can be: at the command or the report; before, in the
\* middle of or at the end of the drive of a revision; aborted; about to end
\* badly or well; ended well, ended otherwise, ended and then blamed.
SpotNames == {"calling", "reporting", "before", "amid", "shut", "broken", "failing",
              "finished", "over", "done", "denied"}
Spots == [at : SpotNames, rev : 1 .. NRevs, n : 0 .. NEvents]

Spot(at, rev, n) == [at |-> at, rev |-> rev, n |-> n]
Plain(at) == Spot(at, 1, 0)
Before(r) == Spot("before", r, 0)
Amid(r, n) == Spot("amid", r, n)
Shut(r) == Spot("shut", r, 0)

Entry(k) == IF k.reports THEN Plain("reporting")
            ELSE IF k = ReplayRange THEN Before(1) ELSE Amid(1, 0)
After(k, r) == IF r < k.revs THEN Before(r + 1) ELSE Plain("finished")

\* The server says item x at spot p and is then at q; told: it has read a
\* failure.
Emits(k, told, p, x, q) ==
    \/ p.at = "calling" /\ x = Item("auth") /\ q = Entry(k)
    \/ p.at = "reporting" /\ x = Item("auth") /\ q = Amid(1, 0)
    \/ p.at = "before" /\ x = Item("revprops") /\ q = Amid(p.rev, 0)
    \/ /\ p.at \in {"calling", "reporting", "before", "failing"}
       /\ x = Item("fail") /\ q = Plain("done")
    \/ p.at = "amid" /\ p.n < NEvents /\ x = Event(p.rev, p.n + 1) /\ q = Amid(p.rev, p.n + 1)
    \/ p.at = "amid" /\ p.n = 0 /\ k # ReplayRange /\ x = Item("fail") /\ q = Plain("done")
    \/ p.at = "amid" /\ p.n = NEvents /\ x = Item("close-edit") /\ q = Shut(p.rev)
    \/ p.at = "amid" /\ p.n = NEvents /\ x = Item("finish-replay") /\ q = After(k, p.rev)
    \/ p.at = "amid" /\ x = Item("abort-edit") /\ q = Plain("broken")
    \/ p.at = "finished" /\ x = Item("success") /\ q = Plain("over")
    \/ told /\ p.at = "shut" /\ x = Item("success") /\ q = Plain("done")
    \/ told /\ p.at = "shut" /\ x = Item("abort-edit") /\ q = Plain("broken")
    \/ told /\ p.at = "broken" /\ x = Item("fail") /\ q = Plain("done")
    \/ told /\ p.at = "over" /\ x = Item("fail") /\ q = Plain("denied")

\* In a drive of which something has been sent, and that was not given up.
Firm(p) == p.at \in {"shut", "broken", "finished", "over"} \/ (p.at = "amid" /\ p.n > 0)

\* The items s lead along pos.
Path(k, told, s, pos) ==
    /\ pos \in [0 .. Len(s) -> Spots]
    /\ \A i \in 1 .. Len(s) : Emits(k, told, pos[i - 1], s[i], pos[i])
    /\ \A i, j \in 0 .. Len(s) : i <= j /\ k.revs = 1 /\ ~told /\ Firm(pos[i]) => Firm(pos[j])

-----------------------------------------------------------------------------
(* The two sides.                                                          *)

Refusing == {"early", "drain", "aborted"}

\* A server that has not been told of a failure is at p.
Waits(k, p, s, o) ==
    /\ s.nak = 0
    /\ \/ s.at = "idle" /\ p.at \in {"calling", "over", "done"}
       \/ s.at = "report" /\ p.at = "reporting" /\ s.rev = 1 /\ s.sent = 0
       \/ s.at = "revprops" /\ p = Before(s.rev)
       \/ s.at = "edit" /\ p = Amid(s.rev, s.sent)
       \/ s.at = "ack" /\ ~s.failed /\ p = Shut(s.rev) /\ o = <<>>
       \/ s.at = "ack" /\ s.failed /\ p.at = "broken" /\ o = <<>>
       \/ s.at = "ack" /\ ~s.failed /\ o = <<"success">> /\ p = After(k, s.rev)
       \/ s.at = "ack" /\ s.failed /\ o = <<"success">> /\ p.at = "failing"
       \/ s.at = "respond" /\ ~s.failed /\ p.at = "finished"
       \/ s.at = "respond" /\ s.failed /\ p.at = "failing"

\* A server that is being told, or has been, is at p: left parts of the failure
\* are still to be written.
Hears(p, s, o, left) ==
    /\ \A i \in DOMAIN o : o[i] = "part"
    /\ \/ /\ s.at = "edit" /\ p = Amid(s.rev, s.sent) /\ s.sent > 0
          /\ s.nak = 0 /\ Len(o) + left = FailureParts
       \/ s.at = "ack" /\ ~s.failed /\ p = Shut(s.rev) /\ s.nak + Len(o) + left = FailureParts
       \/ s.at = "ack" /\ s.failed /\ p.at = "broken" /\ s.nak + Len(o) + left = FailureParts
       \/ /\ s.at = "respond" /\ ~s.failed /\ p.at = "finished"
          /\ s.nak = 0 /\ Len(o) + left = FailureParts
       \/ s.at = "respond" /\ ~s.failed /\ p.at = "shut" /\ o = <<>> /\ left = 0
       \/ s.at = "respond" /\ s.failed /\ p.at = "broken" /\ o = <<>> /\ left = 0
       \/ s.at = "abort" /\ s.failed /\ p.at = "shut" /\ o = <<>> /\ left = 0
       \/ s.at = "idle" /\ p.at = "over" /\ s.nak + Len(o) + left = FailureParts
       \/ s.at = "idle" /\ p.at \in {"done", "denied"} /\ o = <<>> /\ left = 0 /\ s.nak = 0

Meets(c, p, s, o) ==
    IF c.pc \in Refusing THEN Hears(p, s, o, c.left) ELSE Waits(c.kind, p, s, o)

\* The client is at p and its handler has seen n events; gone: the connection
\* is lost and everything that came through has been read.
Stands(c, n, p, gone) ==
    \/ c.pc \in {"start", "auth"} /\ p.at = "calling" /\ c.rev = 1 /\ n = 0
    \/ c.pc \in {"report", "auth2"} /\ p.at = "reporting" /\ c.rev = 1 /\ n = 0
    \/ c.pc = "revprops" /\ c.rev <= c.kind.revs /\ p = Before(c.rev) /\ n = (c.rev - 1) * NEvents
    \/ c.pc \in {"revprops", "response"} /\ p.at = "failing"
    \/ c.pc = "drive" /\ c.rev <= c.kind.revs /\ p = Amid(c.rev, p.n) /\ n = (c.rev - 1) * NEvents + p.n
    \/ c.pc = "ack" /\ c.rev <= c.kind.revs /\ p = Shut(c.rev) /\ n = c.rev * NEvents
    \/ c.pc = "ack" /\ c.rev <= c.kind.revs /\ p.at = "broken"
    \/ c.pc = "response" /\ p.at = "finished" /\ n = c.kind.revs * NEvents
    \/ c.pc = "early" /\ c.drain /\ c.done /\ p.at = "broken"
    \/ c.pc = "early" /\ c.drain /\ ~c.done /\ Firm(p) /\ p.at # "broken"
    \/ c.pc = "early" /\ ~c.drain /\ p.at \in {"shut", "broken"}
    \/ c.pc = "drain" /\ c.left = 0 /\ (p.at = "denied" \/ (Firm(p) /\ p.at # "broken"))
    \/ c.pc = "aborted" /\ c.left = 0 /\ (gone \/ p.at \in {"shut", "broken", "done", "over"})

\* The client has written the whole failure.
Told(c) == c.pc \in Refusing /\ c.left = 0

\* A drive that needs an answer ends with finish-replay only at a server that
\* leaves the protocol.
Astray(c, p, s) ==
    c.kind.reports /\ c.pc # "response" /\ p.at \in {"finished", "over", "denied"} => s.rogue

\* Client and server stand at the two ends of a path.
Joined(c, s, o, i, u, n) ==
    \E pos \in [0 .. Len(i) -> Spots] :
       /\ Path(c.kind, Told(c), i, pos)
       /\ Stands(c, n, pos[0], ~u /\ i = <<>>)
       /\ u => Meets(c, pos[Len(i)], s, o)
       /\ u => \A j \in 0 .. Len(i) : Astray(c, pos[j], s)

-----------------------------------------------------------------------------
(* The inductive invariant.                                                *)

\* A call is in progress, and the code knows where in the conversation it is
\* or is going to drop the connection.
Guided == call.pc # "idle" /\ call.err # "finish" /\ ~(Ranges /\ call.pc \in Refusing)

PathInv == Joined(call, srv, out, in, up, Len(delivered))

\* What is on its way to the server, and whose turn it is.
TurnInv ==
    /\ \/ out = <<>>
       \/ call.pc = "auth" /\ out = <<"command">> /\ in = <<>> /\ srv.at = "idle"
       \/ call.pc = "auth2" /\ out = <<"report">> /\ in = <<>> /\ srv.at = "report"
       \/ call.pc \in {"revprops", "response"} /\ out = <<"success">> /\ in = <<>> /\ srv.at = "ack"
       \/ call.pc \in Refusing
    /\ call.pc = "auth" /\ call.kind.reports => Len(in) <= 1
    /\ call.pc = "report" => in = <<>>

\* A lost connection, an abandoned one, and what the parts of the state say of
\* each other wherever the conversation is.
LinkInv ==
    /\ ~up => out = <<>> /\ srv = Quiet
    /\ ~kept => call.pc = "idle" /\ ~up
    /\ srv.at # "idle" => srv.kind = call.kind /\ srv.rev \in 1 .. srv.kind.revs
    /\ srv.at \in {"report", "revprops", "edit"} => ~srv.failed

CallInv ==
    /\ call.report = "badpath" => call.pc \in {"idle", "start", "auth", "report"}
    /\ call.report # "good" => call.kind.reports
    /\ call.pc \in Refusing => call.err \in {"protocol", "other", "finish"}
    /\ call.err = "finish" => ~call.kind.reports
    /\ call.pc \notin Refusing \cup {"idle"} => call.err = "none"
    /\ call.pc # "idle" => call.result = "none"
    /\ call.pc \in {"report", "auth2"} => call.kind.reports
    /\ call.pc = "revprops" => Ranges

\* Nothing has been written yet, or the method has returned.
RestInv ==
    call.pc = "start" \/ (call.pc = "idle" /\ ~Spoilt) =>
       out = <<>> /\ in = <<>> /\ srv.at = "idle" /\ srv.nak = 0

IInv ==
    /\ TypeOK /\ LinkInv /\ CallInv /\ RestInv
    /\ Guided => PathInv /\ TurnInv
    /\ InOrder /\ OkIsComplete

-----------------------------------------------------------------------------
(* Walks.                                                                  *)

\* A method either drives one revision or is a replay-range.
LEMMA MethodFacts ==
    ASSUME NEW k \in Methods
    PROVE  /\ k.reports \in BOOLEAN /\ k.revs \in 1 .. NRevs
           /\ k # ReplayRange => k.revs = 1
           /\ k.reports => k # ReplayRange
<1>1. NRevs \in Nat /\ NRevs >= 1 /\ 1 \in 1 .. NRevs /\ NRevs \in 1 .. NRevs
  BY SizeAssumption
<1>2. ReplayRange.reports = FALSE /\ ReplayRange.revs = NRevs
  BY DEF ReplayRange, Drive
<1>3. CASE k \in {Update, Switch, Diff, Status}
  <2>1. k.reports = TRUE /\ k.revs = 1
    BY <1>3 DEF Update, Switch, Diff, Status, Drive
  <2> QED
    BY <2>1, <1>1, <1>2
<1>4. CASE k = Replay
  <2>1. k.reports = FALSE /\ k.revs = 1
    BY <1>4 DEF Replay, Drive
  <2> QED
    BY <2>1, <1>1
<1>5. CASE k = ReplayRange
  BY <1>5, <1>1, <1>2
<1> QED
  BY <1>3, <1>4, <1>5 DEF Methods

\* The spots have the shape of spots.
LEMMA SpotFacts ==
    /\ \A at \in SpotNames : Plain(at) \in Spots
    /\ \A r \in 1 .. NRevs : Before(r) \in Spots /\ Shut(r) \in Spots
    /\ \A r \in 1 .. NRevs, n \in 0 .. NEvents : Amid(r, n) \in Spots
    /\ \A at : Plain(at).at = at
    /\ \A r : Before(r).at = "before" /\ Shut(r).at = "shut" /\ Before(r).rev = r /\ Shut(r).rev = r
    /\ \A r, n : Amid(r, n).at = "amid" /\ Amid(r, n).rev = r /\ Amid(r, n).n = n
<1>1. 1 \in 1 .. NRevs /\ 0 \in 0 .. NEvents
  BY SizeAssumption
<1>2. \A at, r, n : Spot(at, r, n).at = at /\ Spot(at, r, n).rev = r /\ Spot(at, r, n).n = n
  BY DEF Spot
<1>3. \A at \in SpotNames, r \in 1 .. NRevs, n \in 0 .. NEvents : Spot(at, r, n) \in Spots
  BY DEF Spot, Spots
<1>4. \A at \in SpotNames : Plain(at) \in Spots
  BY <1>1, <1>3 DEF Plain
<1>5. \A r \in 1 .. NRevs : Before(r) \in Spots /\ Shut(r) \in Spots
  BY <1>1, <1>3 DEF Before, Shut, SpotNames
<1>6. \A r \in 1 .. NRevs, n \in 0 .. NEvents : Amid(r, n) \in Spots
  BY <1>3 DEF Amid, SpotNames
<1>7. \A at : Plain(at).at = at
  BY <1>2 DEF Plain
<1>8. \A r : Before(r).at = "before" /\ Shut(r).at = "shut" /\ Before(r).rev = r /\ Shut(r).rev = r
  BY <1>2 DEF Before, Shut
<1>9. \A r, n : Amid(r, n).at = "amid" /\ Amid(r, n).rev = r /\ Amid(r, n).n = n
  BY <1>2 DEF Amid
<1> QED
  BY <1>4, <1>5, <1>6, <1>7, <1>8, <1>9

\* What is said at a spot leads to a spot.
LEMMA EmitsSpot ==
    ASSUME NEW k \in Methods, NEW told \in BOOLEAN, NEW p \in Spots, NEW x, NEW q,
           Emits(k, told, p, x, q)
    PROVE  q \in Spots
<1>1. p.rev \in 1 .. NRevs /\ p.n \in 0 .. NEvents /\ 1 \in 1 .. NRevs /\ 0 \in 0 .. NEvents
  BY SizeAssumption DEF Spots
<1>2. Entry(k) \in Spots
  BY <1>1, SpotFacts DEF Entry, SpotNames
<1>3. After(k, p.rev) \in Spots
  <2>1. CASE p.rev < k.revs
    <3>1. p.rev + 1 \in 1 .. NRevs
      BY <2>1, <1>1, MethodFacts, SizeAssumption
    <3> QED
      BY <2>1, <3>1, SpotFacts DEF After
  <2>2. CASE ~(p.rev < k.revs)
    BY <2>2, SpotFacts DEF After, SpotNames
  <2> QED
    BY <2>1, <2>2
<1>4. p.n < NEvents => p.n + 1 \in 0 .. NEvents
  BY <1>1, SizeAssumption
<1>5. Plain("done") \in Spots /\ Plain("broken") \in Spots /\ Plain("over") \in Spots
      /\ Plain("denied") \in Spots /\ Amid(1, 0) \in Spots /\ Amid(p.rev, 0) \in Spots
      /\ Shut(p.rev) \in Spots /\ (p.n < NEvents => Amid(p.rev, p.n + 1) \in Spots)
  BY <1>1, <1>4, SpotFacts DEF SpotNames
<1> QED
  BY <1>2, <1>3, <1>5 DEF Emits

\* Over one revision a drive of which something was sent goes on, or ends, as
\* such as long as nobody refuses it.
LEMMA FirmGoesOn ==
    ASSUME NEW k \in Methods, NEW p \in Spots, NEW x, NEW q,
           k.revs = 1, Emits(k, FALSE, p, x, q), Firm(p)
    PROVE  Firm(q)
<1>1. p.rev \in Nat /\ p.rev >= 1 /\ p.n \in Nat
  BY SizeAssumption DEF Spots
<1>2. After(k, p.rev) = Plain("finished")
  BY <1>1 DEF After
<1>3. CASE p.at = "amid" /\ p.n > 0
  <2>1. \/ q = Amid(p.rev, p.n + 1) \/ q = Shut(p.rev) \/ q = After(k, p.rev) \/ q = Plain("broken")
    BY <1>3 DEF Emits
  <2>2. p.n + 1 > 0
    BY <1>1
  <2> QED
    BY <2>1, <2>2, <1>2, SpotFacts DEF Firm
<1>4. CASE p.at \in {"shut", "broken", "finished", "over"}
  <2>1. q = Plain("over")
    BY <1>4 DEF Emits
  <2> QED
    BY <2>1, SpotFacts DEF Firm
<1> QED
  BY <1>3, <1>4 DEF Firm

\* Without items the two sides are at the same spot.
LEMMA JoinedBare ==
    ASSUME NEW c, NEW s, NEW o, NEW u \in BOOLEAN, NEW n
    PROVE  Joined(c, s, o, <<>>, u, n) <=>
              \E p \in Spots : /\ Stands(c, n, p, ~u)
                               /\ u => Meets(c, p, s, o) /\ Astray(c, p, s)
<1>1. Len(<<>>) = 0 /\ 0 .. 0 = {0} /\ 1 .. 0 = {}
  BY EmptySeq
<1>2. ASSUME Joined(c, s, o, <<>>, u, n)
      PROVE  \E p \in Spots : /\ Stands(c, n, p, ~u)
                              /\ u => Meets(c, p, s, o) /\ Astray(c, p, s)
  <2>1. PICK pos \in [0 .. Len(<<>>) -> Spots] :
           /\ Stands(c, n, pos[0], ~u /\ <<>> = <<>>)
           /\ u => Meets(c, pos[Len(<<>>)], s, o)
           /\ u => \A j \in 0 .. Len(<<>>) : Astray(c, pos[j], s)
    BY <1>2 DEF Joined
  <2>2. pos[0] \in Spots
    BY <1>1
  <2>3. Stands(c, n, pos[0], ~u)
    <3>1. (~u /\ <<>> = <<>>) = ~u
      OBVIOUS
    <3> QED
      BY <2>1, <3>1
  <2>4. u => Meets(c, pos[0], s, o) /\ Astray(c, pos[0], s)
    BY <2>1, <1>1
  <2> QED
    BY <2>2, <2>3, <2>4
<1>3. ASSUME NEW p \in Spots, Stands(c, n, p, ~u), u => Meets(c, p, s, o) /\ Astray(c, p, s)
      PROVE  Joined(c, s, o, <<>>, u, n)
  <2> DEFINE pos == [i \in 0 .. 0 |-> p]
  <2>1. pos \in [0 .. Len(<<>>) -> Spots] /\ pos[0] = p
    BY <1>1
  <2> HIDE DEF pos
  <2>2. Path(c.kind, Told(c), <<>>, pos)
    BY <2>1, <1>1 DEF Path
  <2>3. (~u /\ <<>> = <<>>) = ~u
    OBVIOUS
  <2>4. Stands(c, n, pos[0], ~u /\ <<>> = <<>>)
    BY <2>1, <2>3, <1>3
  <2>5. u => Meets(c, pos[Len(<<>>)], s, o)
    BY <2>1, <1>1, <1>3
  <2>6. u => \A j \in 0 .. Len(<<>>) : Astray(c, pos[j], s)
    BY <2>1, <1>1, <1>3
  <2> QED
    BY <2>1, <2>2, <2>4, <2>5, <2>6 DEF Joined
<1> QED
  BY <1>2, <1>3


\* What is said before a failure may be said after it.
LEMMA EmitsTold ==
    ASSUME NEW k, NEW told \in BOOLEAN, NEW told2 \in BOOLEAN, told => told2,
           NEW p, NEW x, NEW q, Emits(k, told, p, x, q)
    PROVE  Emits(k, told2, p, x, q)
BY DEF Emits

\* Where a client stands it stands when the connection is lost, too.
LEMMA StandsGone ==
    ASSUME NEW c, NEW n, NEW p, NEW gone \in BOOLEAN, Stands(c, n, p, FALSE)
    PROVE  Stands(c, n, p, gone)
BY DEF Stands

\* At q the server has nothing to say.
Silent(k, told, q) == \A x : \A y \in Spots : ~Emits(k, told, q, x, y)

\* The client reads an item: it was at p and is at q, the server is at z.
LEMMA JoinedRead ==
    ASSUME NEW c, c.kind \in Methods, NEW s, NEW o, NEW i \in Seq(Items), i # <<>>,
           NEW u \in BOOLEAN, NEW n, Joined(c, s, o, i, u, n)
    PROVE  \E p, q, z \in Spots :
              /\ Stands(c, n, p, FALSE)
              /\ Emits(c.kind, Told(c), p, Head(i), q)
              /\ u => Meets(c, z, s, o)
              /\ u => Astray(c, p, s) /\ Astray(c, q, s)
              /\ c.kind.revs = 1 /\ ~Told(c) /\ Firm(q) => Firm(z)
              /\ Silent(c.kind, Told(c), q) => Tail(i) = <<>> /\ z = q
              /\ Tail(i) = <<>> => z = q
              /\ \A c2, n2 :
                    /\ c2.kind = c.kind /\ c.pc # "response" /\ (Told(c) => Told(c2))
                    /\ Stands(c2, n2, q, ~u /\ Tail(i) = <<>>)
                    /\ u => Meets(c2, z, s, o)
                    => Joined(c2, s, o, Tail(i), u, n2)
<1> DEFINE m == Len(i) - 1
<1>1. /\ Len(i) \in Nat /\ Len(i) > 0 /\ m \in Nat /\ Len(i) = m + 1
      /\ Tail(i) \in Seq(Items) /\ Len(Tail(i)) = m
      /\ Head(i) = i[1] /\ \A j \in 1 .. m : Tail(i)[j] = i[j + 1]
  BY EmptySeq, HeadTailProperties
<1>2. PICK pos \in [0 .. Len(i) -> Spots] :
         /\ Path(c.kind, Told(c), i, pos)
         /\ Stands(c, n, pos[0], ~u /\ i = <<>>)
         /\ u => Meets(c, pos[Len(i)], s, o)
         /\ u => \A j \in 0 .. Len(i) : Astray(c, pos[j], s)
  BY DEF Joined
<1>3. Told(c) \in BOOLEAN
  BY DEF Told
<1>4. /\ \A j \in 1 .. Len(i) : Emits(c.kind, Told(c), pos[j - 1], i[j], pos[j])
      /\ \A a, b \in 0 .. Len(i) :
            a <= b /\ c.kind.revs = 1 /\ ~Told(c) /\ Firm(pos[a]) => Firm(pos[b])
  BY <1>2 DEF Path
<1> DEFINE next == [j \in 0 .. m |-> pos[j + 1]]
<1> HIDE DEF m
<1>5. next \in [0 .. Len(Tail(i)) -> Spots]
  <2>1. \A j \in 0 .. m : j + 1 \in 0 .. Len(i)
    BY <1>1
  <2> QED
    BY <2>1, <1>1
<1>6. next[0] = pos[1] /\ next[m] = pos[Len(i)] /\ \A j \in 0 .. m : next[j] = pos[j + 1]
  BY <1>1
<1> HIDE DEF next
<1>7. pos[0] \in Spots /\ pos[1] \in Spots /\ pos[Len(i)] \in Spots
  BY <1>1
<1>8. Stands(c, n, pos[0], FALSE)
  <2>1. (~u /\ i = <<>>) = FALSE
    OBVIOUS
  <2> QED
    BY <2>1, <1>2
<1>9. Emits(c.kind, Told(c), pos[0], Head(i), pos[1])
  <2>1. 1 \in 1 .. Len(i) /\ 1 - 1 = 0
    BY <1>1
  <2> QED
    BY <2>1, <1>1, <1>4
<1>10. u => Astray(c, pos[0], s) /\ Astray(c, pos[1], s)
  <2>1. 0 \in 0 .. Len(i) /\ 1 \in 0 .. Len(i)
    BY <1>1
  <2> QED
    BY <2>1, <1>2
<1>11. c.kind.revs = 1 /\ ~Told(c) /\ Firm(pos[1]) => Firm(pos[Len(i)])
  <2>1. 1 \in 0 .. Len(i) /\ Len(i) \in 0 .. Len(i) /\ 1 <= Len(i)
    BY <1>1
  <2> QED
    BY <2>1, <1>4
<1>12. Silent(c.kind, Told(c), pos[1]) => Tail(i) = <<>> /\ pos[Len(i)] = pos[1]
  <2> SUFFICES ASSUME Silent(c.kind, Told(c), pos[1])
               PROVE  m = 0
    <3>1. m = 0 => Len(i) = 1 /\ Len(Tail(i)) = 0
      BY <1>1
    <3> QED
      BY <3>1, <1>1, EmptySeq
  <2>1. CASE m > 0
    <3>1. 2 \in 1 .. Len(i) /\ 2 - 1 = 1 /\ 2 \in 0 .. Len(i)
      BY <2>1, <1>1
    <3>2. Emits(c.kind, Told(c), pos[1], i[2], pos[2]) /\ pos[2] \in Spots
      BY <3>1, <1>4
    <3> QED
      BY <3>2 DEF Silent
  <2> QED
    BY <2>1, <1>1
<1>14. Tail(i) = <<>> => pos[Len(i)] = pos[1]
  <2>1. Tail(i) = <<>> => Len(i) = 1
    BY <1>1, EmptySeq
  <2> QED
    BY <2>1
<1>13. ASSUME NEW c2, NEW n2, c2.kind = c.kind, c.pc # "response", Told(c) => Told(c2),
              Stands(c2, n2, pos[1], ~u /\ Tail(i) = <<>>),
              u => Meets(c2, pos[Len(i)], s, o)
       PROVE  Joined(c2, s, o, Tail(i), u, n2)
  <2>1. Told(c2) \in BOOLEAN
    BY DEF Told
  <2>2. ASSUME NEW j \in 1 .. m
        PROVE  Emits(c2.kind, Told(c2), next[j - 1], Tail(i)[j], next[j])
    <3>1. j + 1 \in 1 .. Len(i) /\ (j + 1) - 1 = j /\ j - 1 \in 0 .. m /\ j \in 0 .. m
          /\ (j - 1) + 1 = j
      BY <1>1
    <3>2. Emits(c.kind, Told(c), pos[j], i[j + 1], pos[j + 1])
      BY <3>1, <1>4
    <3>3. next[j - 1] = pos[j] /\ next[j] = pos[j + 1] /\ Tail(i)[j] = i[j + 1]
      BY <3>1, <1>6, <1>1
    <3> QED
      BY <3>2, <3>3, <2>1, <1>3, <1>13, EmitsTold
  <2>3. ASSUME NEW a \in 0 .. m, NEW b \in 0 .. m, a <= b, c2.kind.revs = 1, ~Told(c2),
               Firm(next[a])
        PROVE  Firm(next[b])
    <3>1. a + 1 \in 0 .. Len(i) /\ b + 1 \in 0 .. Len(i) /\ a + 1 <= b + 1
      BY <2>3, <1>1
    <3>2. next[a] = pos[a + 1] /\ next[b] = pos[b + 1]
      BY <1>6
    <3> QED
      BY <3>1, <3>2, <2>3, <1>4, <1>13
  <2>4. Path(c2.kind, Told(c2), Tail(i), next)
    BY <2>2, <2>3, <1>5, <1>1 DEF Path
  <2>5. Stands(c2, n2, next[0], ~u /\ Tail(i) = <<>>)
    BY <1>6, <1>13
  <2>6. u => Meets(c2, next[Len(Tail(i))], s, o)
    BY <1>1, <1>6, <1>13
  <2>7. u => \A j \in 0 .. Len(Tail(i)) : Astray(c2, next[j], s)
    <3> SUFFICES ASSUME u, NEW j \in 0 .. m
                 PROVE  Astray(c2, next[j], s)
      BY <1>1
    <3>1. j + 1 \in 0 .. Len(i) /\ next[j] = pos[j + 1]
      BY <1>1, <1>6
    <3>2. Astray(c, pos[j + 1], s)
      BY <3>1, <1>2
    <3> QED
      BY <3>1, <3>2, <1>13 DEF Astray
  <2> QED
    BY <1>5, <2>4, <2>5, <2>6, <2>7 DEF Joined
<1> QED
  BY <1>2, <1>7, <1>8, <1>9, <1>10, <1>11, <1>12, <1>13


\* The server, at z, says an item; or it goes on without saying anything.
LEMMA JoinedSay ==
    ASSUME NEW c, c.kind \in Methods, NEW s, NEW o, NEW i \in Seq(Items), NEW n,
           Joined(c, s, o, i, TRUE, n)
    PROVE  \E z \in Spots :
              /\ Meets(c, z, s, o) /\ Astray(c, z, s)
              /\ i = <<>> => Stands(c, n, z, FALSE)
              /\ \A x \in Items : \A q, s2, o2 :
                    /\ Emits(c.kind, Told(c), z, x, q) /\ Meets(c, q, s2, o2)
                    /\ Astray(c, q, s2)
                    /\ \/ c.kind.reports /\ s.rogue => s2.rogue
                       \/ i = <<>> /\ Astray(c, z, s2)
                    => Joined(c, s2, o2, Append(i, x), TRUE, n)
              /\ \A s2, o2 :
                    Meets(c, z, s2, o2) /\ (c.kind.reports /\ s.rogue => s2.rogue)
                    => Joined(c, s2, o2, i, TRUE, n)
<1> DEFINE m == Len(i)
<1>1. m \in Nat
  OBVIOUS
<1>2. PICK pos \in [0 .. m -> Spots] :
         /\ Path(c.kind, Told(c), i, pos)
         /\ Stands(c, n, pos[0], ~TRUE /\ i = <<>>)
         /\ Meets(c, pos[m], s, o)
         /\ \A j \in 0 .. m : Astray(c, pos[j], s)
  BY DEF Joined
<1>3. Told(c) \in BOOLEAN
  BY DEF Told
<1>4. /\ \A j \in 1 .. m : Emits(c.kind, Told(c), pos[j - 1], i[j], pos[j])
      /\ \A a, b \in 0 .. m :
            a <= b /\ c.kind.revs = 1 /\ ~Told(c) /\ Firm(pos[a]) => Firm(pos[b])
  BY <1>2 DEF Path
<1>5. Stands(c, n, pos[0], FALSE)
  <2>1. (~TRUE /\ i = <<>>) = FALSE
    OBVIOUS
  <2> QED
    BY <2>1, <1>2
<1>6. pos[m] \in Spots /\ Astray(c, pos[m], s)
  BY <1>1, <1>2
<1>7. i = <<>> => Stands(c, n, pos[m], FALSE)
  <2>1. i = <<>> => m = 0
    BY EmptySeq
  <2> QED
    BY <2>1, <1>5
<1>8. ASSUME NEW x \in Items, NEW q, NEW s2, NEW o2,
             Emits(c.kind, Told(c), pos[m], x, q), Meets(c, q, s2, o2),
             Astray(c, q, s2),
             \/ c.kind.reports /\ s.rogue => s2.rogue
             \/ i = <<>> /\ Astray(c, pos[m], s2)
      PROVE  Joined(c, s2, o2, Append(i, x), TRUE, n)
  <2>1. /\ Len(Append(i, x)) = m + 1 /\ Append(i, x)[m + 1] = x
        /\ \A j \in 1 .. m : Append(i, x)[j] = i[j]
    BY AppendProperties
  <2>2. Append(i, x) # <<>>
    BY <2>1, <1>1, EmptySeq
  <2>3. q \in Spots
    BY <1>3, <1>6, <1>8, EmitsSpot
  <2> DEFINE next == [j \in 0 .. m + 1 |-> IF j = m + 1 THEN q ELSE pos[j]]
  <2> HIDE DEF m
  <2>4. next \in [0 .. m + 1 -> Spots]
    BY <2>3, <1>1
  <2>5. next[m + 1] = q /\ \A j \in 0 .. m : next[j] = pos[j]
    BY <1>1
  <2> HIDE DEF next
  <2>6. ASSUME NEW j \in 1 .. m + 1
        PROVE  Emits(c.kind, Told(c), next[j - 1], Append(i, x)[j], next[j])
    <3>1. CASE j = m + 1
      <4>1. j - 1 = m /\ m \in 0 .. m
        BY <3>1, <1>1
      <4> QED
        BY <4>1, <3>1, <2>1, <2>5, <1>8
    <3>2. CASE j # m + 1
      <4>1. j \in 1 .. m /\ j - 1 \in 0 .. m /\ j \in 0 .. m
        BY <3>2, <1>1
      <4> QED
        BY <4>1, <2>1, <2>5, <1>4
    <3> QED
      BY <3>1, <3>2
  <2>7. ASSUME NEW a \in 0 .. m + 1, NEW b \in 0 .. m + 1, a <= b, c.kind.revs = 1, ~Told(c),
               Firm(next[a])
        PROVE  Firm(next[b])
    <3>1. CASE b # m + 1
      <4>1. a \in 0 .. m /\ b \in 0 .. m
        BY <3>1, <2>7, <1>1
      <4> QED
        BY <4>1, <2>5, <2>7, <1>4
    <3>2. CASE b = m + 1 /\ a # m + 1
      <4>1. a \in 0 .. m /\ m \in 0 .. m /\ a <= m
        BY <3>2, <2>7, <1>1
      <4>2. Firm(pos[m])
        BY <4>1, <2>5, <2>7, <1>4
      <4>3. Told(c) = FALSE
        BY <2>7, <1>3
      <4>4. Firm(q)
        BY <4>2, <4>3, <2>7, <1>6, <1>8, FirmGoesOn
      <4> QED
        BY <4>4, <3>2, <2>5
    <3>3. CASE a = m + 1 /\ b = m + 1
      BY <3>3, <2>7
    <3> QED
      BY <3>1, <3>2, <3>3
  <2>8. Path(c.kind, Told(c), Append(i, x), next)
    BY <2>1, <2>4, <2>6, <2>7 DEF Path
  <2>9. Stands(c, n, next[0], ~TRUE /\ Append(i, x) = <<>>)
    <3>1. (~TRUE /\ Append(i, x) = <<>>) = FALSE /\ next[0] = pos[0]
      BY <2>5, <1>1
    <3> QED
      BY <3>1, <1>5
  <2>10. Meets(c, next[Len(Append(i, x))], s2, o2)
    BY <2>1, <2>5, <1>8
  <2>11. ASSUME NEW j \in 0 .. m + 1
         PROVE  Astray(c, next[j], s2)
    <3>1. CASE j = m + 1
      BY <3>1, <2>5, <1>8
    <3>2. CASE j # m + 1
      <4>1. j \in 0 .. m
        BY <3>2, <1>1
      <4>2. Astray(c, pos[j], s)
        BY <4>1, <1>2 DEF m
      <4>3. CASE c.kind.reports /\ s.rogue => s2.rogue
        BY <4>1, <4>2, <4>3, <2>5 DEF Astray
      <4>4. CASE i = <<>> /\ Astray(c, pos[m], s2)
        <5>1. j = m
          BY <4>1, <4>4, EmptySeq DEF m
        <5> QED
          BY <5>1, <4>1, <4>4, <2>5
      <4> QED
        BY <4>3, <4>4, <1>8
    <3> QED
      BY <3>1, <3>2
  <2> QED
    BY <2>1, <2>4, <2>8, <2>9, <2>10, <2>11 DEF Joined
<1>9. ASSUME NEW s2, NEW o2, Meets(c, pos[m], s2, o2), c.kind.reports /\ s.rogue => s2.rogue
      PROVE  Joined(c, s2, o2, i, TRUE, n)
  <2>1. \A j \in 0 .. m : Astray(c, pos[j], s2)
    BY <1>2, <1>9 DEF Astray
  <2> QED
    BY <2>1, <1>2, <1>9 DEF Joined
<1> QED
  BY <1>2, <1>6, <1>7, <1>8, <1>9

\* The client goes on without reading.
LEMMA JoinedStay ==
    ASSUME NEW c, NEW c2, c2.kind = c.kind, Told(c) => Told(c2),
           c2.pc = "response" \/ c.pc # "response",
           NEW s, NEW o, NEW o2, NEW i \in Seq(Items), NEW u \in BOOLEAN, NEW n,
           Joined(c, s, o, i, u, n),
           \A p \in Spots : Stands(c, n, p, ~u /\ i = <<>>) => Stands(c2, n, p, ~u /\ i = <<>>),
           \A z \in Spots : u /\ Meets(c, z, s, o) => Meets(c2, z, s, o2)
    PROVE  Joined(c2, s, o2, i, u, n)
<1> DEFINE gone == ~u /\ i = <<>>
<1>1. Len(i) \in Nat
  OBVIOUS
<1>2. PICK pos \in [0 .. Len(i) -> Spots] :
         /\ Path(c.kind, Told(c), i, pos)
         /\ Stands(c, n, pos[0], gone)
         /\ u => Meets(c, pos[Len(i)], s, o)
         /\ u => \A j \in 0 .. Len(i) : Astray(c, pos[j], s)
  BY DEF Joined
<1> HIDE DEF gone
<1>3. Told(c) \in BOOLEAN /\ Told(c2) \in BOOLEAN
  BY DEF Told
<1>4. Path(c2.kind, Told(c2), i, pos)
  <2>1. \A j \in 1 .. Len(i) : Emits(c2.kind, Told(c2), pos[j - 1], i[j], pos[j])
    BY <1>2, <1>3, EmitsTold DEF Path
  <2> QED
    BY <2>1, <1>2 DEF Path
<1>5. Stands(c2, n, pos[0], gone)
  <2>1. pos[0] \in Spots
    BY <1>1
  <2> QED
    BY <2>1, <1>2 DEF gone
<1>6. u => Meets(c2, pos[Len(i)], s, o2)
  <2>1. pos[Len(i)] \in Spots
    BY <1>1
  <2> QED
    BY <2>1, <1>2
<1>7. u => \A j \in 0 .. Len(i) : Astray(c2, pos[j], s)
  BY <1>2 DEF Astray
<1> QED
  BY <1>4, <1>5, <1>6, <1>7 DEF Joined, gone

\* The connection is lost after k items.
LEMMA JoinedCut ==
    ASSUME NEW c, NEW s, NEW s2, NEW o, NEW o2, NEW i \in Seq(Items), NEW n,
           NEW k \in 0 .. Len(i), Joined(c, s, o, i, TRUE, n)
    PROVE  Joined(c, s2, o2, SubSeq(i, 1, k), FALSE, n)
<1> DEFINE cut == SubSeq(i, 1, k)
<1>1. k \in Nat /\ Len(i) \in Nat /\ k <= Len(i)
  OBVIOUS
<1>2. Len(cut) = k /\ \A j \in 1 .. k : cut[j] = i[j]
  <2>1. 1 \in Nat /\ k \in Nat /\ (1 <= k => 1 >= 1 /\ k <= Len(i))
    BY <1>1
  <2>2. CASE k = 0
    <3>1. cut = <<>>
      BY <2>2, SubSeqProperties
    <3> QED
      BY <3>1, <2>2, EmptySeq
  <2>3. CASE k > 0
    BY <2>3, <1>1, SubSeqProperties
  <2> QED
    BY <2>2, <2>3, <1>1
<1>3. PICK pos \in [0 .. Len(i) -> Spots] :
         /\ Path(c.kind, Told(c), i, pos)
         /\ Stands(c, n, pos[0], ~TRUE /\ i = <<>>)
  BY DEF Joined
<1> DEFINE next == [j \in 0 .. k |-> pos[j]]
<1> HIDE DEF cut
<1>4. next \in [0 .. k -> Spots] /\ \A j \in 0 .. k : next[j] = pos[j] /\ j \in 0 .. Len(i)
  BY <1>1
<1> HIDE DEF next
<1>5. Path(c.kind, Told(c), cut, next)
  <2>1. ASSUME NEW j \in 1 .. k
        PROVE  Emits(c.kind, Told(c), next[j - 1], cut[j], next[j])
    <3>1. j \in 1 .. Len(i) /\ j - 1 \in 0 .. k /\ j \in 0 .. k
      BY <1>1
    <3> QED
      BY <3>1, <1>2, <1>3, <1>4 DEF Path
  <2> QED
    BY <2>1, <1>2, <1>3, <1>4 DEF Path
<1>6. Stands(c, n, next[0], ~FALSE /\ cut = <<>>)
  <2>1. (~TRUE /\ i = <<>>) = FALSE /\ next[0] = pos[0]
    BY <1>1, <1>4
  <2>2. Stands(c, n, next[0], FALSE)
    BY <2>1, <1>3
  <2>3. (~FALSE /\ cut = <<>>) \in BOOLEAN
    OBVIOUS
  <2> QED
    BY <2>2, <2>3, StandsGone
<1>7. Joined(c, s2, o2, cut, FALSE, n)
  BY <1>2, <1>4, <1>5, <1>6 DEF Joined
<1> QED
  BY <1>7 DEF cut


-----------------------------------------------------------------------------
(* What most steps have in common.                                         *)

\* The well-formed values among which the state moves.
LEMMA SizeFacts ==
    /\ NEvents \in Nat /\ NRevs \in Nat /\ NRevs >= 1 /\ FailureParts \in Nat /\ FailureParts >= 1
    /\ ToServer \in Nat /\ ToServer >= 1 /\ ToClient \in Nat /\ ToClient >= 1 /\ MaxCalls \in Nat
BY SizeAssumption

LEMMA QuietType == Quiet \in ServerType /\ Quiet.at = "idle" /\ Quiet.nak = 0
<1>1. Replay \in Methods
  BY DEF Methods
<1>2. 0 \in 0 .. NRevs /\ 0 \in 0 .. NEvents /\ 0 \in 0 .. FailureParts - 1
  BY SizeFacts
<1> QED
  BY <1>1, <1>2 DEF Quiet, ServerType

\* A dropped connection is well formed.
LEMMA DisconnectType ==
    ASSUME Disconnect
    PROVE  /\ kept' \in BOOLEAN /\ up' \in BOOLEAN /\ srv' \in ServerType
           /\ out' \in Seq(Tokens) /\ Len(out') <= ToServer
           /\ in' \in Seq(Items) /\ Len(in') <= ToClient
<1>1. kept' = FALSE /\ up' = FALSE /\ out' = <<>> /\ in' = <<>> /\ srv' = Quiet
  BY DEF Disconnect
<1>2. <<>> \in Seq(Tokens) /\ <<>> \in Seq(Items)
  OBVIOUS
<1>3. Len(<<>>) = 0
  BY EmptySeq
<1>4. Len(out') <= ToServer /\ Len(in') <= ToClient
  BY <1>1, <1>3, SizeFacts
<1> QED
  BY <1>1, <1>2, <1>4, QuietType

\* A server that has said its last word is idle.
LEMMA ServedType ==
    ASSUME srv \in ServerType
    PROVE  /\ Served \in ServerType /\ Served.at = "idle" /\ Served.nak = 0
           /\ Served.rogue = srv.rogue
BY QuietType DEF Served, ServerType

\* A call that goes on keeps the shape of the state and what has been delivered.
LEMMA GoesOn ==
    ASSUME IInv, call.pc # "idle", call' \in CallType, call'.pc \notin {"idle", "start"},
           call'.result = call.result,
           srv.at # "idle" => call'.kind = call.kind,
           kept' = kept, up' = up, srv' = srv, delivered' = delivered,
           in' \in Seq(Items), Len(in') <= ToClient,
           out' \in Seq(Tokens), Len(out') <= ToServer, up \/ out' = out
    PROVE  TypeOK' /\ LinkInv' /\ RestInv' /\ InOrder' /\ OkIsComplete'
<1>1. TypeOK'
  BY DEF IInv, TypeOK
<1>2. LinkInv'
  BY DEF IInv, LinkInv
<1>3. RestInv'
  BY DEF RestInv
<1>4. InOrder'
  BY DEF IInv, InOrder
<1>5. OkIsComplete'
  BY DEF IInv, CallInv, OkIsComplete
<1> QED
  BY <1>1, <1>2, <1>3, <1>4, <1>5

\* What a kept connection must be like when a method leaves rest unread.
Clear(rest) == rest = <<>> /\ out = <<>> /\ srv.at = "idle" /\ srv.nak = 0

\* A method may end when it drops the connection, or knows it to be at rest.
LEMMA LeaveSafe ==
    ASSUME IInv, call.pc # "idle", NEW result \in Results, NEW rest \in Seq(Items),
           Len(rest) <= Len(in), Leave(result, rest),
           result = "ok" => call.err = "none" /\ Len(delivered) = NEvents * call.kind.revs,
           ShouldDrop(result) \/ (Ranges /\ result # "ok") \/ Spoilt \/ Clear(rest)
    PROVE  IInv'
<1>1. call \in CallType /\ call' = [call EXCEPT !.pc = "idle", !.result = result] /\ delivered' = delivered
  BY DEF Leave, IInv, TypeOK
<1>2. /\ call' \in CallType /\ call'.pc = "idle" /\ call'.result = result
      /\ call'.kind = call.kind /\ call'.err = call.err /\ call'.report = call.report
  BY <1>1 DEF CallType
<1>3. \/ Disconnect
      \/ /\ Spoilt \/ Clear(rest)
         /\ in' = rest /\ kept' = kept /\ up' = up /\ out' = out /\ srv' = srv
  BY DEF Leave
<1>4. TypeOK'
  <2>1. kept' \in BOOLEAN /\ up' \in BOOLEAN /\ out' \in Seq(Tokens) /\ Len(out') <= ToServer
        /\ in' \in Seq(Items) /\ Len(in') <= ToClient /\ srv' \in ServerType
    <3>1. CASE Disconnect
      BY <3>1, DisconnectType
    <3>2. CASE ~Disconnect
      <4>1. Len(rest) \in Nat /\ Len(in) \in Nat
        BY DEF IInv, TypeOK
      <4> QED
        BY <4>1, <3>2, <1>3, SizeFacts DEF IInv, TypeOK
    <3> QED
      BY <3>1, <3>2
  <2> QED
    BY <2>1, <1>1, <1>2 DEF IInv, TypeOK
<1>5. LinkInv'
  <2>1. CASE Disconnect
    BY <2>1, <1>2, QuietType DEF Disconnect, LinkInv
  <2>2. CASE ~Disconnect
    BY <2>2, <1>2, <1>3 DEF IInv, LinkInv
  <2> QED
    BY <2>1, <2>2
<1>6. CallInv'
  BY <1>2 DEF IInv, CallInv, Refusing
<1>7. RestInv'
  <2>1. CASE Disconnect
    BY <2>1, QuietType DEF Disconnect, RestInv
  <2>2. CASE ~Disconnect
    BY <2>2, <1>2, <1>3 DEF RestInv, Spoilt, Clear
  <2> QED
    BY <2>1, <2>2
<1>8. ~Guided'
  BY <1>2 DEF Guided
<1>9. InOrder' /\ OkIsComplete'
  BY <1>1, <1>2 DEF IInv, InOrder, OkIsComplete
<1> QED
  BY <1>4, <1>5, <1>6, <1>7, <1>8, <1>9 DEF IInv

\* A method that drops the connection may end anywhere.
LEMMA LeaveDroppedSafe ==
    ASSUME IInv, call.pc \in Refusing, NEW rest, LeaveDropped(call.err, rest)
    PROVE  IInv'
<1>1. call.err \in Results /\ call.err # "ok" /\ call.pc # "idle"
  BY DEF IInv, CallInv, Refusing, Results
<1>2. call \in CallType /\ call' = [call EXCEPT !.pc = "idle", !.result = call.err]
      /\ delivered' = delivered /\ Disconnect
  BY DEF LeaveDropped, IInv, TypeOK
<1>3. /\ call' \in CallType /\ call'.pc = "idle" /\ call'.result = call.err
      /\ call'.kind = call.kind /\ call'.err = call.err /\ call'.report = call.report
  BY <1>1, <1>2 DEF CallType
<1>5. TypeOK'
  BY <1>2, <1>3, DisconnectType DEF IInv, TypeOK
<1>6. LinkInv'
  BY <1>2, <1>3, QuietType DEF Disconnect, LinkInv
<1>7. CallInv'
  BY <1>3 DEF IInv, CallInv, Refusing
<1>8. RestInv'
  BY <1>2, QuietType DEF Disconnect, RestInv
<1>9. ~Guided'
  BY <1>3 DEF Guided
<1>10. InOrder' /\ OkIsComplete'
  BY <1>1, <1>2, <1>3 DEF IInv, InOrder, OkIsComplete
<1> QED
  BY <1>5, <1>6, <1>7, <1>8, <1>9, <1>10 DEF IInv


-----------------------------------------------------------------------------
(* What the two sides know of each other.                                  *)

\* A server that waits at an end is idle.
LEMMA WaitsAtEnd ==
    ASSUME NEW k, NEW p, NEW s, NEW o, Waits(k, p, s, o), p.at \in {"done", "over"}
    PROVE  s.at = "idle" /\ s.nak = 0
<1>1. \A r : After(k, r).at \in {"before", "finished"}
  BY SpotFacts DEF After
<1> QED
  BY <1>1, SpotFacts DEF Waits

\* A server in a drive of which something was sent can be told of a failure.
LEMMA WaitsFirm ==
    ASSUME NEW k, NEW p, NEW s \in ServerType, NEW o, o = <<>>, Waits(k, p, s, o), Firm(p)
    PROVE  Hears(p, s, o, FailureParts)
<1>1. DOMAIN o = {} /\ Len(o) = 0 /\ <<>> # <<"success">>
  BY EmptySeq
<1>2. FailureParts \in Nat /\ s.nak = 0 /\ s.nak + Len(o) + FailureParts = FailureParts
      /\ Len(o) + FailureParts = FailureParts
  BY <1>1, SizeFacts DEF Waits
<1>3. p.at \in {"shut", "broken", "finished", "over"} \/ (p.at = "amid" /\ p.n > 0)
  BY DEF Firm
<1>4. \/ s.at = "idle" /\ p.at = "over"
      \/ s.at = "edit" /\ p = Amid(s.rev, s.sent) /\ s.sent > 0
      \/ s.at = "ack" /\ ~s.failed /\ p = Shut(s.rev)
      \/ s.at = "ack" /\ s.failed /\ p.at = "broken"
      \/ s.at = "respond" /\ ~s.failed /\ p.at = "finished"
  <2>1. o # <<"success">>
    BY <1>1
  <2> QED
    BY <2>1, <1>3, SpotFacts DEF Waits
<1> QED
  BY <1>1, <1>2, <1>4 DEF Hears

\* There are spots where the server has nothing to say.
LEMMA SilentSpots ==
    ASSUME NEW k, NEW told, NEW p,
           p.at \in {"done", "denied"} \/ (~told /\ p.at \in {"shut", "broken", "over"})
    PROVE  Silent(k, told, p)
BY DEF Silent, Emits

\* The parts of a state in which something is to be read.
LEMMA ReadType ==
    ASSUME IInv, in # <<>>
    PROVE  /\ Head(in) \in Items /\ Tail(in) \in Seq(Items)
           /\ Len(Tail(in)) <= Len(in) /\ Len(Tail(in)) <= ToClient
<1>1. in \in Seq(Items) /\ Len(in) <= ToClient /\ Len(in) \in Nat
  BY DEF IInv, TypeOK
<1>2. Head(in) \in Items /\ Tail(in) \in Seq(Items) /\ Len(Tail(in)) = Len(in) - 1
  BY <1>1, HeadTailProperties
<1> QED
  BY <1>1, <1>2, SizeFacts

\* The client of a call that is understood reads an item.
LEMMA ReadStep ==
    ASSUME IInv, Guided, in # <<>>
    PROVE  \E p, q, z \in Spots :
              /\ Stands(call, Len(delivered), p, FALSE)
              /\ Emits(call.kind, Told(call), p, Head(in), q)
              /\ up => Meets(call, z, srv, out)
              /\ up => Astray(call, p, srv) /\ Astray(call, q, srv)
              /\ call.kind.revs = 1 /\ ~Told(call) /\ Firm(q) => Firm(z)
              /\ Silent(call.kind, Told(call), q) => Tail(in) = <<>> /\ z = q
              /\ Tail(in) = <<>> => z = q
              /\ \A c2, n2 :
                    /\ c2.kind = call.kind /\ call.pc # "response" /\ (Told(call) => Told(c2))
                    /\ Stands(c2, n2, q, ~up /\ Tail(in) = <<>>)
                    /\ up => Meets(c2, z, srv, out)
                    => Joined(c2, srv, out, Tail(in), up, n2)
<1>1. call.kind \in Methods /\ in \in Seq(Items) /\ up \in BOOLEAN
  BY DEF IInv, TypeOK, CallType
<1>2. Joined(call, srv, out, in, up, Len(delivered))
  BY DEF IInv, PathInv
<1> QED
  BY <1>1, <1>2, JoinedRead

\* After the last item of a call that is not refused the connection is at rest.
LEMMA ClearAtEnd ==
    ASSUME IInv, Guided, in # <<>>, call.pc \notin Refusing, NEW q \in Spots, NEW z \in Spots,
           q.at \in {"done", "over"}, up => Meets(call, z, srv, out),
           Silent(call.kind, Told(call), q) => Tail(in) = <<>> /\ z = q
    PROVE  Clear(Tail(in))
<1>1. ~Told(call)
  BY DEF Told
<1>2. Tail(in) = <<>> /\ z = q
  BY <1>1, SilentSpots
<1>3. out = <<>>
  BY DEF IInv, TurnInv
<1>4. srv.at = "idle" /\ srv.nak = 0
  <2>1. CASE up
    BY <2>1, <1>2, WaitsAtEnd DEF Meets
  <2>2. CASE ~up
    BY <2>2, QuietType DEF IInv, LinkInv
  <2> QED
    BY <2>1, <2>2
<1> QED
  BY <1>2, <1>3, <1>4 DEF Clear

-----------------------------------------------------------------------------
(* Up to the drive.                                                        *)

LEMMA InitIdle == Idle \in CallType /\ Idle.result = "none" /\ Idle.err = "none" /\ Idle.report = "good"
<1>1. /\ 0 \in 0 .. MaxCalls /\ 1 \in 1 .. NRevs + 1 /\ 0 \in 0 .. FailureParts
      /\ Replay \in Methods
  BY SizeFacts DEF Methods
<1> QED
  BY <1>1 DEF Idle, CallType, Results, Reading

\* The invariant holds of a new session.
LEMMA InitInv == Init => IInv
<1> SUFFICES ASSUME Init PROVE IInv
  OBVIOUS
<1>1. <<>> \in Seq(Tokens) /\ <<>> \in Seq(Items) /\ <<>> \in Seq(Events)
  OBVIOUS
<1>2. Len(<<>>) = 0 /\ DOMAIN <<>> = {}
  BY EmptySeq
<1>3. TypeOK
  <2>1. Len(out) <= ToServer /\ Len(in) <= ToClient
    BY <1>2, SizeFacts DEF Init
  <2> QED
    BY <2>1, <1>1, InitIdle, QuietType DEF Init, TypeOK
<1>4. call.pc = "idle" /\ ~Guided
  BY DEF Init, Idle, Guided
<1>5. LinkInv /\ RestInv
  BY QuietType DEF Init, LinkInv, RestInv
<1>6. CallInv
  BY <1>4, InitIdle DEF Init, CallInv, Refusing
<1>7. InOrder /\ OkIsComplete
  BY <1>2, InitIdle DEF Init, InOrder, OkIsComplete
<1> QED
  BY <1>3, <1>4, <1>5, <1>6, <1>7 DEF IInv

\* A call begins on a connection that is at rest, or on a new one.
LEMMA StartStep ==
    ASSUME IInv, NEW kind \in Kinds, NEW report \in {"good", "badpath", "abortreport"},
           Start(kind, report)
    PROVE  IInv'
<1>1. kind \in Methods
  BY KindAssumption
<1>2. /\ call.pc = "idle" /\ call.no < MaxCalls /\ ~Spoilt
      /\ report = "good" \/ kind.reports
      /\ kept' = TRUE /\ up' = (IF kept THEN up ELSE TRUE)
      /\ call' = [Idle EXCEPT !.no = call.no + 1, !.kind = kind, !.report = report, !.pc = "start"]
      /\ delivered' = <<>> /\ out' = out /\ in' = in /\ srv' = srv
  BY DEF Start
<1>3. call.no + 1 \in 0 .. MaxCalls
  BY <1>2, SizeFacts DEF IInv, TypeOK, CallType
<1>4. /\ call' \in CallType /\ call'.pc = "start" /\ call'.kind = kind /\ call'.report = report
      /\ call'.err = "none" /\ call'.result = "none" /\ call'.rev = 1
  BY <1>1, <1>2, <1>3, InitIdle DEF CallType, Idle
<1>5. out = <<>> /\ in = <<>> /\ srv.at = "idle" /\ srv.nak = 0
  BY <1>2 DEF IInv, RestInv
<1>6. TypeOK'
  <2>1. up' \in BOOLEAN
    <3>1. up \in BOOLEAN
      BY DEF IInv, TypeOK
    <3> QED
      BY <3>1, <1>2, Zenon
  <2>2. kept' \in BOOLEAN /\ delivered' \in Seq(Events)
    BY <1>2
  <2> QED
    BY <2>1, <2>2, <1>2, <1>4 DEF IInv, TypeOK
<1>7. LinkInv'
  BY <1>2, <1>4, <1>5 DEF IInv, LinkInv
<1>8. CallInv'
  BY <1>2, <1>4 DEF CallInv, Refusing
<1>9. RestInv'
  BY <1>2, <1>5 DEF RestInv
<1>10. PathInv'
  <2>1. Plain("calling") \in Spots /\ Plain("calling").at = "calling"
    BY SpotFacts DEF SpotNames
  <2>2. Len(delivered') = 0
    BY <1>2, EmptySeq
  <2>3. Stands(call', Len(delivered'), Plain("calling"), ~up')
    BY <2>1, <2>2, <1>4 DEF Stands
  <2>4. Meets(call', Plain("calling"), srv', out')
    BY <2>1, <1>2, <1>4, <1>5 DEF Meets, Waits, Refusing
  <2>5. Astray(call', Plain("calling"), srv')
    BY <2>1 DEF Astray
  <2>6. up' \in BOOLEAN
    BY <1>6 DEF TypeOK
  <2>7. Joined(call', srv', out', <<>>, up', Len(delivered'))
    BY <2>1, <2>3, <2>4, <2>5, <2>6, JoinedBare
  <2> QED
    BY <2>7, <1>2, <1>5 DEF PathInv
<1>11. TurnInv'
  BY <1>2, <1>4, <1>5 DEF TurnInv
<1>12. InOrder' /\ OkIsComplete'
  <2>1. DOMAIN delivered' = {}
    BY <1>2, EmptySeq
  <2> QED
    BY <2>1, <1>4 DEF InOrder, OkIsComplete
<1> QED
  BY <1>6, <1>7, <1>8, <1>9, <1>10, <1>11, <1>12 DEF IInv


\* With nothing to read the client and the server are at the same spot.
LEMMA BareStep ==
    ASSUME IInv, Guided, in = <<>>
    PROVE  \E p \in Spots : /\ Stands(call, Len(delivered), p, ~up)
                            /\ up => Meets(call, p, srv, out) /\ Astray(call, p, srv)
<1>1. Joined(call, srv, out, <<>>, up, Len(delivered)) /\ up \in BOOLEAN
  BY DEF IInv, PathInv, TypeOK
<1> QED
  BY <1>1, JoinedBare

LEMMA BareInv ==
    ASSUME in' = <<>>, up' \in BOOLEAN, NEW p \in Spots,
           Stands(call', Len(delivered'), p, ~up'),
           up' => Meets(call', p, srv', out') /\ Astray(call', p, srv')
    PROVE  PathInv'
<1>1. Joined(call', srv', out', <<>>, up', Len(delivered'))
  BY JoinedBare
<1> QED
  BY <1>1 DEF PathInv

LEMMA RefuseReportStep ==
    ASSUME IInv, RefuseReport
    PROVE  IInv'
<1>1. /\ call.pc = "start" /\ call.report = "abortreport"
      /\ call' = [call EXCEPT !.pc = "idle", !.result = "protocol"] /\ delivered' = delivered
      /\ kept' = kept /\ up' = up /\ out' = out /\ in' = in /\ srv' = srv
  BY DEF RefuseReport
<1>2. /\ call' \in CallType /\ call'.pc = "idle" /\ call'.result = "protocol"
      /\ call'.kind = call.kind /\ call'.err = call.err /\ call'.report = call.report
  BY <1>1 DEF IInv, TypeOK, CallType, Results
<1>3. TypeOK'
  BY <1>1, <1>2 DEF IInv, TypeOK
<1>4. LinkInv'
  BY <1>1, <1>2 DEF IInv, LinkInv
<1>5. CallInv'
  BY <1>1, <1>2 DEF IInv, CallInv, Refusing
<1>6. RestInv'
  BY <1>1, <1>2 DEF IInv, RestInv
<1>7. ~Guided'
  BY <1>2 DEF Guided
<1>8. InOrder' /\ OkIsComplete'
  BY <1>1, <1>2 DEF IInv, InOrder, OkIsComplete
<1> QED
  BY <1>3, <1>4, <1>5, <1>6, <1>7, <1>8 DEF IInv

\* A method may end on a lost connection, and for an answer of the wrong shape.
LEMMA LeaveBroken ==
    ASSUME IInv, call.pc # "idle", NEW result \in {"eof", "timeout", "protocol"},
           NEW rest, rest = in \/ (in # <<>> /\ rest = Tail(in)), Leave(result, rest)
    PROVE  IInv'
<1>1. result \in Results /\ result # "ok" /\ ShouldDrop(result)
  BY DEF Results, ShouldDrop
<1>2. in \in Seq(Items) /\ Len(in) <= Len(in)
  BY DEF IInv, TypeOK
<1>3. rest \in Seq(Items) /\ Len(rest) <= Len(in)
  BY <1>2, ReadType
<1> QED
  BY <1>1, <1>3, LeaveSafe

LEMMA SendCommandStep ==
    ASSUME IInv, SendCommand
    PROVE  IInv'
<1>1. call.pc = "start" /\ Write("command", "auth")
  BY DEF SendCommand
<1>2. CASE ~up /\ Leave("eof", in)
  BY <1>1, <1>2, LeaveBroken
<1>3. CASE up /\ Len(out) < ToServer /\ out' = Append(out, "command")
           /\ call' = [call EXCEPT !.pc = "auth"] /\ UNCHANGED <<kept, up, in, srv, delivered>>
  <2>1. /\ call' \in CallType /\ call'.pc = "auth" /\ call'.kind = call.kind
        /\ call'.report = call.report /\ call'.err = call.err /\ call'.result = call.result
        /\ call'.rev = call.rev
    BY <1>3 DEF IInv, TypeOK, CallType, Reading
  <2>2. out = <<>> /\ in = <<>> /\ srv.at = "idle" /\ srv.nak = 0
    BY <1>1 DEF IInv, RestInv
  <2>3. out' = <<"command">> /\ out' \in Seq(Tokens) /\ Len(out') <= ToServer
    <3>1. out' = <<"command">>
      BY <2>2, <1>3
    <3>2. Len(<<"command">>) = 1 /\ <<"command">> \in Seq(Tokens)
      BY DEF Tokens
    <3> QED
      BY <3>1, <3>2, SizeFacts
  <2>4. TypeOK' /\ LinkInv' /\ RestInv' /\ InOrder' /\ OkIsComplete'
    <3>1. in' \in Seq(Items) /\ Len(in') <= ToClient
      BY <1>3 DEF IInv, TypeOK
    <3> QED
      BY <3>1, <2>1, <2>3, <1>1, <1>3, GoesOn
  <2>5. CallInv'
    BY <2>1, <1>1 DEF IInv, CallInv, Refusing
  <2>6. Guided
    BY <1>1 DEF IInv, CallInv, Guided, Refusing
  <2>7. PathInv'
    <3>1. PICK p \in Spots : /\ Stands(call, Len(delivered), p, ~up)
                             /\ up => Meets(call, p, srv, out) /\ Astray(call, p, srv)
      BY <2>2, <2>6, BareStep
    <3>2. p.at = "calling" /\ call.rev = 1 /\ Len(delivered) = 0
      BY <3>1, <1>1 DEF Stands
    <3>3. Stands(call', Len(delivered'), p, ~up')
      BY <3>2, <2>1, <1>3 DEF Stands
    <3>4. Meets(call', p, srv', out') /\ Astray(call', p, srv')
      BY <3>2, <2>1, <2>2, <1>3 DEF Meets, Waits, Astray, Refusing
    <3>5. in' = <<>> /\ up' \in BOOLEAN
      BY <2>2, <1>3 DEF IInv, TypeOK
    <3> QED
      BY <3>3, <3>4, <3>5, BareInv
  <2>8. TurnInv'
    <3>1. Len(in') = 0
      BY <2>2, <1>3, EmptySeq
    <3> QED
      BY <3>1, <2>1, <2>2, <2>3, <1>3 DEF TurnInv
  <2> QED
    BY <2>4, <2>5, <2>7, <2>8 DEF IInv
<1> QED
  BY <1>1, <1>2, <1>3 DEF Write

LEMMA SendReportStep ==
    ASSUME IInv, SendReport
    PROVE  IInv'
<1>1. call.pc = "report"
  BY DEF SendReport
<1>2. Guided
  BY <1>1 DEF IInv, CallInv, Guided, Refusing
<1>3. in = <<>> /\ out = <<>>
  BY <1>1, <1>2 DEF IInv, TurnInv, Refusing
<1>4. in \in Seq(Items) /\ Len(in) <= Len(in)
  BY DEF IInv, TypeOK
<1>5. CASE call.report = "badpath" /\ Leave("other", in)
  <2>1. Spoilt /\ "other" \in Results /\ "other" # "ok"
    BY <1>5 DEF Spoilt, Results
  <2> QED
    BY <2>1, <1>1, <1>4, <1>5, LeaveSafe
<1>6. CASE ~up /\ Leave("eof", in)
  BY <1>1, <1>6, LeaveBroken
<1>7. CASE /\ call.report # "badpath"
           /\ up /\ Len(out) < ToServer /\ out' = Append(out, "report")
           /\ call' = [call EXCEPT !.pc = "auth2"] /\ UNCHANGED <<kept, up, in, srv, delivered>>
  <2>1. /\ call' \in CallType /\ call'.pc = "auth2" /\ call'.kind = call.kind
        /\ call'.report = call.report /\ call'.err = call.err /\ call'.result = call.result
        /\ call'.rev = call.rev
    BY <1>7 DEF IInv, TypeOK, CallType, Reading
  <2>2. out' = <<"report">> /\ out' \in Seq(Tokens) /\ Len(out') <= ToServer
    <3>1. out' = <<"report">>
      BY <1>3, <1>7
    <3>2. Len(<<"report">>) = 1 /\ <<"report">> \in Seq(Tokens)
      BY DEF Tokens
    <3> QED
      BY <3>1, <3>2, SizeFacts
  <2>3. TypeOK' /\ LinkInv' /\ RestInv' /\ InOrder' /\ OkIsComplete'
    <3>1. in' \in Seq(Items) /\ Len(in') <= ToClient
      BY <1>7 DEF IInv, TypeOK
    <3> QED
      BY <3>1, <2>1, <2>2, <1>1, <1>7, GoesOn
  <2>4. CallInv'
    BY <2>1, <1>1, <1>7 DEF IInv, CallInv, Refusing
  <2>5. PICK p \in Spots : /\ Stands(call, Len(delivered), p, ~up)
                           /\ up => Meets(call, p, srv, out) /\ Astray(call, p, srv)
    BY <1>2, <1>3, BareStep
  <2>6. p.at = "reporting" /\ call.rev = 1 /\ Len(delivered) = 0
    BY <2>5, <1>1 DEF Stands
  <2>7. srv.at = "report" /\ srv.rev = 1 /\ srv.sent = 0 /\ srv.nak = 0
    <3>1. Waits(call.kind, p, srv, out)
      BY <2>5, <1>1, <1>7 DEF Meets, Refusing
    <3>2. \A r : After(call.kind, r).at \in {"before", "finished"}
      BY SpotFacts DEF After
    <3> QED
      BY <3>1, <3>2, <2>6, SpotFacts DEF Waits
  <2>8. PathInv'
    <3>1. Stands(call', Len(delivered'), p, ~up')
      BY <2>6, <2>1, <1>7 DEF Stands
    <3>2. Meets(call', p, srv', out') /\ Astray(call', p, srv')
      BY <2>6, <2>7, <2>1, <1>7 DEF Meets, Waits, Astray, Refusing
    <3>3. in' = <<>> /\ up' \in BOOLEAN
      BY <1>3, <1>7 DEF IInv, TypeOK
    <3> QED
      BY <3>1, <3>2, <3>3, BareInv
  <2>9. TurnInv'
    BY <2>1, <2>2, <2>7, <1>3, <1>7 DEF TurnInv
  <2> QED
    BY <2>3, <2>4, <2>8, <2>9 DEF IInv
<1> QED
  BY <1>5, <1>6, <1>7 DEF SendReport, Write

\* The client has read the first item and goes on.
LEMMA GoOnSafe ==
    ASSUME IInv, call.pc # "idle", in # <<>>, NEW place, GoOn(place, Tail(in)),
           place \in {"report", "revprops", "drive", "ack", "drain", "aborted"}
    PROVE  /\ TypeOK' /\ LinkInv' /\ RestInv' /\ InOrder' /\ OkIsComplete'
           /\ call'.pc = place /\ \A f \in {"kind", "report", "rev", "err", "drain", "left", "done", "result"} :
                 call'[f] = call[f]
<1>1. call' = [call EXCEPT !.pc = place] /\ in' = Tail(in) /\ UNCHANGED <<kept, up, out, srv, delivered>>
  BY DEF GoOn
<1>2. call \in CallType
  BY DEF IInv, TypeOK
<1>3. /\ call' \in CallType /\ call'.pc = place
      /\ \A f \in {"kind", "report", "rev", "err", "drain", "left", "done", "result"} : call'[f] = call[f]
  BY <1>1, <1>2 DEF CallType, Reading
<1>4. in' \in Seq(Items) /\ Len(in') <= ToClient /\ out' \in Seq(Tokens) /\ Len(out') <= ToServer
  BY <1>1, ReadType DEF IInv, TypeOK
<1>5. call'.kind = call.kind /\ call'.result = call.result
  BY <1>3
<1> QED
  BY <1>1, <1>3, <1>4, <1>5, GoesOn


\* What an item says of the spots before and after it.
LEMMA ItemWords ==
    (\A w : Item(w).word = w) /\ (\A r, n : Event(r, n).word = "event")
BY DEF Item, Event

LEMMA EmitsAuth ==
    ASSUME NEW k, NEW told \in BOOLEAN, NEW p, NEW x, NEW q, Emits(k, told, p, x, q),
           x.word = "auth"
    PROVE  \/ p.at = "calling" /\ q = Entry(k)
           \/ p.at = "reporting" /\ q = Amid(1, 0)
BY ItemWords DEF Emits

LEMMA EmitsRevProps ==
    ASSUME NEW k, NEW told \in BOOLEAN, NEW p, NEW x, NEW q, Emits(k, told, p, x, q),
           x.word = "revprops"
    PROVE  p.at = "before" /\ q = Amid(p.rev, 0)
BY ItemWords DEF Emits

LEMMA EmitsEvent ==
    ASSUME NEW k, NEW told \in BOOLEAN, NEW p, NEW x, NEW q, Emits(k, told, p, x, q),
           x.word = "event"
    PROVE  /\ p.at = "amid" /\ p.n < NEvents
           /\ x = Event(p.rev, p.n + 1) /\ q = Amid(p.rev, p.n + 1)
BY ItemWords DEF Emits

LEMMA EmitsClose ==
    ASSUME NEW k, NEW told \in BOOLEAN, NEW p, NEW x, NEW q, Emits(k, told, p, x, q),
           x.word = "close-edit"
    PROVE  p.at = "amid" /\ p.n = NEvents /\ q = Shut(p.rev)
BY ItemWords DEF Emits

LEMMA EmitsFinish ==
    ASSUME NEW k, NEW told \in BOOLEAN, NEW p, NEW x, NEW q, Emits(k, told, p, x, q),
           x.word = "finish-replay"
    PROVE  p.at = "amid" /\ p.n = NEvents /\ q = After(k, p.rev)
BY ItemWords DEF Emits

LEMMA EmitsAbort ==
    ASSUME NEW k, NEW told \in BOOLEAN, NEW p, NEW x, NEW q, Emits(k, told, p, x, q),
           x.word = "abort-edit"
    PROVE  q = Plain("broken") /\ (p.at = "amid" \/ (told /\ p.at = "shut"))
BY ItemWords DEF Emits

LEMMA EmitsSuccess ==
    ASSUME NEW k, NEW told \in BOOLEAN, NEW p, NEW x, NEW q, Emits(k, told, p, x, q),
           x.word = "success"
    PROVE  \/ p.at = "finished" /\ q = Plain("over")
           \/ p.at = "shut" /\ q = Plain("done") /\ told
BY ItemWords DEF Emits

LEMMA EmitsFail ==
    ASSUME NEW k, NEW told \in BOOLEAN, NEW p, NEW x, NEW q, Emits(k, told, p, x, q),
           x.word = "fail"
    PROVE  \/ q = Plain("done") /\ p.at \in {"calling", "reporting", "before", "failing"}
           \/ q = Plain("done") /\ p.at = "amid" /\ p.n = 0
           \/ q = Plain("done") /\ p.at = "broken" /\ told
           \/ q = Plain("denied") /\ p.at = "over" /\ told
BY ItemWords DEF Emits

\* A method ends for an answer of the server to what it has asked.
LEMMA LeaveAnswered ==
    ASSUME IInv, Guided, in # <<>>, call.pc \notin Refusing, NEW result \in {"ok", "server"},
           Leave(result, Tail(in)),
           result = "ok" => call.err = "none" /\ Len(delivered) = NEvents * call.kind.revs,
           NEW q \in Spots, NEW z \in Spots, q.at \in {"done", "over"},
           up => Meets(call, z, srv, out),
           Silent(call.kind, Told(call), q) => Tail(in) = <<>> /\ z = q
    PROVE  IInv'
<1>1. Clear(Tail(in))
  BY ClearAtEnd
<1>2. call.pc # "idle" /\ result \in Results
  BY DEF Guided, Results
<1>3. Tail(in) \in Seq(Items) /\ Len(Tail(in)) <= Len(in)
  BY ReadType
<1> QED
  BY <1>1, <1>2, <1>3, LeaveSafe

LEMMA ReadAuthStep ==
    ASSUME IInv, ReadAuth
    PROVE  IInv'
<1>1. call.pc \in {"auth", "auth2"} /\ in # <<>> /\ call.pc # "idle" /\ call.pc \notin Refusing
      /\ call.pc # "response"
  BY DEF ReadAuth, Refusing
<1>2. Guided
  BY <1>1 DEF IInv, CallInv, Guided
<1>3. ~Told(call) /\ Told(call) \in BOOLEAN
  BY <1>1 DEF Told
<1>4. call.kind \in Methods
  BY DEF IInv, TypeOK, CallType
<1>5. PICK p \in Spots, q \in Spots, z \in Spots :
         /\ Stands(call, Len(delivered), p, FALSE)
         /\ Emits(call.kind, Told(call), p, Head(in), q)
         /\ up => Meets(call, z, srv, out)
         /\ Silent(call.kind, Told(call), q) => Tail(in) = <<>> /\ z = q
         /\ \A c2, n2 :
               /\ c2.kind = call.kind /\ call.pc # "response" /\ (Told(call) => Told(c2))
               /\ Stands(c2, n2, q, ~up /\ Tail(in) = <<>>)
               /\ up => Meets(c2, z, srv, out)
               => Joined(c2, srv, out, Tail(in), up, n2)
  BY <1>1, <1>2, ReadStep
<1>6. /\ call.pc = "auth" => p.at = "calling"
      /\ call.pc = "auth2" => p.at = "reporting"
      /\ call.rev = 1 /\ Len(delivered) = 0
  BY <1>1, <1>5 DEF Stands
<1>7. CASE Head(in).word = "auth" /\ GoOn(AfterAuth, Tail(in))
  <2>1. /\ call.pc = "auth" => q = Entry(call.kind)
        /\ call.pc = "auth2" => q = Amid(1, 0)
    <3>1. (p.at = "calling" /\ q = Entry(call.kind)) \/ (p.at = "reporting" /\ q = Amid(1, 0))
      BY <1>3, <1>5, <1>7, EmitsAuth
    <3> QED
      BY <3>1, <1>1, <1>6
  <2>2. /\ call.kind.reports => ~Ranges
        /\ call.pc = "auth2" => call.kind.reports
        /\ 1 <= call.kind.revs
    BY <1>4, MethodFacts, SizeFacts DEF IInv, CallInv, Ranges
  <2>3. \/ AfterAuth = "report" /\ call.pc = "auth" /\ call.kind.reports /\ q = Plain("reporting")
        \/ AfterAuth = "revprops" /\ Ranges /\ q = Before(1)
        \/ AfterAuth = "drive" /\ q = Amid(1, 0)
    BY <1>1, <2>1, <2>2 DEF AfterAuth, Entry, Ranges
  <2>4. /\ TypeOK' /\ LinkInv' /\ RestInv' /\ InOrder' /\ OkIsComplete'
        /\ call'.pc = AfterAuth
        /\ \A f \in {"kind", "report", "rev", "err", "drain", "left", "done", "result"} :
              call'[f] = call[f]
    <3>1. AfterAuth \in {"report", "revprops", "drive", "ack", "drain", "aborted"}
      BY <2>3
    <3> QED
      BY <3>1, <1>1, <1>7, GoOnSafe
  <2>5. /\ call'.kind = call.kind /\ call'.report = call.report /\ call'.rev = 1
        /\ call'.err = call.err /\ call'.result = call.result
    BY <2>4, <1>6
  <2>6. in' = Tail(in) /\ out' = out /\ up' = up /\ srv' = srv /\ delivered' = delivered
    BY <1>7 DEF GoOn
  <2>7. call'.pc \notin Refusing /\ call'.pc \in {"report", "revprops", "drive"}
    BY <2>3, <2>4 DEF Refusing
  <2>8. CallInv'
    <3>1. call.report = "badpath" => AfterAuth = "report"
      BY <1>1 DEF IInv, CallInv, AfterAuth
    <3>2. call'.pc = "report" => call.kind.reports
      BY <2>3, <2>4
    <3>3. call'.pc = "revprops" => Ranges
      BY <2>3, <2>4
    <3> QED
      BY <3>1, <3>2, <3>3, <1>1, <2>4, <2>5, <2>7 DEF IInv, CallInv, Ranges
  <2>9. PathInv'
    <3>1. Stands(call', Len(delivered'), q, FALSE)
      <4>1. Len(delivered') = 0 /\ (1 - 1) * NEvents = 0 /\ (1 - 1) * NEvents + 0 = 0
        BY <1>6, <2>6, SizeFacts
      <4> QED
        BY <4>1, <2>2, <2>3, <2>4, <2>5, SpotFacts DEF Stands
    <3>2. Stands(call', Len(delivered'), q, ~up /\ Tail(in) = <<>>)
      BY <3>1, StandsGone DEF IInv, TypeOK
    <3>3. up => Meets(call', z, srv, out)
      BY <1>1, <1>5, <2>5, <2>7 DEF Meets
    <3>4. Joined(call', srv, out, Tail(in), up, Len(delivered'))
      BY <3>2, <3>3, <1>1, <1>3, <1>5, <2>5
    <3> QED
      BY <3>4, <2>6 DEF PathInv
  <2>10. TurnInv'
    <3>1. out = <<>>
      BY <1>1, <1>2 DEF IInv, TurnInv
    <3>2. call'.pc = "report" => in' = <<>>
      <4>1. AfterAuth = "report" => call.pc = "auth" /\ call.kind.reports
        BY <2>3
      <4>2. call.pc = "auth" /\ call.kind.reports => Len(in) <= 1
        BY <1>2 DEF IInv, TurnInv
      <4>3. Len(in) <= 1 => Tail(in) = <<>>
        <5>1. in \in Seq(Items)
          BY DEF IInv, TypeOK
        <5>2. Len(in) \in Nat /\ Len(Tail(in)) = Len(in) - 1 /\ Tail(in) \in Seq(Items) /\ Len(in) # 0
          BY <5>1, <1>1, HeadTailProperties, EmptySeq
        <5> QED
          BY <5>2, EmptySeq
      <4> QED
        BY <4>1, <4>2, <4>3, <2>4, <2>6
    <3> QED
      BY <3>1, <3>2, <2>6, <2>7 DEF TurnInv
  <2> QED
    BY <2>4, <2>8, <2>9, <2>10 DEF IInv
<1>8. CASE Head(in).word = "fail" /\ Leave("server", Tail(in))
  <2>1. q = Plain("done")
    <3>1. \/ p.at \in {"calling", "reporting", "before", "failing"} /\ q = Plain("done")
          \/ p.at = "amid" \/ p.at = "broken" \/ p.at = "over"
      BY <1>3, <1>5, <1>8, EmitsFail
    <3> QED
      BY <3>1, <1>1, <1>6
  <2>2. q.at \in {"done", "over"}
    BY <2>1, SpotFacts
  <2> QED
    BY <2>2, <1>1, <1>2, <1>5, <1>8, LeaveAnswered
<1>9. CASE Leave("protocol", Tail(in))
  BY <1>1, <1>9, LeaveBroken
<1> QED
  BY <1>7, <1>8, <1>9 DEF ReadAuth


-----------------------------------------------------------------------------
(* The drive.                                                              *)

\* replay_range may end anywhere, unless it says Ok.
LEMMA LeaveRanges ==
    ASSUME IInv, call.pc # "idle", Ranges, in # <<>>, NEW result \in Results, result # "ok",
           Leave(result, Tail(in))
    PROVE  IInv'
<1>1. Tail(in) \in Seq(Items) /\ Len(Tail(in)) <= Len(in)
  BY ReadType
<1> QED
  BY <1>1, LeaveSafe

LEMMA ReadRevPropsStep ==
    ASSUME IInv, ReadRevProps
    PROVE  IInv'
<1>1. call.pc = "revprops" /\ in # <<>> /\ call.pc # "idle" /\ call.pc \notin Refusing
  BY DEF ReadRevProps, Refusing
<1>2. Guided /\ Ranges
  BY <1>1 DEF IInv, CallInv, Guided
<1>3. ~Told(call) /\ Told(call) \in BOOLEAN
  BY <1>1 DEF Told
<1>4. CASE Leave("other", Tail(in)) \/ Leave("server", Tail(in))
  <2>1. "other" \in Results /\ "server" \in Results /\ "other" # "ok" /\ "server" # "ok"
    BY DEF Results
  <2> QED
    BY <2>1, <1>1, <1>2, <1>4, LeaveRanges
<1>5. CASE Leave("protocol", Tail(in))
  BY <1>1, <1>5, LeaveBroken
<1>6. CASE Head(in).word = "revprops" /\ GoOn("drive", Tail(in))
  <2>1. PICK p \in Spots, q \in Spots, z \in Spots :
           /\ Stands(call, Len(delivered), p, FALSE)
           /\ Emits(call.kind, Told(call), p, Head(in), q)
           /\ up => Meets(call, z, srv, out)
           /\ \A c2, n2 :
                 /\ c2.kind = call.kind /\ call.pc # "response" /\ (Told(call) => Told(c2))
                 /\ Stands(c2, n2, q, ~up /\ Tail(in) = <<>>)
                 /\ up => Meets(c2, z, srv, out)
                 => Joined(c2, srv, out, Tail(in), up, n2)
    BY <1>1, <1>2, ReadStep
  <2>2. p.at = "before" /\ q = Amid(p.rev, 0)
    BY <2>1, <1>3, <1>6, EmitsRevProps
  <2>3. /\ call.rev <= call.kind.revs /\ p = Before(call.rev)
        /\ Len(delivered) = (call.rev - 1) * NEvents
    BY <2>1, <2>2, <1>1 DEF Stands
  <2>4. q = Amid(call.rev, 0)
    BY <2>2, <2>3, SpotFacts
  <2>5. /\ TypeOK' /\ LinkInv' /\ RestInv' /\ InOrder' /\ OkIsComplete'
        /\ call'.pc = "drive"
        /\ \A f \in {"kind", "report", "rev", "err", "drain", "left", "done", "result"} :
              call'[f] = call[f]
    BY <1>1, <1>6, GoOnSafe
  <2>6. /\ call'.kind = call.kind /\ call'.report = call.report /\ call'.rev = call.rev
        /\ call'.err = call.err /\ call'.result = call.result
    BY <2>5
  <2>7. in' = Tail(in) /\ out' = out /\ up' = up /\ srv' = srv /\ delivered' = delivered
    BY <1>6 DEF GoOn
  <2>8. CallInv'
    BY <1>1, <2>5, <2>6 DEF IInv, CallInv, Refusing
  <2>9. PathInv'
    <3>1. Stands(call', Len(delivered'), q, FALSE)
      <4>1. Len(delivered') = (call.rev - 1) * NEvents + 0
        <5>1. call.rev \in Int /\ (call.rev - 1) * NEvents \in Int
          BY SizeFacts DEF IInv, TypeOK, CallType
        <5> QED
          BY <5>1, <2>3, <2>7
      <4> QED
        BY <4>1, <2>3, <2>4, <2>5, <2>6, SpotFacts DEF Stands
    <3>2. Stands(call', Len(delivered'), q, ~up /\ Tail(in) = <<>>)
      BY <3>1, StandsGone DEF IInv, TypeOK
    <3>3. up => Meets(call', z, srv, out)
      BY <1>1, <2>1, <2>5, <2>6 DEF Meets, Refusing
    <3>4. Joined(call', srv, out, Tail(in), up, Len(delivered'))
      BY <3>2, <3>3, <1>1, <1>3, <2>1, <2>6
    <3> QED
      BY <3>4, <2>7 DEF PathInv
  <2>10. TurnInv'
    <3>1. out = <<>>
      BY <1>1, <1>2 DEF IInv, TurnInv
    <3> QED
      BY <3>1, <2>5, <2>7 DEF TurnInv
  <2> QED
    BY <2>5, <2>8, <2>9, <2>10 DEF IInv
<1> QED
  BY <1>1, <1>4, <1>5, <1>6 DEF ReadRevProps

\* In the drive the client is in the middle of it.
LEMMA AtDrive ==
    ASSUME IInv, call.pc = "drive"
    PROVE  /\ Guided /\ call.pc # "idle" /\ call.pc \notin Refusing /\ ~Told(call) /\ out = <<>>
           /\ call.report # "badpath" /\ call.err = "none" /\ call.kind \in Methods
           /\ ~Ranges => call.kind.revs = 1
<1>1. call.pc \notin Refusing /\ call.pc # "idle"
  BY DEF Refusing
<1>2. call.err = "none" /\ call.report # "badpath" /\ Guided
  BY <1>1 DEF IInv, CallInv, Guided
<1>3. call.kind \in Methods
  BY DEF IInv, TypeOK, CallType
<1>4. out = <<>>
  BY <1>1, <1>2 DEF IInv, TurnInv
<1> QED
  BY <1>1, <1>2, <1>3, <1>4, MethodFacts DEF Told, Ranges

LEMMA RefuseStep ==
    ASSUME IInv, call.pc = "drive", in # <<>>, NEW err \in {"protocol", "other", "finish"},
           NEW drain \in BOOLEAN, Refuse(err, drain),
           err = "finish" => ~call.kind.reports,
           drain => Head(in).word = "event",
           ~drain => Head(in).word \in {"close-edit", "abort-edit"} \/ err = "finish"
    PROVE  IInv'
<1>1. /\ Guided /\ call.pc # "idle" /\ call.pc \notin Refusing /\ ~Told(call) /\ out = <<>>
      /\ call.report # "badpath" /\ call.err = "none" /\ call.kind \in Methods
      /\ ~Ranges => call.kind.revs = 1
  BY AtDrive
<1>2. /\ call' = [call EXCEPT !.pc = "early", !.err = err, !.drain = drain,
                              !.left = FailureParts, !.done = FALSE]
      /\ in' = Tail(in) /\ kept' = kept /\ up' = up /\ out' = out /\ srv' = srv
      /\ delivered' = delivered
  BY DEF Refuse
<1>3. /\ call' \in CallType /\ call'.pc = "early" /\ call'.err = err /\ call'.drain = drain
      /\ call'.left = FailureParts /\ call'.done = FALSE /\ call'.kind = call.kind
      /\ call'.report = call.report /\ call'.result = call.result
  <2>1. call \in CallType /\ FailureParts \in 0 .. FailureParts /\ err \in Results
    BY SizeFacts DEF IInv, TypeOK, Results
  <2> QED
    BY <2>1, <1>2 DEF CallType
<1>4. TypeOK' /\ LinkInv' /\ RestInv' /\ InOrder' /\ OkIsComplete'
  <2>1. in' \in Seq(Items) /\ Len(in') <= ToClient /\ out' \in Seq(Tokens) /\ Len(out') <= ToServer
    BY <1>2, ReadType DEF IInv, TypeOK
  <2> QED
    BY <2>1, <1>1, <1>2, <1>3, GoesOn
<1>5. CallInv'
  BY <1>1, <1>3 DEF IInv, CallInv, Refusing
<1>6. TurnInv'
  BY <1>1, <1>2, <1>3 DEF TurnInv
<1>7. ASSUME Guided'
      PROVE  PathInv'
  <2>1. err # "finish" /\ ~Ranges /\ call.kind.revs = 1
    BY <1>1, <1>3, <1>7 DEF Guided, Ranges, Refusing
  <2>2. PICK p \in Spots, q \in Spots, z \in Spots :
           /\ Stands(call, Len(delivered), p, FALSE)
           /\ Emits(call.kind, Told(call), p, Head(in), q)
           /\ up => Meets(call, z, srv, out)
           /\ call.kind.revs = 1 /\ ~Told(call) /\ Firm(q) => Firm(z)
           /\ \A c2, n2 :
                 /\ c2.kind = call.kind /\ call.pc # "response" /\ (Told(call) => Told(c2))
                 /\ Stands(c2, n2, q, ~up /\ Tail(in) = <<>>)
                 /\ up => Meets(c2, z, srv, out)
                 => Joined(c2, srv, out, Tail(in), up, n2)
    BY <1>1, ReadStep
  <2>3. Told(call) \in BOOLEAN
    BY DEF Told
  <2>4. \/ drain /\ q.at = "amid" /\ q.n > 0
        \/ ~drain /\ q.at \in {"shut", "broken"}
    <3>1. CASE drain
      <4>1. Head(in).word = "event"
        BY <3>1
      <4>2. q = Amid(p.rev, p.n + 1)
        BY <4>1, <2>2, <2>3, EmitsEvent
      <4>3. p.n + 1 > 0
        BY SizeFacts DEF Spots
      <4> QED
        BY <4>2, <4>3, <3>1, SpotFacts
    <3>2. CASE ~drain /\ Head(in).word = "close-edit"
      <4>1. q = Shut(p.rev)
        BY <3>2, <2>2, <2>3, EmitsClose
      <4> QED
        BY <4>1, <3>2, SpotFacts
    <3>3. CASE ~drain /\ Head(in).word = "abort-edit"
      <4>1. q = Plain("broken")
        BY <3>3, <2>2, <2>3, EmitsAbort
      <4> QED
        BY <4>1, <3>3, SpotFacts
    <3> QED
      BY <3>1, <3>2, <3>3, <2>1
  <2>5. Firm(q) /\ Firm(z)
    BY <2>1, <2>2, <2>4, <1>1 DEF Firm
  <2>6. Stands(call', Len(delivered'), q, ~up /\ Tail(in) = <<>>)
    <3>1. Stands(call', Len(delivered'), q, FALSE)
      BY <2>4, <2>5, <1>3 DEF Stands
    <3> QED
      BY <3>1, StandsGone DEF IInv, TypeOK
  <2>7. up => Meets(call', z, srv, out)
    <3> SUFFICES ASSUME up PROVE Meets(call', z, srv, out)
      OBVIOUS
    <3>1. Waits(call.kind, z, srv, out)
      BY <2>2, <1>1 DEF Meets
    <3>2. Hears(z, srv, out, FailureParts)
      BY <3>1, <2>5, <1>1, WaitsFirm DEF IInv, TypeOK
    <3> QED
      BY <3>2, <1>3 DEF Meets, Refusing
  <2>8. Joined(call', srv, out, Tail(in), up, Len(delivered'))
    BY <2>2, <2>6, <2>7, <1>1, <1>3
  <2> QED
    BY <2>8, <1>2 DEF PathInv
<1> QED
  BY <1>4, <1>5, <1>6, <1>7 DEF IInv


\* Where the n-th event of a revision is among all.
LEMMA EventPlace ==
    ASSUME NEW q \in Nat, NEW r \in Nat, r < NEvents
    PROVE  /\ (q * NEvents + r) \div NEvents = q /\ (q * NEvents + r) % NEvents = r
<1>1. NEvents \in Nat \ {0} /\ r \in 0 .. NEvents - 1
  BY SizeFacts
<1>2. \A N \in Nat \ {0} : \A a \in Nat : \A b \in 0 .. N - 1 : (a * N + b) \div N = a
  BY SMT
<1>3. \A N \in Nat \ {0} : \A a \in Nat : \A b \in 0 .. N - 1 : (a * N + b) % N = b
  BY SMT
<1> QED
  BY <1>1, <1>2, <1>3

\* An event that is accepted is the next one.
LEMMA AcceptStep ==
    ASSUME IInv, call.pc = "drive", in # <<>>, Head(in).word = "event",
           delivered' = Append(delivered, Head(in)), in' = Tail(in),
           UNCHANGED <<call, kept, up, out, srv>>
    PROVE  IInv'
<1>1. /\ Guided /\ call.pc # "idle" /\ call.pc \notin Refusing /\ ~Told(call) /\ out = <<>>
      /\ call.kind \in Methods
  BY AtDrive
<1>2. Told(call) \in BOOLEAN
  BY DEF Told
<1>3. PICK p \in Spots, q \in Spots, z \in Spots :
         /\ Stands(call, Len(delivered), p, FALSE)
         /\ Emits(call.kind, Told(call), p, Head(in), q)
         /\ up => Meets(call, z, srv, out)
         /\ \A c2, n2 :
               /\ c2.kind = call.kind /\ call.pc # "response" /\ (Told(call) => Told(c2))
               /\ Stands(c2, n2, q, ~up /\ Tail(in) = <<>>)
               /\ up => Meets(c2, z, srv, out)
               => Joined(c2, srv, out, Tail(in), up, n2)
  BY <1>1, ReadStep
<1>4. /\ p.n < NEvents /\ Head(in) = Event(p.rev, p.n + 1) /\ q = Amid(p.rev, p.n + 1)
  BY <1>2, <1>3, EmitsEvent
<1>5. /\ call.rev <= call.kind.revs /\ p = Amid(call.rev, p.n)
      /\ Len(delivered) = (call.rev - 1) * NEvents + p.n
  BY <1>3 DEF Stands
<1>6. p.rev = call.rev /\ p.rev \in 1 .. NRevs /\ p.n \in 0 .. NEvents
  BY <1>5, SpotFacts DEF Spots
<1>7. Head(in) = Event(call.rev, p.n + 1) /\ q = Amid(call.rev, p.n + 1) /\ q.n = p.n + 1
  BY <1>4, <1>6, SpotFacts
<1>8. Head(in) \in Events
  <2>1. p.n + 1 \in 1 .. NEvents
    BY <1>4, <1>6, SizeFacts
  <2> QED
    BY <2>1, <1>6, <1>7 DEF Event, Events
<1> DEFINE m == Len(delivered)
<1>9. /\ delivered \in Seq(Events) /\ m \in Nat /\ DOMAIN delivered = 1 .. m
      /\ delivered' \in Seq(Events) /\ Len(delivered') = m + 1 /\ DOMAIN delivered' = 1 .. m + 1
      /\ delivered'[m + 1] = Head(in) /\ \A j \in 1 .. m : delivered'[j] = delivered[j]
  <2>1. delivered \in Seq(Events)
    BY DEF IInv, TypeOK
  <2> QED
    BY <2>1, <1>8, AppendProperties
<1>10. TypeOK'
  BY <1>9, ReadType DEF IInv, TypeOK
<1>11. LinkInv' /\ CallInv'
  BY DEF IInv, LinkInv, CallInv, Ranges
<1>12. RestInv'
  BY <1>1 DEF RestInv
<1>13. InOrder'
  <2> SUFFICES ASSUME NEW i \in 1 .. m + 1
               PROVE  delivered'[i] = Event(((i - 1) \div NEvents) + 1, ((i - 1) % NEvents) + 1)
    BY <1>9 DEF InOrder
  <2>1. CASE i # m + 1
    <3>1. i \in 1 .. m
      BY <2>1, <1>9
    <3> QED
      BY <3>1, <1>9 DEF IInv, InOrder
  <2>2. CASE i = m + 1
    <3>1. call.rev - 1 \in Nat /\ p.n \in Nat /\ (call.rev - 1) + 1 = call.rev
      BY <1>6, SizeFacts
    <3>2. m \div NEvents = call.rev - 1 /\ m % NEvents = p.n
      BY <3>1, <1>4, <1>5, EventPlace
    <3>3. i - 1 = m
      BY <2>2, <1>9
    <3> QED
      BY <3>1, <3>2, <3>3, <2>2, <1>7, <1>9
  <2> QED
    BY <2>1, <2>2
<1>14. OkIsComplete'
  BY <1>1 DEF IInv, CallInv, OkIsComplete
<1>15. PathInv'
  <2>1. Len(delivered') = (call.rev - 1) * NEvents + (p.n + 1)
    <3>1. (call.rev - 1) * NEvents \in Int /\ p.n \in Int
      BY <1>6, SizeFacts
    <3> QED
      BY <3>1, <1>5, <1>9
  <2>2. Stands(call', Len(delivered'), q, FALSE)
    BY <2>1, <1>5, <1>7 DEF Stands
  <2>3. Stands(call', Len(delivered'), q, ~up /\ Tail(in) = <<>>)
    BY <2>2, StandsGone DEF IInv, TypeOK
  <2>4. up => Meets(call', z, srv, out)
    BY <1>3
  <2>5. Joined(call', srv, out, Tail(in), up, Len(delivered'))
    BY <2>3, <2>4, <1>1, <1>3
  <2> QED
    BY <2>5 DEF PathInv
<1>16. TurnInv'
  BY <1>1 DEF TurnInv
<1> QED
  BY <1>10, <1>11, <1>12, <1>13, <1>14, <1>15, <1>16 DEF IInv

LEMMA ReadEventStep ==
    ASSUME IInv, ReadEvent
    PROVE  IInv'
<1>1. call.pc = "drive" /\ in # <<>> /\ Head(in).word = "event"
  BY DEF ReadEvent
<1>2. CASE /\ delivered' = Append(delivered, Head(in)) /\ in' = Tail(in)
           /\ UNCHANGED <<call, kept, up, out, srv>>
  BY <1>1, <1>2, AcceptStep
<1>3. CASE \E err \in EventErrors : Refuse(err, TRUE)
  <2>1. PICK err \in EventErrors : Refuse(err, TRUE)
    BY <1>3
  <2>2. err \in {"protocol", "other", "finish"} /\ err # "finish"
    BY DEF EventErrors
  <2> QED
    BY <2>1, <2>2, <1>1, RefuseStep
<1> QED
  BY <1>2, <1>3 DEF ReadEvent

LEMMA ReadFailureStep ==
    ASSUME IInv, ReadFailure
    PROVE  IInv'
<1>1. call.pc = "drive" /\ in # <<>> /\ Head(in).word = "fail" /\ Leave("server", Tail(in))
  BY DEF ReadFailure
<1>2. Guided /\ call.pc \notin Refusing /\ ~Told(call)
  BY <1>1, AtDrive
<1>3. Told(call) \in BOOLEAN
  BY DEF Told
<1>4. PICK p \in Spots, q \in Spots, z \in Spots :
         /\ Stands(call, Len(delivered), p, FALSE)
         /\ Emits(call.kind, Told(call), p, Head(in), q)
         /\ up => Meets(call, z, srv, out)
         /\ Silent(call.kind, Told(call), q) => Tail(in) = <<>> /\ z = q
  BY <1>1, <1>2, ReadStep
<1>5. p.at = "amid"
  <2>1. p = Amid(call.rev, p.n)
    BY <1>1, <1>4 DEF Stands
  <2> QED
    BY <2>1, SpotFacts
<1>6. q.at = "done"
  <2>1. q = Plain("done")
    BY <1>1, <1>3, <1>4, <1>5, EmitsFail
  <2> QED
    BY <2>1, SpotFacts
<1> QED
  BY <1>1, <1>2, <1>4, <1>6, LeaveAnswered

LEMMA ReadCloseStep ==
    ASSUME IInv, ReadClose
    PROVE  IInv'
<1>1. call.pc = "drive" /\ in # <<>> /\ Head(in).word \in {"close-edit", "abort-edit"}
  BY DEF ReadClose
<1>2. CASE Refuse("other", FALSE)
  BY <1>1, <1>2, RefuseStep
<1>3. CASE GoOn("ack", Tail(in))
  <2>1. /\ Guided /\ call.pc # "idle" /\ call.pc \notin Refusing /\ ~Told(call) /\ out = <<>>
        /\ call.report # "badpath" /\ call.err = "none" /\ call.kind \in Methods
    BY <1>1, AtDrive
  <2>2. Told(call) \in BOOLEAN
    BY DEF Told
  <2>3. PICK p \in Spots, q \in Spots, z \in Spots :
           /\ Stands(call, Len(delivered), p, FALSE)
           /\ Emits(call.kind, Told(call), p, Head(in), q)
           /\ up => Meets(call, z, srv, out)
           /\ \A c2, n2 :
                 /\ c2.kind = call.kind /\ call.pc # "response" /\ (Told(call) => Told(c2))
                 /\ Stands(c2, n2, q, ~up /\ Tail(in) = <<>>)
                 /\ up => Meets(c2, z, srv, out)
                 => Joined(c2, srv, out, Tail(in), up, n2)
    BY <1>1, <2>1, ReadStep
  <2>4. /\ call.rev <= call.kind.revs /\ p = Amid(call.rev, p.n)
        /\ Len(delivered) = (call.rev - 1) * NEvents + p.n
    BY <1>1, <2>3 DEF Stands
  <2>5. p.rev = call.rev
    BY <2>4, SpotFacts
  <2>6. \/ q = Shut(call.rev) /\ p.n = NEvents
        \/ q.at = "broken"
    <3>1. CASE Head(in).word = "close-edit"
      BY <3>1, <2>2, <2>3, <2>5, EmitsClose
    <3>2. CASE Head(in).word = "abort-edit"
      <4>1. q = Plain("broken")
        BY <3>2, <2>2, <2>3, EmitsAbort
      <4> QED
        BY <4>1, SpotFacts
    <3> QED
      BY <3>1, <3>2, <1>1
  <2>7. /\ TypeOK' /\ LinkInv' /\ RestInv' /\ InOrder' /\ OkIsComplete'
        /\ call'.pc = "ack"
        /\ \A f \in {"kind", "report", "rev", "err", "drain", "left", "done", "result"} :
              call'[f] = call[f]
    BY <1>1, <1>3, GoOnSafe
  <2>8. /\ call'.kind = call.kind /\ call'.report = call.report /\ call'.rev = call.rev
        /\ call'.err = call.err /\ call'.result = call.result
    BY <2>7
  <2>9. in' = Tail(in) /\ out' = out /\ up' = up /\ srv' = srv /\ delivered' = delivered
    BY <1>3 DEF GoOn
  <2>10. CallInv'
    BY <1>1, <2>1, <2>7, <2>8 DEF IInv, CallInv, Refusing
  <2>11. PathInv'
    <3>1. p.n = NEvents => Len(delivered') = call.rev * NEvents
      <4>1. call.rev \in Int /\ NEvents \in Int
        BY SizeFacts DEF IInv, TypeOK, CallType
      <4>2. \A a, b \in Int : (a - 1) * b + b = a * b
        BY SMT
      <4> QED
        BY <4>1, <4>2, <2>4, <2>9
    <3>2. Stands(call', Len(delivered'), q, FALSE)
      BY <3>1, <2>4, <2>6, <2>7, <2>8 DEF Stands
    <3>3. Stands(call', Len(delivered'), q, ~up /\ Tail(in) = <<>>)
      BY <3>2, StandsGone DEF IInv, TypeOK
    <3>4. up => Meets(call', z, srv, out)
      BY <2>1, <2>3, <2>7, <2>8 DEF Meets, Refusing
    <3>5. Joined(call', srv, out, Tail(in), up, Len(delivered'))
      BY <3>3, <3>4, <1>1, <2>1, <2>3, <2>8
    <3> QED
      BY <3>5, <2>9 DEF PathInv
  <2>12. TurnInv'
    BY <2>1, <2>7, <2>9 DEF TurnInv
  <2> QED
    BY <2>7, <2>10, <2>11, <2>12 DEF IInv
<1> QED
  BY <1>2, <1>3 DEF ReadClose


\* At the end of a drive that waits for its answer there is nothing to read.
LEMMA AtAck ==
    ASSUME IInv, call.pc = "ack"
    PROVE  /\ Guided /\ in = <<>> /\ out = <<>> /\ call.err = "none" /\ call.report # "badpath"
           /\ call.kind \in Methods
<1>1. call.pc \notin Refusing /\ call.pc # "idle"
  BY DEF Refusing
<1>2. call.err = "none" /\ call.report # "badpath" /\ Guided
  BY <1>1 DEF IInv, CallInv, Guided
<1>3. ~Told(call) /\ Told(call) \in BOOLEAN
  BY <1>1 DEF Told
<1>4. in = <<>>
  <2> SUFFICES ASSUME in # <<>> PROVE FALSE
    OBVIOUS
  <2>1. PICK p \in Spots, q \in Spots, z \in Spots :
           /\ Stands(call, Len(delivered), p, FALSE)
           /\ Emits(call.kind, Told(call), p, Head(in), q)
    BY <1>2, ReadStep
  <2>2. p.at \in {"shut", "broken"}
    BY <2>1, SpotFacts DEF Stands
  <2>3. Silent(call.kind, Told(call), p)
    BY <2>2, <1>3, SilentSpots
  <2> QED
    BY <2>1, <2>3 DEF Silent
<1>5. out = <<>>
  BY <1>1, <1>2 DEF IInv, TurnInv
<1>6. call.kind \in Methods
  BY DEF IInv, TypeOK, CallType
<1> QED
  BY <1>2, <1>4, <1>5, <1>6

\* Where the client is after a drive.
LEMMA AfterDriveFacts ==
    ASSUME IInv, call.pc \in {"drive", "ack"}, call.rev <= call.kind.revs
    PROVE  /\ AfterDrive \in {"revprops", "response"}
           /\ AfterDrive = "revprops" => Ranges
           /\ call.rev \in 1 .. NRevs /\ call.rev + 1 \in 1 .. NRevs + 1
           /\ AfterDrive = "revprops" =>
                 call.rev + 1 <= call.kind.revs /\ After(call.kind, call.rev) = Before(call.rev + 1)
           /\ AfterDrive = "response" =>
                 call.rev = call.kind.revs /\ After(call.kind, call.rev) = Plain("finished")
<1>1. call.kind \in Methods /\ call.rev \in 1 .. NRevs + 1
  BY DEF IInv, TypeOK, CallType
<1>2. call.kind.revs \in 1 .. NRevs /\ (call.kind # ReplayRange => call.kind.revs = 1)
  BY <1>1, MethodFacts
<1>3. call.rev \in 1 .. NRevs /\ call.rev + 1 \in 1 .. NRevs + 1
  BY <1>1, <1>2, SizeFacts
<1>4. CASE call.rev < call.kind.revs
  <2>1. AfterDrive = "revprops" /\ call.rev + 1 <= call.kind.revs
        /\ After(call.kind, call.rev) = Before(call.rev + 1) /\ call.kind.revs # 1
    BY <1>4, <1>2, <1>3 DEF AfterDrive, After
  <2> QED
    BY <2>1, <1>2, <1>3 DEF Ranges
<1>5. CASE ~(call.rev < call.kind.revs)
  <2>1. call.rev = call.kind.revs
    BY <1>2, <1>3, <1>5
  <2>2. AfterDrive = "response" /\ After(call.kind, call.rev) = Plain("finished")
    BY <1>5 DEF AfterDrive, After
  <2> QED
    BY <2>1, <2>2, <1>3
<1> QED
  BY <1>4, <1>5

LEMMA WriteAckStep ==
    ASSUME IInv, WriteAck
    PROVE  IInv'
<1>1. call.pc = "ack" /\ call.pc # "idle" /\ call.pc \notin Refusing
  BY DEF WriteAck, Refusing
<1>2. /\ Guided /\ in = <<>> /\ out = <<>> /\ call.err = "none" /\ call.report # "badpath"
      /\ call.kind \in Methods
  BY <1>1, AtAck
<1>3. CASE ~up /\ Leave("eof", in)
  BY <1>1, <1>3, LeaveBroken
<1>4. CASE /\ up /\ Len(out) < ToServer /\ out' = Append(out, "success")
           /\ call' = [call EXCEPT !.pc = AfterDrive, !.rev = @ + 1]
           /\ UNCHANGED <<kept, up, in, srv, delivered>>
  <2>1. PICK p \in Spots : Stands(call, Len(delivered), p, ~up) /\ Meets(call, p, srv, out)
    BY <1>2, <1>4, BareStep
  <2>2. /\ call.rev <= call.kind.revs
        /\ \/ p = Shut(call.rev) /\ Len(delivered) = call.rev * NEvents
           \/ p.at = "broken"
    BY <2>1, <1>1 DEF Stands
  <2>3. /\ AfterDrive \in {"revprops", "response"} /\ (AfterDrive = "revprops" => Ranges)
        /\ call.rev \in 1 .. NRevs /\ call.rev + 1 \in 1 .. NRevs + 1
        /\ AfterDrive = "revprops" =>
              call.rev + 1 <= call.kind.revs /\ After(call.kind, call.rev) = Before(call.rev + 1)
        /\ AfterDrive = "response" =>
              call.rev = call.kind.revs /\ After(call.kind, call.rev) = Plain("finished")
    BY <1>1, <2>2, AfterDriveFacts
  <2>4. /\ call' \in CallType /\ call'.pc = AfterDrive /\ call'.rev = call.rev + 1
        /\ call'.kind = call.kind /\ call'.report = call.report /\ call'.err = call.err
        /\ call'.result = call.result
    <3>1. call \in CallType /\ call' = [call EXCEPT !.pc = AfterDrive, !.rev = call.rev + 1]
      BY <1>4 DEF IInv, TypeOK
    <3> QED
      BY <3>1, <2>3 DEF CallType, Reading
  <2>5. out' = <<"success">> /\ out' \in Seq(Tokens) /\ Len(out') <= ToServer
    <3>1. out' = <<"success">>
      BY <1>2, <1>4
    <3>2. Len(<<"success">>) = 1 /\ <<"success">> \in Seq(Tokens)
      BY DEF Tokens
    <3> QED
      BY <3>1, <3>2, SizeFacts
  <2>6. TypeOK' /\ LinkInv' /\ RestInv' /\ InOrder' /\ OkIsComplete'
    <3>1. in' \in Seq(Items) /\ Len(in') <= ToClient
      BY <1>4 DEF IInv, TypeOK
    <3>2. call'.pc \notin {"idle", "start"}
      BY <2>3, <2>4
    <3> QED
      BY <3>1, <3>2, <2>4, <2>5, <1>1, <1>4, GoesOn
  <2>7. CallInv'
    <3>1. call'.pc \in {"revprops", "response"} /\ (call'.pc = "revprops" => Ranges)
      BY <2>3, <2>4
    <3> QED
      BY <3>1, <2>4, <1>1, <1>2 DEF IInv, CallInv, Ranges, Refusing
  <2>8. Waits(call.kind, p, srv, out)
    BY <2>1, <1>1 DEF Meets
  <2>9. \A r : After(call.kind, r).at \in {"before", "finished"}
    BY SpotFacts DEF After
  <2>10. CASE p = Shut(call.rev) /\ Len(delivered) = call.rev * NEvents
    <3>1. srv.at = "ack" /\ ~srv.failed /\ srv.rev = call.rev /\ srv.nak = 0
      <4>1. p.at = "shut" /\ p.rev = call.rev /\ out # <<"success">>
        BY <2>10, <1>2, SpotFacts
      <4> QED
        BY <4>1, <2>8, <2>9, SpotFacts DEF Waits
    <3> DEFINE q == After(call.kind, call.rev)
    <3>2. q \in Spots /\ q.at \in {"before", "finished"}
      <4>1. call.rev < call.kind.revs => call.rev + 1 \in 1 .. NRevs
        BY <1>2, <2>3, MethodFacts, SizeFacts
      <4> QED
        BY <4>1, <2>9, SpotFacts DEF After, SpotNames
    <3>3. Len(delivered') = call.rev * NEvents /\ (call.rev + 1) - 1 = call.rev
      BY <2>10, <1>4, <2>3
    <3>4. Stands(call', Len(delivered'), q, ~up')
      BY <3>3, <2>3, <2>4, SpotFacts DEF Stands
    <3>5. Meets(call', q, srv', out')
      <4>1. call'.pc \notin Refusing
        BY <2>3, <2>4 DEF Refusing
      <4>2. Waits(call'.kind, q, srv', out')
        BY <3>1, <2>4, <2>5, <1>4 DEF Waits
      <4> QED
        BY <4>1, <4>2 DEF Meets
    <3>6. Astray(call', q, srv')
      <4>1. call.kind.reports => AfterDrive = "response"
        BY <2>3, <1>2, MethodFacts DEF Ranges
      <4> QED
        BY <4>1, <2>4 DEF Astray
    <3>7. PathInv'
      <4>1. in' = <<>> /\ up' \in BOOLEAN
        BY <1>2, <1>4 DEF IInv, TypeOK
      <4> HIDE DEF q
      <4> QED
        BY <4>1, <3>2, <3>4, <3>5, <3>6, BareInv
    <3>8. TurnInv'
      BY <3>1, <2>3, <2>4, <2>5, <1>2, <1>4 DEF TurnInv
    <3> QED
      BY <3>7, <3>8, <2>6, <2>7 DEF IInv
  <2>11. CASE p.at = "broken"
    <3>1. srv.at = "ack" /\ srv.failed /\ srv.nak = 0
      <4>1. out # <<"success">>
        BY <1>2
      <4> QED
        BY <4>1, <2>8, <2>9, <2>11, SpotFacts DEF Waits
    <3> DEFINE q == Plain("failing")
    <3>2. q \in Spots /\ q.at = "failing"
      BY SpotFacts DEF SpotNames
    <3> HIDE DEF q
    <3>3. Stands(call', Len(delivered'), q, ~up')
      BY <3>2, <2>3, <2>4 DEF Stands
    <3>4. Meets(call', q, srv', out')
      <4>1. call'.pc \notin Refusing
        BY <2>3, <2>4 DEF Refusing
      <4>2. Waits(call'.kind, q, srv', out')
        BY <3>1, <3>2, <2>4, <2>5, <1>4 DEF Waits
      <4> QED
        BY <4>1, <4>2 DEF Meets
    <3>5. Astray(call', q, srv')
      BY <3>2 DEF Astray
    <3>6. PathInv'
      <4>1. in' = <<>> /\ up' \in BOOLEAN
        BY <1>2, <1>4 DEF IInv, TypeOK
      <4> QED
        BY <4>1, <3>2, <3>3, <3>4, <3>5, BareInv
    <3>7. TurnInv'
      BY <3>1, <2>3, <2>4, <2>5, <1>2, <1>4 DEF TurnInv
    <3> QED
      BY <3>6, <3>7, <2>6, <2>7 DEF IInv
  <2> QED
    BY <2>2, <2>10, <2>11
<1> QED
  BY <1>3, <1>4 DEF WriteAck

LEMMA ReadFinishReplayStep ==
    ASSUME IInv, ReadFinishReplay
    PROVE  IInv'
<1>1. call.pc = "drive" /\ in # <<>> /\ Head(in).word = "finish-replay"
  BY DEF ReadFinishReplay
<1>2. /\ Guided /\ call.pc # "idle" /\ call.pc \notin Refusing /\ ~Told(call) /\ out = <<>>
      /\ call.report # "badpath" /\ call.err = "none" /\ call.kind \in Methods
  BY <1>1, AtDrive
<1>3. CASE Leave("protocol", Tail(in))
  BY <1>1, <1>2, <1>3, LeaveBroken
<1>4. CASE ~call.kind.reports /\ Refuse("finish", FALSE)
  BY <1>1, <1>4, RefuseStep
<1>5. CASE /\ ~call.kind.reports /\ call' = [call EXCEPT !.pc = AfterDrive, !.rev = @ + 1]
           /\ in' = Tail(in) /\ UNCHANGED <<kept, up, out, srv, delivered>>
  <2>1. PICK p \in Spots, q \in Spots, z \in Spots :
           /\ Stands(call, Len(delivered), p, FALSE)
           /\ Emits(call.kind, Told(call), p, Head(in), q)
           /\ up => Meets(call, z, srv, out)
           /\ \A c2, n2 :
                 /\ c2.kind = call.kind /\ call.pc # "response" /\ (Told(call) => Told(c2))
                 /\ Stands(c2, n2, q, ~up /\ Tail(in) = <<>>)
                 /\ up => Meets(c2, z, srv, out)
                 => Joined(c2, srv, out, Tail(in), up, n2)
    BY <1>1, <1>2, ReadStep
  <2>2. /\ call.rev <= call.kind.revs /\ p = Amid(call.rev, p.n)
        /\ Len(delivered) = (call.rev - 1) * NEvents + p.n
    BY <1>1, <2>1 DEF Stands
  <2>3. p.rev = call.rev
    BY <2>2, SpotFacts
  <2>4. p.n = NEvents /\ q = After(call.kind, call.rev)
    <3>1. Told(call) \in BOOLEAN
      BY DEF Told
    <3> QED
      BY <3>1, <1>1, <2>1, <2>3, EmitsFinish
  <2>5. /\ AfterDrive \in {"revprops", "response"} /\ (AfterDrive = "revprops" => Ranges)
        /\ call.rev \in 1 .. NRevs /\ call.rev + 1 \in 1 .. NRevs + 1
        /\ AfterDrive = "revprops" =>
              call.rev + 1 <= call.kind.revs /\ After(call.kind, call.rev) = Before(call.rev + 1)
        /\ AfterDrive = "response" =>
              call.rev = call.kind.revs /\ After(call.kind, call.rev) = Plain("finished")
    BY <1>1, <2>2, AfterDriveFacts
  <2>6. /\ call' \in CallType /\ call'.pc = AfterDrive /\ call'.rev = call.rev + 1
        /\ call'.kind = call.kind /\ call'.report = call.report /\ call'.err = call.err
        /\ call'.result = call.result
    <3>1. call \in CallType /\ call' = [call EXCEPT !.pc = AfterDrive, !.rev = call.rev + 1]
      BY <1>5 DEF IInv, TypeOK
    <3> QED
      BY <3>1, <2>5 DEF CallType, Reading
  <2>7. TypeOK' /\ LinkInv' /\ RestInv' /\ InOrder' /\ OkIsComplete'
    <3>1. in' \in Seq(Items) /\ Len(in') <= ToClient /\ out' \in Seq(Tokens) /\ Len(out') <= ToServer
      BY <1>1, <1>5, ReadType DEF IInv, TypeOK
    <3>2. call'.pc \notin {"idle", "start"}
      BY <2>5, <2>6
    <3> QED
      BY <3>1, <3>2, <2>6, <1>2, <1>5, GoesOn
  <2>8. CallInv'
    <3>1. call'.pc \in {"revprops", "response"} /\ (call'.pc = "revprops" => Ranges)
      BY <2>5, <2>6
    <3> QED
      BY <3>1, <2>6, <1>1, <1>2 DEF IInv, CallInv, Ranges, Refusing
  <2>9. PathInv'
    <3>1. Len(delivered') = call.rev * NEvents /\ (call.rev + 1) - 1 = call.rev
      <4>1. \A a, b \in Int : (a - 1) * b + b = a * b
        BY SMT
      <4>2. call.rev \in Int /\ NEvents \in Int
        BY <2>5, SizeFacts
      <4>3. (call.rev - 1) * NEvents + NEvents = call.rev * NEvents
        BY <4>1, <4>2
      <4>4. (call.rev + 1) - 1 = call.rev
        BY <4>2
      <4> QED
        BY <4>3, <4>4, <2>2, <2>4, <1>5
    <3>2. Stands(call', Len(delivered'), q, FALSE)
      BY <3>1, <2>4, <2>5, <2>6, SpotFacts DEF Stands
    <3>3. Stands(call', Len(delivered'), q, ~up /\ Tail(in) = <<>>)
      BY <3>2, StandsGone DEF IInv, TypeOK
    <3>4. up => Meets(call', z, srv, out)
      BY <1>2, <2>1, <2>5, <2>6 DEF Meets, Refusing
    <3>5. Joined(call', srv, out, Tail(in), up, Len(delivered'))
      BY <3>3, <3>4, <1>1, <1>2, <2>1, <2>6
    <3> QED
      BY <3>5, <1>5 DEF PathInv
  <2>10. TurnInv'
    BY <1>2, <2>5, <2>6, <1>5 DEF TurnInv
  <2> QED
    BY <2>7, <2>8, <2>9, <2>10 DEF IInv
<1> QED
  BY <1>3, <1>4, <1>5 DEF ReadFinishReplay


-----------------------------------------------------------------------------
(* A refusal.                                                              *)

\* One more part of the failure is on its way.
LEMMA HearsMore ==
    ASSUME NEW p, NEW s \in ServerType, NEW o \in Seq(Tokens), NEW left \in Nat, left > 0,
           Hears(p, s, o, left)
    PROVE  Hears(p, s, Append(o, "part"), left - 1)
<1> DEFINE m == Len(o)
           o2 == Append(o, "part")
<1>1. m \in Nat /\ s.nak \in Int /\ Len(o2) = m + 1 /\ DOMAIN o2 = 1 .. m + 1 /\ DOMAIN o = 1 .. m
      /\ o2[m + 1] = "part" /\ \A i \in 1 .. m : o2[i] = o[i]
  <2>1. "part" \in Tokens
    BY DEF Tokens
  <2> QED
    BY <2>1, AppendProperties, SizeFacts DEF ServerType
<1> HIDE DEF m, o2
<1>2. \A i \in DOMAIN o2 : o2[i] = "part"
  BY <1>1 DEF Hears
<1>3. FailureParts \in Nat /\ FailureParts >= 1
  BY SizeFacts
<1>4. /\ m + left = FailureParts => Len(o2) + (left - 1) = FailureParts
      /\ s.nak + m + left = FailureParts => s.nak + Len(o2) + (left - 1) = FailureParts
  BY <1>1, <1>3
<1>5. \/ /\ s.at = "edit" /\ p = Amid(s.rev, s.sent) /\ s.sent > 0
         /\ s.nak = 0 /\ m + left = FailureParts
      \/ s.at = "ack" /\ ~s.failed /\ p = Shut(s.rev) /\ s.nak + m + left = FailureParts
      \/ s.at = "ack" /\ s.failed /\ p.at = "broken" /\ s.nak + m + left = FailureParts
      \/ /\ s.at = "respond" /\ ~s.failed /\ p.at = "finished"
         /\ s.nak = 0 /\ m + left = FailureParts
      \/ s.at = "idle" /\ p.at = "over" /\ s.nak + m + left = FailureParts
  BY DEF Hears, m
<1> QED
  BY <1>2, <1>4, <1>5 DEF Hears, o2

\* A refusal is in progress.
LEMMA AtRefusal ==
    ASSUME IInv, call.pc \in Refusing
    PROVE  /\ call \in CallType /\ call.pc # "idle" /\ call.kind \in Methods
           /\ call.err \in {"protocol", "other", "finish"} /\ call.err \in Results
           /\ call.report # "badpath" /\ call.left \in 0 .. FailureParts
           /\ (Told(call) <=> call.left = 0)
           /\ ~Guided => Ranges \/ call.err = "finish"
           /\ Guided => call.kind.revs = 1 /\ ~Ranges
<1>1. /\ call \in CallType /\ call.pc # "idle" /\ call.kind \in Methods
      /\ call.left \in 0 .. FailureParts
  BY DEF IInv, TypeOK, CallType, Refusing
<1>2. call.err \in {"protocol", "other", "finish"} /\ call.report # "badpath"
  BY DEF IInv, CallInv, Refusing
<1>3. call.err \in Results
  BY <1>2 DEF Results
<1> QED
  BY <1>1, <1>2, <1>3, MethodFacts DEF Told, Guided, Ranges

LEMMA WritePartStep ==
    ASSUME IInv, call.pc = "early", call.left > 0, up, Len(out) < ToServer,
           out' = Append(out, "part"), call' = [call EXCEPT !.left = @ - 1],
           UNCHANGED <<kept, up, in, srv, delivered>>
    PROVE  IInv'
<1>1. call.pc \in Refusing
  BY DEF Refusing
<1>2. /\ call \in CallType /\ call.pc # "idle" /\ call.err \in {"protocol", "other", "finish"}
      /\ call.report # "badpath" /\ call.left \in 0 .. FailureParts
      /\ (Told(call) <=> call.left = 0)
  BY <1>1, AtRefusal
<1>3. /\ call' \in CallType /\ call'.pc = "early" /\ call'.left = call.left - 1
      /\ call'.kind = call.kind /\ call'.report = call.report /\ call'.err = call.err
      /\ call'.result = call.result /\ call'.drain = call.drain /\ call'.done = call.done
  <2>1. call.left - 1 \in 0 .. FailureParts
    BY <1>2, SizeFacts
  <2>2. call' = [call EXCEPT !.left = call.left - 1]
    OBVIOUS
  <2> QED
    BY <2>1, <2>2, <1>2 DEF CallType
<1>4. out' \in Seq(Tokens) /\ Len(out') <= ToServer
  <2>1. out \in Seq(Tokens) /\ "part" \in Tokens
    BY DEF IInv, TypeOK, Tokens
  <2>2. out' \in Seq(Tokens) /\ Len(out') = Len(out) + 1 /\ Len(out) \in Nat
    BY <2>1, AppendProperties
  <2> QED
    BY <2>2, SizeFacts
<1>5. TypeOK' /\ LinkInv' /\ RestInv' /\ InOrder' /\ OkIsComplete'
  <2>1. in' \in Seq(Items) /\ Len(in') <= ToClient
    BY DEF IInv, TypeOK
  <2> QED
    BY <2>1, <1>2, <1>3, <1>4, GoesOn
<1>6. CallInv'
  BY <1>1, <1>2, <1>3 DEF IInv, CallInv, Refusing, Ranges
<1>7. TurnInv'
  BY <1>3 DEF TurnInv, Refusing
<1>8. ASSUME Guided'
      PROVE  PathInv'
  <2>1. Guided
    BY <1>1, <1>2, <1>3, <1>8 DEF Guided, Ranges, Refusing
  <2>2. Joined(call, srv, out, in, up, Len(delivered))
    BY <2>1 DEF IInv, PathInv
  <2>3. ~Told(call)
    BY <1>2
  <2>4. \A p \in Spots : Stands(call, Len(delivered), p, ~up /\ in = <<>>) =>
                            Stands(call', Len(delivered), p, ~up /\ in = <<>>)
    BY <1>3 DEF Stands
  <2>5. \A z \in Spots : up /\ Meets(call, z, srv, out) => Meets(call', z, srv, out')
    <3> SUFFICES ASSUME NEW z \in Spots, Meets(call, z, srv, out)
                 PROVE  Meets(call', z, srv, out')
      OBVIOUS
    <3>1. Hears(z, srv, out, call.left)
      BY <1>1 DEF Meets
    <3>2. srv \in ServerType /\ out \in Seq(Tokens) /\ call.left \in Nat
      BY <1>2, SizeFacts DEF IInv, TypeOK
    <3>3. Hears(z, srv, Append(out, "part"), call.left - 1)
      BY <3>1, <3>2, HearsMore
    <3> QED
      BY <3>3, <1>3 DEF Meets, Refusing
  <2>6. in \in Seq(Items) /\ up \in BOOLEAN
    BY DEF IInv, TypeOK
  <2>7. call.pc # "response"
    OBVIOUS
  <2>8. Joined(call', srv, out', in, up, Len(delivered))
    BY <2>2, <2>3, <2>4, <2>5, <2>6, <2>7, <1>3, JoinedStay
  <2> QED
    BY <2>8 DEF PathInv
<1> QED
  BY <1>5, <1>6, <1>7, <1>8 DEF IInv

\* Reading because there is no room to write: whether the drive was aborted is
\* remembered.
LEMMA ReadForRoomStep ==
    ASSUME IInv, call.pc = "early", call.left > 0, up, in # <<>>,
           call' = [call EXCEPT !.done = SawAbort], in' = Tail(in),
           UNCHANGED <<kept, up, out, srv, delivered>>
    PROVE  IInv'
<1>1. call.pc \in Refusing /\ call.pc # "response"
  BY DEF Refusing
<1>2. /\ call \in CallType /\ call.pc # "idle" /\ call.err \in {"protocol", "other", "finish"}
      /\ call.report # "badpath" /\ call.left \in 0 .. FailureParts
      /\ (Told(call) <=> call.left = 0)
      /\ Guided => call.kind.revs = 1 /\ ~Ranges
  BY <1>1, AtRefusal
<1>3. call.done \in BOOLEAN
  BY <1>2 DEF CallType
<1>4. PICK b \in BOOLEAN : b = SawAbort
  BY DEF SawAbort
<1>5. /\ call' \in CallType /\ call'.pc = "early" /\ call'.left = call.left /\ call'.done = b
      /\ call'.kind = call.kind /\ call'.report = call.report /\ call'.err = call.err
      /\ call'.result = call.result /\ call'.drain = call.drain
  <2>1. call' = [call EXCEPT !.done = b]
    BY <1>4
  <2> QED
    BY <2>1, <1>2 DEF CallType
<1>6. TypeOK' /\ LinkInv' /\ RestInv' /\ InOrder' /\ OkIsComplete'
  <2>1. in' \in Seq(Items) /\ Len(in') <= ToClient /\ out' \in Seq(Tokens) /\ Len(out') <= ToServer
    BY ReadType DEF IInv, TypeOK
  <2> QED
    BY <2>1, <1>2, <1>5, GoesOn
<1>7. CallInv'
  BY <1>1, <1>2, <1>5 DEF IInv, CallInv, Refusing, Ranges
<1>8. TurnInv'
  BY <1>5 DEF TurnInv, Refusing
<1>9. ASSUME Guided'
      PROVE  PathInv'
  <2>1. Guided /\ call.kind.revs = 1
    BY <1>1, <1>2, <1>5, <1>9 DEF Guided, Ranges, Refusing
  <2>2. PICK p \in Spots, q \in Spots, z \in Spots :
           /\ Stands(call, Len(delivered), p, FALSE)
           /\ Emits(call.kind, Told(call), p, Head(in), q)
           /\ up => Meets(call, z, srv, out)
           /\ \A c2, n2 :
                 /\ c2.kind = call.kind /\ call.pc # "response" /\ (Told(call) => Told(c2))
                 /\ Stands(c2, n2, q, ~up /\ Tail(in) = <<>>)
                 /\ up => Meets(c2, z, srv, out)
                 => Joined(c2, srv, out, Tail(in), up, n2)
    BY <2>1, ReadStep
  <2>3. Told(call) = FALSE
    BY <1>2 DEF Told
  <2>4. Emits(call.kind, FALSE, p, Head(in), q)
    BY <2>2, <2>3
  <2>5. ~(p.at \in {"shut", "broken", "over"})
    BY <2>4, SilentSpots DEF Silent
  <2>6. call.drain /\ ~call.done /\ Firm(p)
    BY <2>2, <2>5 DEF Stands
  <2>7. Firm(q)
    BY <2>1, <2>4, <2>6, <1>2, FirmGoesOn DEF CallType
  <2>8. b = (Head(in).word = "abort-edit")
    BY <2>6, <1>4 DEF SawAbort
  <2>9. b => q.at = "broken"
    <3>1. b => q = Plain("broken")
      BY <2>4, <2>8, EmitsAbort
    <3> QED
      BY <3>1, SpotFacts
  <2>10. q.at = "broken" => b
    <3>1. \A r, n : Amid(r, n).at # "broken" /\ Shut(r).at # "broken"
      BY SpotFacts
    <3>2. After(call.kind, p.rev).at # "broken"
      BY SpotFacts DEF After
    <3>3. q.at = "broken" => Head(in) = Item("abort-edit")
      BY <2>4, <2>5, <2>6, <3>1, <3>2, SpotFacts DEF Emits, Firm
    <3> QED
      BY <3>3, <2>8, ItemWords
  <2>11. Stands(call', Len(delivered'), q, FALSE)
    BY <2>6, <2>7, <2>9, <2>10, <1>5 DEF Stands
  <2>12. Stands(call', Len(delivered'), q, ~up /\ Tail(in) = <<>>)
    BY <2>11, StandsGone DEF IInv, TypeOK
  <2>13. up => Meets(call', z, srv, out)
    BY <2>2, <1>1, <1>5 DEF Meets, Refusing
  <2>14. Joined(call', srv, out, Tail(in), up, Len(delivered'))
    BY <2>2, <2>3, <2>12, <2>13, <1>1, <1>5
  <2> QED
    BY <2>14 DEF PathInv
<1> QED
  BY <1>6, <1>7, <1>8, <1>9 DEF IInv

LEMMA WriteFailureStep ==
    ASSUME IInv, WriteFailure
    PROVE  IInv'
<1>1. call.pc = "early" /\ call.left > 0 /\ call.pc # "idle"
  BY DEF WriteFailure
<1>2. CASE ~up /\ Leave("eof", in)
  BY <1>1, <1>2, LeaveBroken
<1>3. CASE /\ up /\ Len(out) < ToServer
           /\ out' = Append(out, "part")
           /\ call' = [call EXCEPT !.left = @ - 1]
           /\ UNCHANGED <<kept, up, in, srv, delivered>>
  BY <1>1, <1>3, WritePartStep
<1>4. CASE /\ up /\ Len(out) = ToServer /\ in # <<>>
           /\ call' = [call EXCEPT !.done = SawAbort]
           /\ in' = Tail(in)
           /\ UNCHANGED <<kept, up, out, srv, delivered>>
  BY <1>1, <1>4, ReadForRoomStep
<1> QED
  BY <1>2, <1>3, <1>4 DEF WriteFailure


\* In a refusal the client goes on without reading.
LEMMA StayRefusing ==
    ASSUME IInv, call.pc \in Refusing, NEW place \in {"drain", "aborted"}, GoOn(place, in),
           \A p \in Spots : Stands(call, Len(delivered), p, ~up /\ in = <<>>) =>
                               Stands(call', Len(delivered), p, ~up /\ in = <<>>)
    PROVE  IInv'
<1>1. /\ call \in CallType /\ call.pc # "idle" /\ call.err \in {"protocol", "other", "finish"}
      /\ call.report # "badpath"
  BY AtRefusal
<1>2. call' = [call EXCEPT !.pc = place] /\ in' = in /\ UNCHANGED <<kept, up, out, srv, delivered>>
  BY DEF GoOn
<1>3. /\ call' \in CallType /\ call'.pc = place /\ call'.left = call.left
      /\ call'.kind = call.kind /\ call'.report = call.report /\ call'.err = call.err
      /\ call'.result = call.result
  BY <1>1, <1>2 DEF CallType, Reading
<1>4. TypeOK' /\ LinkInv' /\ RestInv' /\ InOrder' /\ OkIsComplete'
  <2>1. in' \in Seq(Items) /\ Len(in') <= ToClient /\ out' \in Seq(Tokens) /\ Len(out') <= ToServer
    BY <1>2 DEF IInv, TypeOK
  <2> QED
    BY <2>1, <1>1, <1>2, <1>3, GoesOn
<1>5. CallInv'
  BY <1>1, <1>3 DEF IInv, CallInv, Refusing, Ranges
<1>6. TurnInv'
  BY <1>3 DEF TurnInv, Refusing
<1>7. ASSUME Guided'
      PROVE  PathInv'
  <2>1. Guided
    BY <1>1, <1>3, <1>7 DEF Guided, Ranges, Refusing
  <2>2. Joined(call, srv, out, in, up, Len(delivered))
    BY <2>1 DEF IInv, PathInv
  <2>3. Told(call) => Told(call')
    BY <1>3 DEF Told, Refusing
  <2>4. \A z \in Spots : up /\ Meets(call, z, srv, out) => Meets(call', z, srv, out)
    BY <1>3 DEF Meets, Refusing
  <2>5. in \in Seq(Items) /\ up \in BOOLEAN
    BY DEF IInv, TypeOK
  <2>6. call.pc # "response"
    BY DEF Refusing
  <2>7. Joined(call', srv, out, in, up, Len(delivered))
    BY <2>2, <2>3, <2>4, <2>5, <2>6, <1>3, JoinedStay
  <2> QED
    BY <2>7, <1>2 DEF PathInv
<1> QED
  BY <1>4, <1>5, <1>6, <1>7 DEF IInv

LEMMA FailureWrittenStep ==
    ASSUME IInv, FailureWritten
    PROVE  IInv'
<1>1. call.pc = "early" /\ call.left = 0 /\ call.pc \in Refusing
  BY DEF FailureWritten, Refusing
<1>2. call \in CallType
  BY DEF IInv, TypeOK
<1>3. CASE call.drain /\ ~call.done /\ GoOn("drain", in)
  <2>1. call'.pc = "drain" /\ call'.left = 0
    BY <1>1, <1>2, <1>3 DEF GoOn, CallType
  <2>2. \A p \in Spots : Stands(call, Len(delivered), p, ~up /\ in = <<>>) =>
                            Stands(call', Len(delivered), p, ~up /\ in = <<>>)
    BY <1>1, <1>3, <2>1 DEF Stands
  <2> QED
    BY <1>1, <1>3, <2>2, StayRefusing
<1>4. CASE ~(call.drain /\ ~call.done) /\ GoOn("aborted", in)
  <2>1. call'.pc = "aborted" /\ call'.left = 0
    BY <1>1, <1>2, <1>4 DEF GoOn, CallType
  <2>2. \A p \in Spots : Stands(call, Len(delivered), p, ~up /\ in = <<>>) =>
                            Stands(call', Len(delivered), p, ~up /\ in = <<>>)
    BY <1>1, <1>4, <2>1 DEF Stands
  <2> QED
    BY <1>1, <1>4, <2>2, StayRefusing
<1> QED
  BY <1>3, <1>4 DEF FailureWritten

\* While it drains the client reads on.
LEMMA DrainReadStep ==
    ASSUME IInv, call.pc = "drain", in # <<>>, NEW place \in {"drain", "aborted"},
           GoOn(place, Tail(in)),
           place = "aborted" <=> Head(in).word \in {"abort-edit", "success"}
    PROVE  IInv'
<1>1. call.pc \in Refusing /\ call.pc # "response"
  BY DEF Refusing
<1>2. /\ call \in CallType /\ call.pc # "idle" /\ call.err \in {"protocol", "other", "finish"}
      /\ call.report # "badpath" /\ (Guided => call.kind.revs = 1 /\ ~Ranges)
  BY <1>1, AtRefusal
<1>3. /\ TypeOK' /\ LinkInv' /\ RestInv' /\ InOrder' /\ OkIsComplete'
      /\ call'.pc = place
      /\ \A f \in {"kind", "report", "rev", "err", "drain", "left", "done", "result"} :
            call'[f] = call[f]
  BY <1>2, GoOnSafe
<1>4. /\ call'.kind = call.kind /\ call'.report = call.report /\ call'.left = call.left
      /\ call'.err = call.err /\ call'.result = call.result
  BY <1>3
<1>5. in' = Tail(in) /\ out' = out /\ up' = up /\ srv' = srv /\ delivered' = delivered
  BY DEF GoOn
<1>6. CallInv'
  BY <1>1, <1>2, <1>3, <1>4 DEF IInv, CallInv, Refusing, Ranges
<1>7. TurnInv'
  BY <1>3 DEF TurnInv, Refusing
<1>8. ASSUME Guided'
      PROVE  PathInv'
  <2>1. Guided /\ call.kind.revs = 1
    BY <1>1, <1>2, <1>3, <1>4, <1>8 DEF Guided, Ranges, Refusing
  <2>2. PICK p \in Spots, q \in Spots, z \in Spots :
           /\ Stands(call, Len(delivered), p, FALSE)
           /\ Emits(call.kind, Told(call), p, Head(in), q)
           /\ up => Meets(call, z, srv, out)
           /\ \A c2, n2 :
                 /\ c2.kind = call.kind /\ call.pc # "response" /\ (Told(call) => Told(c2))
                 /\ Stands(c2, n2, q, ~up /\ Tail(in) = <<>>)
                 /\ up => Meets(c2, z, srv, out)
                 => Joined(c2, srv, out, Tail(in), up, n2)
    BY <2>1, ReadStep
  <2>3. Told(call) \in BOOLEAN
    BY DEF Told
  <2>4. /\ call.left = 0
        /\ p.at \in {"denied", "shut", "finished", "over"} \/ (p.at = "amid" /\ p.n > 0)
    BY <2>2 DEF Stands, Firm
  <2>5. p.rev \in Nat /\ p.rev >= 1 /\ p.n \in Nat
    BY SizeFacts DEF Spots
  <2>6. Head(in).word \in Words
    BY ReadType DEF Items
  <2>7. Stands(call', Len(delivered'), q, FALSE)
    <3>1. CASE Head(in).word = "abort-edit"
      <4>1. q = Plain("broken")
        BY <3>1, <2>2, <2>3, EmitsAbort
      <4>2. q.at = "broken" /\ place = "aborted"
        BY <4>1, <3>1, SpotFacts
      <4> QED
        BY <4>2, <2>4, <1>3, <1>4 DEF Stands
    <3>2. CASE Head(in).word = "success"
      <4>1. q = Plain("over") \/ q = Plain("done")
        BY <3>2, <2>2, <2>3, EmitsSuccess
      <4>2. q.at \in {"over", "done"} /\ place = "aborted"
        BY <4>1, <3>2, SpotFacts
      <4> QED
        BY <4>2, <2>4, <1>3, <1>4 DEF Stands
    <3>3. CASE Head(in).word \notin {"abort-edit", "success"}
      <4>1. q.at = "denied" \/ (Firm(q) /\ q.at # "broken")
        <5>1. CASE Head(in).word = "event"
          <6>1. q = Amid(p.rev, p.n + 1) /\ p.n + 1 > 0
            BY <5>1, <2>2, <2>3, <2>5, EmitsEvent
          <6> QED
            BY <6>1, SpotFacts DEF Firm
        <5>2. CASE Head(in).word = "close-edit"
          <6>1. q = Shut(p.rev)
            BY <5>2, <2>2, <2>3, EmitsClose
          <6> QED
            BY <6>1, SpotFacts DEF Firm
        <5>3. CASE Head(in).word = "finish-replay"
          <6>1. q = After(call.kind, p.rev)
            BY <5>3, <2>2, <2>3, EmitsFinish
          <6>2. q = Plain("finished")
            BY <6>1, <2>1, <2>5 DEF After
          <6> QED
            BY <6>2, SpotFacts DEF Firm
        <5>4. CASE Head(in).word = "fail"
          <6>1. q = Plain("denied")
            BY <5>4, <2>2, <2>3, <2>4, EmitsFail
          <6> QED
            BY <6>1, SpotFacts
        <5>5. CASE Head(in).word = "auth"
          <6>1. p.at = "calling" \/ p.at = "reporting"
            BY <5>5, <2>2, <2>3, EmitsAuth
          <6> QED
            BY <6>1, <2>4
        <5>6. CASE Head(in).word = "revprops"
          <6>1. p.at = "before"
            BY <5>6, <2>2, <2>3, EmitsRevProps
          <6> QED
            BY <6>1, <2>4
        <5> QED
          BY <5>1, <5>2, <5>3, <5>4, <5>5, <5>6, <3>3, <2>6 DEF Words
      <4>2. place = "drain"
        BY <3>3
      <4> QED
        BY <4>1, <4>2, <2>4, <1>3, <1>4 DEF Stands
    <3> QED
      BY <3>1, <3>2, <3>3
  <2>8. Stands(call', Len(delivered'), q, ~up /\ Tail(in) = <<>>)
    BY <2>7, StandsGone DEF IInv, TypeOK
  <2>9. up => Meets(call', z, srv, out)
    BY <2>2, <1>1, <1>3, <1>4 DEF Meets, Refusing
  <2>10. Told(call) => Told(call')
    BY <1>3, <1>4 DEF Told, Refusing
  <2>11. Joined(call', srv, out, Tail(in), up, Len(delivered'))
    BY <2>2, <2>8, <2>9, <2>10, <1>1, <1>4
  <2> QED
    BY <2>11, <1>5 DEF PathInv
<1> QED
  BY <1>3, <1>6, <1>7, <1>8 DEF IInv

LEMMA DrainStep ==
    ASSUME IInv, Drain
    PROVE  IInv'
<1>1. call.pc = "drain" /\ call.pc \in Refusing
  BY DEF Drain, Refusing
<1>2. CASE in # <<>> /\ Head(in).word \in {"abort-edit", "success"} /\ GoOn("aborted", Tail(in))
  BY <1>1, <1>2, DrainReadStep
<1>3. CASE in # <<>> /\ Head(in).word \notin {"abort-edit", "success"} /\ GoOn("drain", Tail(in))
  BY <1>1, <1>3, DrainReadStep
<1>4. CASE in = <<>> /\ ~up /\ GoOn("aborted", in)
  <2>1. call \in CallType
    BY DEF IInv, TypeOK
  <2>2. call'.pc = "aborted" /\ call'.left = call.left
    BY <2>1, <1>4 DEF GoOn, CallType
  <2>3. \A p \in Spots : Stands(call, Len(delivered), p, ~up /\ in = <<>>) =>
                            Stands(call', Len(delivered), p, ~up /\ in = <<>>)
    BY <1>1, <1>4, <2>2 DEF Stands
  <2> QED
    BY <1>1, <1>4, <2>3, StayRefusing
<1> QED
  BY <1>1, <1>2, <1>3, <1>4 DEF Drain

LEMMA ReadAbortedStep ==
    ASSUME IInv, ReadAborted
    PROVE  IInv'
<1>1. call.pc = "aborted" /\ call.pc \in Refusing
  BY DEF ReadAborted, Refusing
<1>2. /\ call \in CallType /\ call.pc # "idle" /\ call.err \in {"protocol", "other", "finish"}
      /\ call.err \in Results /\ call.err # "ok" /\ (~Guided => Ranges \/ call.err = "finish")
  BY <1>1, AtRefusal
<1>3. CASE Ranges /\ Leave(call.err, in)
  <2>1. in \in Seq(Items) /\ Len(in) <= Len(in)
    BY DEF IInv, TypeOK
  <2> QED
    BY <2>1, <1>2, <1>3, LeaveSafe
<1>4. CASE \E rest \in {in, Tail(in)} : LeaveDropped(call.err, rest)
  <2>1. PICK rest \in {in, Tail(in)} : LeaveDropped(call.err, rest)
    BY <1>4
  <2> QED
    BY <2>1, <1>1, LeaveDroppedSafe
<1>5. CASE in # <<>> /\ Head(in).word \in {"success", "fail"} /\ Leave(call.err, Tail(in))
  <2>1. Tail(in) \in Seq(Items) /\ Len(Tail(in)) <= Len(in)
    BY <1>5, ReadType
  <2>2. CASE ~Guided
    <3>1. Ranges \/ Spoilt
      BY <2>2, <1>2 DEF Spoilt
    <3> QED
      BY <3>1, <2>1, <1>2, <1>5, LeaveSafe
  <2>3. CASE Guided
    <3>1. PICK p \in Spots, q \in Spots, z \in Spots :
             /\ Stands(call, Len(delivered), p, FALSE)
             /\ Emits(call.kind, Told(call), p, Head(in), q)
             /\ up => Meets(call, z, srv, out)
             /\ Silent(call.kind, Told(call), q) => Tail(in) = <<>> /\ z = q
      BY <2>3, <1>5, ReadStep
    <3>2. Told(call) \in BOOLEAN
      BY DEF Told
    <3>3. p.at \in {"shut", "broken", "done", "over"}
      BY <3>1, <1>1 DEF Stands
    <3>4. q.at \in {"done", "denied"}
      <4>1. CASE Head(in).word = "success"
        <5>1. q = Plain("done")
          BY <4>1, <3>1, <3>2, <3>3, EmitsSuccess
        <5> QED
          BY <5>1, SpotFacts
      <4>2. CASE Head(in).word = "fail"
        <5>1. q = Plain("done") \/ q = Plain("denied")
          BY <4>2, <3>1, <3>2, EmitsFail
        <5> QED
          BY <5>1, SpotFacts
      <4> QED
        BY <4>1, <4>2, <1>5
    <3>5. Tail(in) = <<>> /\ z = q
      BY <3>1, <3>4, SilentSpots
    <3>6. out = <<>> /\ srv.at = "idle" /\ srv.nak = 0
      <4>1. CASE up
        <5>1. Hears(z, srv, out, call.left)
          BY <4>1, <3>1, <1>1 DEF Meets
        <5>2. z.at \in {"done", "denied"}
          BY <3>4, <3>5
        <5> QED
          BY <5>1, <5>2, SpotFacts DEF Hears
      <4>2. CASE ~up
        BY <4>2, QuietType DEF IInv, LinkInv
      <4> QED
        BY <4>1, <4>2
    <3>7. Clear(Tail(in))
      BY <3>5, <3>6 DEF Clear
    <3> QED
      BY <3>7, <2>1, <1>2, <1>5, LeaveSafe
  <2> QED
    BY <2>2, <2>3
<1> QED
  BY <1>3, <1>4, <1>5 DEF ReadAborted

-----------------------------------------------------------------------------
(* The end of a method, and what may happen at any time.                   *)

LEMMA ReadResponseStep ==
    ASSUME IInv, ReadResponse
    PROVE  IInv'
<1>1. call.pc = "response" /\ in # <<>> /\ call.pc # "idle" /\ call.pc \notin Refusing
  BY DEF ReadResponse, Refusing
<1>2. Guided /\ call.err = "none"
  BY <1>1 DEF IInv, CallInv, Guided
<1>3. Told(call) \in BOOLEAN /\ ~Told(call)
  BY <1>1 DEF Told
<1>4. PICK p \in Spots, q \in Spots, z \in Spots :
         /\ Stands(call, Len(delivered), p, FALSE)
         /\ Emits(call.kind, Told(call), p, Head(in), q)
         /\ up => Meets(call, z, srv, out)
         /\ Silent(call.kind, Told(call), q) => Tail(in) = <<>> /\ z = q
  BY <1>1, <1>2, ReadStep
<1>5. \/ p.at = "failing"
      \/ p.at = "finished" /\ Len(delivered) = call.kind.revs * NEvents
  BY <1>1, <1>4 DEF Stands
<1>6. CASE Head(in).word = "success" /\ Leave("ok", Tail(in))
  <2>1. p.at = "finished" /\ q = Plain("over")
    BY <1>3, <1>4, <1>5, <1>6, EmitsSuccess
  <2>2. q.at = "over"
    BY <2>1, SpotFacts
  <2>3. Len(delivered) = NEvents * call.kind.revs
    <3>1. call.kind.revs \in Int /\ NEvents \in Int
      BY MethodFacts, SizeFacts DEF IInv, TypeOK, CallType
    <3>2. \A a, b \in Int : a * b = b * a
      BY SMT
    <3>3. call.kind.revs * NEvents = NEvents * call.kind.revs
      BY <3>1, <3>2
    <3> QED
      BY <3>3, <2>1, <1>5
  <2> QED
    BY <2>2, <2>3, <1>1, <1>2, <1>4, <1>6, LeaveAnswered
<1>7. CASE Head(in).word = "fail" /\ Leave("server", Tail(in))
  <2>1. q = Plain("done")
    BY <1>3, <1>4, <1>5, <1>7, EmitsFail
  <2>2. q.at = "done"
    BY <2>1, SpotFacts
  <2> QED
    BY <2>2, <1>1, <1>2, <1>4, <1>7, LeaveAnswered
<1>8. CASE Leave("protocol", Tail(in))
  BY <1>1, <1>8, LeaveBroken
<1> QED
  BY <1>6, <1>7, <1>8 DEF ReadResponse

LEMMA ReadEofStep ==
    ASSUME IInv, ReadEof
    PROVE  IInv'
<1>1. call.pc # "idle" /\ Leave("eof", in)
  BY DEF ReadEof, Reading
<1> QED
  BY <1>1, LeaveBroken

LEMMA TimesOutStep ==
    ASSUME IInv, TimesOut
    PROVE  IInv'
<1>1. CASE call.pc = "aborted" /\ LeaveDropped(call.err, in)
  BY <1>1, LeaveDroppedSafe DEF Refusing
<1>2. CASE call.pc # "idle" /\ Leave("timeout", in)
  BY <1>2, LeaveBroken
<1> QED
  BY <1>1, <1>2 DEF TimesOut, Reading

LEMMA LoseStep ==
    ASSUME IInv, Lose
    PROVE  IInv'
<1>1. /\ up /\ kept /\ up' = FALSE /\ out' = <<>> /\ srv' = Quiet
      /\ call' = call /\ kept' = kept /\ delivered' = delivered
  BY DEF Lose
<1>2. PICK k \in 0 .. Len(in) : in' = SubSeq(in, 1, k)
  BY DEF Lose
<1>3. in \in Seq(Items) /\ Len(in) \in Nat /\ Len(in) <= ToClient /\ k \in Nat /\ k <= Len(in)
  BY DEF IInv, TypeOK
<1>4. in' \in Seq(Items) /\ Len(in') = k
  <2>1. CASE k = 0
    <3>1. in' = <<>>
      BY <2>1, <1>2, <1>3, SubSeqProperties
    <3> QED
      BY <3>1, <2>1, EmptySeq
  <2>2. CASE k > 0
    BY <2>2, <1>2, <1>3, SubSeqProperties
  <2> QED
    BY <2>1, <2>2, <1>3
<1>5. in = <<>> => in' = <<>>
  BY <1>3, <1>4, EmptySeq
<1>6. TypeOK'
  <2>1. out' \in Seq(Tokens)
    BY <1>1
  <2>2. Len(out') <= ToServer
    BY <1>1, EmptySeq, SizeFacts
  <2>3. Len(in') <= ToClient
    BY <1>3, <1>4, SizeFacts
  <2> QED
    BY <2>1, <2>2, <2>3, <1>1, <1>4, QuietType DEF IInv, TypeOK
<1>7. LinkInv'
  BY <1>1, QuietType DEF IInv, LinkInv
<1>8. CallInv'
  BY <1>1 DEF IInv, CallInv, Ranges
<1>9. RestInv'
  BY <1>1, <1>5, QuietType DEF IInv, RestInv, Spoilt
<1>10. InOrder' /\ OkIsComplete'
  BY <1>1 DEF IInv, InOrder, OkIsComplete
<1>11. ASSUME Guided'
       PROVE  PathInv' /\ TurnInv'
  <2>1. Guided
    BY <1>1, <1>11 DEF Guided, Ranges
  <2>2. Joined(call, srv, out, in, TRUE, Len(delivered))
    <3>1. up = TRUE
      BY <1>1 DEF IInv, TypeOK
    <3> QED
      BY <3>1, <2>1 DEF IInv, PathInv
  <2>3. Joined(call, Quiet, <<>>, SubSeq(in, 1, k), FALSE, Len(delivered))
    BY <2>2, <1>3, JoinedCut
  <2>4. PathInv'
    BY <2>3, <1>1, <1>2 DEF PathInv
  <2>5. TurnInv'
    <3>1. Len(in) <= 1 => Len(in') <= 1
      BY <1>3, <1>4
    <3> QED
      BY <3>1, <2>1, <1>1, <1>5 DEF IInv, TurnInv
  <2> QED
    BY <2>4, <2>5
<1> QED
  BY <1>6, <1>7, <1>8, <1>9, <1>10, <1>11 DEF IInv


-----------------------------------------------------------------------------
(* The server.                                                             *)

\* What every step of the server keeps.
LEMMA ServesOn ==
    ASSUME IInv, srv.at # "idle" \/ out # <<>>,
           UNCHANGED <<call, kept, up, delivered>>,
           in' \in Seq(Items), Len(in') <= ToClient,
           out' \in Seq(Tokens), Len(out') <= ToServer, srv' \in ServerType,
           srv'.at # "idle" => srv'.kind = call.kind /\ srv'.rev \in 1 .. srv'.kind.revs,
           srv'.at \in {"report", "revprops", "edit"} => ~srv'.failed
    PROVE  /\ TypeOK' /\ LinkInv' /\ CallInv' /\ RestInv' /\ InOrder' /\ OkIsComplete'
           /\ up = TRUE /\ (Guided' <=> Guided)
<1>1. up = TRUE
  <2>1. up
    BY QuietType DEF IInv, LinkInv
  <2> QED
    BY <2>1 DEF IInv, TypeOK
<1>2. TypeOK'
  BY DEF IInv, TypeOK
<1>3. LinkInv'
  BY <1>1 DEF IInv, LinkInv
<1>4. CallInv' /\ (Guided' <=> Guided)
  BY DEF IInv, CallInv, Guided, Ranges
<1>5. RestInv'
  BY DEF IInv, RestInv, Spoilt
<1>6. InOrder' /\ OkIsComplete'
  BY DEF IInv, InOrder, OkIsComplete
<1> QED
  BY <1>1, <1>2, <1>3, <1>4, <1>5, <1>6

\* A step with which the server says an item.
LEMMA SayInv ==
    ASSUME IInv, srv.at # "idle" \/ out # <<>>,
           UNCHANGED <<call, kept, up, delivered>>,
           NEW item \in Items, Len(in) < ToClient, in' = Append(in, item),
           out' \in Seq(Tokens), Len(out') <= ToServer, srv' \in ServerType,
           srv'.at # "idle" => srv'.kind = call.kind /\ srv'.rev \in 1 .. srv'.kind.revs,
           srv'.at \in {"report", "revprops", "edit"} => ~srv'.failed,
           Guided => TurnInv',
           \A z \in Spots :
              /\ Guided /\ Meets(call, z, srv, out) /\ Astray(call, z, srv)
              /\ in = <<>> => Stands(call, Len(delivered), z, FALSE)
              => \E q : /\ Emits(call.kind, Told(call), z, item, q)
                        /\ Meets(call, q, srv', out') /\ Astray(call, q, srv')
                        /\ \/ call.kind.reports /\ srv.rogue => srv'.rogue
                           \/ in = <<>> /\ Astray(call, z, srv')
    PROVE  IInv'
<1>1. in \in Seq(Items) /\ call.kind \in Methods
  BY DEF IInv, TypeOK, CallType
<1>2. in' \in Seq(Items) /\ Len(in') <= ToClient
  <2>1. in' \in Seq(Items) /\ Len(in') = Len(in) + 1 /\ Len(in) \in Nat
    BY <1>1, AppendProperties
  <2> QED
    BY <2>1, SizeFacts
<1>3. /\ TypeOK' /\ LinkInv' /\ CallInv' /\ RestInv' /\ InOrder' /\ OkIsComplete'
      /\ up = TRUE /\ (Guided' <=> Guided)
  BY <1>2, ServesOn
<1>4. ASSUME Guided
      PROVE  PathInv'
  <2>1. Joined(call, srv, out, in, TRUE, Len(delivered))
    BY <1>3, <1>4 DEF IInv, PathInv
  <2>2. PICK z \in Spots :
           /\ Meets(call, z, srv, out) /\ Astray(call, z, srv)
           /\ in = <<>> => Stands(call, Len(delivered), z, FALSE)
           /\ \A x \in Items : \A q, s2, o2 :
                 /\ Emits(call.kind, Told(call), z, x, q) /\ Meets(call, q, s2, o2)
                 /\ Astray(call, q, s2)
                 /\ \/ call.kind.reports /\ srv.rogue => s2.rogue
                    \/ in = <<>> /\ Astray(call, z, s2)
                 => Joined(call, s2, o2, Append(in, x), TRUE, Len(delivered))
           /\ \A s2, o2 :
                 Meets(call, z, s2, o2) /\ (call.kind.reports /\ srv.rogue => s2.rogue)
                 => Joined(call, s2, o2, in, TRUE, Len(delivered))
    <3> HIDE DEF Items, Spots
    <3> QED
      BY ONLY <2>1, <1>1, JoinedSay, Zenon
  <2>3. PICK q : /\ Emits(call.kind, Told(call), z, item, q)
                 /\ Meets(call, q, srv', out') /\ Astray(call, q, srv')
                 /\ \/ call.kind.reports /\ srv.rogue => srv'.rogue
                    \/ in = <<>> /\ Astray(call, z, srv')
    BY <2>2, <1>4
  <2>4. Joined(call, srv', out', Append(in, item), TRUE, Len(delivered))
    BY <2>2, <2>3
  <2> QED
    BY <2>4, <1>3 DEF PathInv
<1> QED
  BY <1>3, <1>4 DEF IInv

\* A step with which it says nothing.
LEMMA HushInv ==
    ASSUME IInv, srv.at # "idle" \/ out # <<>>,
           UNCHANGED <<call, kept, up, in, delivered>>,
           out' \in Seq(Tokens), Len(out') <= ToServer, srv' \in ServerType,
           srv'.at # "idle" => srv'.kind = call.kind /\ srv'.rev \in 1 .. srv'.kind.revs,
           srv'.at \in {"report", "revprops", "edit"} => ~srv'.failed,
           srv'.rogue = srv.rogue,
           Guided => TurnInv',
           \A z \in Spots :
              /\ Guided /\ Meets(call, z, srv, out)
              /\ in = <<>> => Stands(call, Len(delivered), z, FALSE)
              => Meets(call, z, srv', out')
    PROVE  IInv'
<1>1. in \in Seq(Items) /\ call.kind \in Methods
  BY DEF IInv, TypeOK, CallType
<1>2. in' \in Seq(Items) /\ Len(in') <= ToClient
  BY DEF IInv, TypeOK
<1>3. /\ TypeOK' /\ LinkInv' /\ CallInv' /\ RestInv' /\ InOrder' /\ OkIsComplete'
      /\ up = TRUE /\ (Guided' <=> Guided)
  BY <1>2, ServesOn
<1>4. ASSUME Guided
      PROVE  PathInv'
  <2>1. Joined(call, srv, out, in, TRUE, Len(delivered))
    BY <1>3, <1>4 DEF IInv, PathInv
  <2>2. PICK z \in Spots :
           /\ Meets(call, z, srv, out)
           /\ in = <<>> => Stands(call, Len(delivered), z, FALSE)
           /\ \A s2, o2 :
                 Meets(call, z, s2, o2) /\ (call.kind.reports /\ srv.rogue => s2.rogue)
                 => Joined(call, s2, o2, in, TRUE, Len(delivered))
    BY <2>1, <1>1, JoinedSay
  <2>3. Meets(call, z, srv', out')
    BY <2>2, <1>4
  <2>4. Joined(call, srv', out', in, TRUE, Len(delivered))
    BY <2>2, <2>3
  <2> QED
    BY <2>4, <1>3 DEF PathInv
<1> QED
  BY <1>3, <1>4 DEF IInv

\* What the server reads.
LEMMA HeadOut ==
    ASSUME IInv, out # <<>>
    PROVE  /\ out \in Seq(Tokens) /\ Tail(out) \in Seq(Tokens) /\ Len(Tail(out)) <= ToServer
           /\ Len(out) \in Nat /\ Len(out) >= 1 /\ Len(Tail(out)) = Len(out) - 1
           /\ Head(out) = out[1] /\ 1 \in DOMAIN out
           /\ (Len(out) = 1 => Tail(out) = <<>>)
           /\ \A t : out = <<t>> => Head(out) = t /\ Tail(out) = <<>>
<1>1. out \in Seq(Tokens) /\ Len(out) <= ToServer
  BY DEF IInv, TypeOK
<1>2. Len(out) \in Nat /\ Len(out) >= 1 /\ DOMAIN out = 1 .. Len(out)
  BY <1>1, EmptySeq
<1>3. Tail(out) \in Seq(Tokens) /\ Len(Tail(out)) = Len(out) - 1 /\ Head(out) = out[1]
  BY <1>1, HeadTailProperties
<1>4. Len(out) = 1 => Tail(out) = <<>>
  <2>1. Len(out) = 1 => Len(Tail(out)) = 0
    BY <1>3
  <2> QED
    BY <2>1, <1>3, EmptySeq
<1>5. ASSUME NEW t, out = <<t>>
      PROVE  Head(out) = t /\ Tail(out) = <<>>
  <2>1. Len(out) = 1 /\ out[1] = t
    BY <1>5
  <2> QED
    BY <2>1, <1>3, <1>4
<1>6. Len(Tail(out)) <= ToServer
  BY <1>1, <1>2, <1>3, SizeFacts
<1> QED
  BY <1>1, <1>2, <1>3, <1>4, <1>5, <1>6

\* The server has read one part of the failure.
LEMMA PartRead ==
    ASSUME IInv, Guided, out # <<>>, Head(out) = "part"
    PROVE  /\ call.pc \in Refusing
           /\ \A i \in DOMAIN Tail(out) : (\A j \in DOMAIN out : out[j] = "part") => Tail(out)[i] = "part"
<1>1. \A t : out = <<t>> => Head(out) = t
  BY HeadOut
<1>2. call.pc \in Refusing
  BY <1>1 DEF IInv, TurnInv
<1>3. out \in Seq(Tokens)
  BY DEF IInv, TypeOK
<1>4. ASSUME NEW i \in DOMAIN Tail(out), \A j \in DOMAIN out : out[j] = "part"
      PROVE  Tail(out)[i] = "part"
  <2>1. Tail(out) \in Seq(Tokens) /\ Len(Tail(out)) = Len(out) - 1 /\ Len(out) \in Nat
    BY HeadOut
  <2>2. i \in 1 .. Len(out) - 1 /\ i + 1 \in DOMAIN out
    BY <2>1, <1>3
  <2>3. Tail(out)[i] = out[i + 1]
    BY <2>2, <1>3, HeadTailProperties
  <2> QED
    BY <2>2, <2>3, <1>4
<1> QED
  BY <1>2, <1>4

\* Until the report has been read the server has not begun to edit.
LEMMA WaitsEarly ==
    ASSUME NEW k, NEW p, NEW s, NEW o, Waits(k, p, s, o),
           p.at \in {"calling", "reporting", "done"}
    PROVE  s.at \in {"idle", "report"}
<1>1. \A r : After(k, r).at \in {"before", "finished"}
  BY SpotFacts DEF After
<1> QED
  BY <1>1, SpotFacts DEF Waits

LEMMA EarlyTurn ==
    ASSUME IInv, Guided, up,
           call.pc = "report" \/ (call.pc = "auth" /\ call.kind.reports)
    PROVE  srv.at \in {"idle", "report"}
<1>1. call.pc \notin Refusing
  BY DEF Refusing
<1>2. Told(call) = FALSE
  BY <1>1 DEF Told
<1>3. CASE in = <<>>
  <2>1. PICK p \in Spots : /\ Stands(call, Len(delivered), p, ~up)
                           /\ Meets(call, p, srv, out)
    BY <1>3, BareStep
  <2>2. p.at \in {"calling", "reporting"}
    BY <2>1 DEF Stands
  <2> QED
    BY <2>1, <2>2, <1>1, WaitsEarly DEF Meets
<1>4. CASE in # <<>>
  <2>1. call.pc = "auth" /\ call.kind.reports /\ Len(in) <= 1
    BY <1>4 DEF IInv, TurnInv
  <2>2. Tail(in) = <<>>
    <3>1. in \in Seq(Items)
      BY DEF IInv, TypeOK
    <3>2. Len(in) \in Nat /\ Tail(in) \in Seq(Items) /\ Len(Tail(in)) = Len(in) - 1
      BY <3>1, <1>4, HeadTailProperties
    <3>3. Len(Tail(in)) \in Nat
      BY <3>2
    <3>4. Len(Tail(in)) = 0
      BY <2>1, <3>2, <3>3
    <3> QED
      BY <3>2, <3>4, EmptySeq
  <2>3. PICK p \in Spots, q \in Spots, z \in Spots :
           /\ Stands(call, Len(delivered), p, FALSE)
           /\ Emits(call.kind, Told(call), p, Head(in), q)
           /\ Meets(call, z, srv, out)
           /\ Tail(in) = <<>> => z = q
    BY <1>4, ReadStep
  <2>4. p.at = "calling"
    BY <2>1, <2>3 DEF Stands
  <2>5. q = Entry(call.kind) \/ q = Plain("done")
    BY <2>3, <2>4, <1>2 DEF Emits
  <2>6. z.at \in {"reporting", "done"}
    BY <2>1, <2>2, <2>3, <2>5, SpotFacts DEF Entry
  <2> QED
    BY <2>3, <2>6, <1>1, WaitsEarly DEF Meets
<1> QED
  BY <1>3, <1>4

\* The server says an item of its own accord: it is not the turn of anybody
\* who is not refusing.
LEMMA SayTurn ==
    ASSUME IInv, Guided, up, srv.at \in {"revprops", "edit", "respond", "abort"},
           UNCHANGED <<call, out>>
    PROVE  TurnInv'
<1>1. ~(call.pc = "report") /\ ~(call.pc = "auth" /\ call.kind.reports)
  BY EarlyTurn
<1>2. out = <<>> \/ call.pc \in Refusing
  BY DEF IInv, TurnInv
<1> QED
  BY <1>1, <1>2 DEF TurnInv

\* While the client refuses it writes nothing but the failure.
LEMMA PartsOnly ==
    ASSUME IInv, Guided, up, call.pc \in Refusing
    PROVE  \A i \in DOMAIN out : out[i] = "part"
<1>1. PICK pos \in [0 .. Len(in) -> Spots] : up => Meets(call, pos[Len(in)], srv, out)
  BY DEF IInv, PathInv, Joined
<1> QED
  BY <1>1 DEF Meets, Hears

\* The server reads a word of the method's own.
LEMMA HeadWord ==
    ASSUME IInv, Guided, up, out # <<>>, Head(out) # "part"
    PROVE  /\ call.pc \notin Refusing /\ ~Told(call) /\ in = <<>> /\ Tail(out) = <<>>
           /\ out = <<Head(out)>>
           /\ Head(out) = "command" => call.pc = "auth"
           /\ Head(out) = "report" => call.pc = "auth2"
           /\ Head(out) = "success" => call.pc \in {"revprops", "response"} /\ srv.at = "ack"
<1>1. Head(out) = out[1] /\ 1 \in DOMAIN out /\ \A t : out = <<t>> => Head(out) = t /\ Tail(out) = <<>>
  BY HeadOut
<1>2. call.pc \notin Refusing
  BY <1>1, PartsOnly
<1>3. ~Told(call)
  BY <1>2 DEF Told
<1>4. \/ call.pc = "auth" /\ out = <<"command">> /\ in = <<>>
      \/ call.pc = "auth2" /\ out = <<"report">> /\ in = <<>>
      \/ call.pc \in {"revprops", "response"} /\ out = <<"success">> /\ in = <<>> /\ srv.at = "ack"
  BY <1>2 DEF IInv, TurnInv
<1>5. CASE call.pc = "auth" /\ out = <<"command">> /\ in = <<>>
  <2>1. Head(out) = "command" /\ Tail(out) = <<>>
    BY <1>1, <1>5
  <2> QED
    BY <2>1, <1>2, <1>3, <1>5
<1>6. CASE call.pc = "auth2" /\ out = <<"report">> /\ in = <<>>
  <2>1. Head(out) = "report" /\ Tail(out) = <<>>
    BY <1>1, <1>6
  <2> QED
    BY <2>1, <1>2, <1>3, <1>6
<1>7. CASE call.pc \in {"revprops", "response"} /\ out = <<"success">> /\ in = <<>> /\ srv.at = "ack"
  <2>1. Head(out) = "success" /\ Tail(out) = <<>>
    BY <1>1, <1>7
  <2> QED
    BY <2>1, <1>2, <1>3, <1>7
<1> QED
  BY <1>4, <1>5, <1>6, <1>7

\* Something is under way or about to be said: the connection works.
LEMMA AtWork ==
    ASSUME IInv, srv.at # "idle" \/ out # <<>>
    PROVE  /\ up /\ up = TRUE /\ call.kind \in Methods /\ srv \in ServerType /\ call \in CallType
           /\ in \in Seq(Items) /\ Len(in) <= ToClient /\ out \in Seq(Tokens) /\ Len(out) <= ToServer
           /\ Told(call) \in BOOLEAN
           /\ srv.at # "idle" => srv.kind = call.kind /\ srv.rev \in 1 .. srv.kind.revs /\ srv.rev \in 1 .. NRevs
<1>1. up
  BY QuietType DEF IInv, LinkInv
<1>2. up = TRUE /\ call.kind \in Methods /\ srv \in ServerType /\ call \in CallType
  BY <1>1 DEF IInv, TypeOK, CallType
<1>3. in \in Seq(Items) /\ Len(in) <= ToClient /\ out \in Seq(Tokens) /\ Len(out) <= ToServer
  BY DEF IInv, TypeOK
<1>4. Told(call) \in BOOLEAN
  BY DEF Told
<1>5. srv.at # "idle" => srv.kind = call.kind /\ srv.rev \in 1 .. srv.kind.revs
  BY DEF IInv, LinkInv
<1>6. srv.at # "idle" => srv.rev \in 1 .. NRevs
  BY <1>2, <1>5, MethodFacts, SizeFacts
<1> QED
  BY <1>1, <1>2, <1>3, <1>4, <1>5, <1>6

\* The items of the server have the shape of items.
LEMMA ItemType ==
    /\ \A w \in Words : Item(w) \in Items
    /\ \A r \in 0 .. NRevs, n \in 0 .. NEvents : Event(r, n) \in Items
<1>1. 0 \in 0 .. NRevs /\ 0 \in 0 .. NEvents
  BY SizeFacts
<1>2. \A w \in Words : Item(w) \in Items
  BY <1>1 DEF Item, Items
<1>3. \A r \in 0 .. NRevs, n \in 0 .. NEvents : Event(r, n) \in Items
  BY DEF Event, Items, Words
<1> QED
  BY <1>2, <1>3

\* The revision properties in front of a drive, or no more drives.
LEMMA SrvRevPropsStep ==
    ASSUME IInv, SrvRevProps
    PROVE  IInv'
<1>1. srv.at = "revprops" /\ out' = out
  BY DEF SrvRevProps
<1>2. /\ up /\ srv \in ServerType /\ call.kind \in Methods /\ out \in Seq(Tokens) /\ Len(out) <= ToServer
      /\ srv.kind = call.kind /\ srv.rev \in 1 .. srv.kind.revs
      /\ Told(call) \in BOOLEAN
  BY <1>1, AtWork
<1>3. ~srv.failed
  BY <1>1 DEF IInv, LinkInv
<1>4. ASSUME NEW z \in Spots, Meets(call, z, srv, out)
      PROVE  call.pc \notin Refusing /\ z = Before(srv.rev) /\ srv.nak = 0
             /\ z.at = "before" /\ z.rev = srv.rev
  BY <1>1, <1>4, SpotFacts DEF Meets, Waits, Hears
<1>5. CASE Serve(Item("revprops"), [srv EXCEPT !.at = "edit", !.sent = 0])
  <2>1. /\ Len(in) < ToClient /\ in' = Append(in, Item("revprops"))
        /\ srv' = [srv EXCEPT !.at = "edit", !.sent = 0] /\ UNCHANGED <<call, kept, up, delivered>>
    BY <1>5 DEF Serve
  <2>2. /\ srv' \in ServerType /\ srv'.at = "edit" /\ srv'.sent = 0 /\ srv'.kind = srv.kind
        /\ srv'.rev = srv.rev /\ srv'.nak = srv.nak /\ srv'.failed = srv.failed /\ srv'.rogue = srv.rogue
    <3>1. 0 \in 0 .. NEvents
      BY SizeFacts
    <3> QED
      BY <3>1, <2>1, <1>2 DEF ServerType
  <2>3. Item("revprops") \in Items
    BY ItemType DEF Words
  <2>4. ASSUME NEW z \in Spots, Meets(call, z, srv, out)
        PROVE  /\ Emits(call.kind, Told(call), z, Item("revprops"), Amid(srv.rev, 0))
               /\ Meets(call, Amid(srv.rev, 0), srv', out')
               /\ Astray(call, Amid(srv.rev, 0), srv')
    <3>1. call.pc \notin Refusing /\ z.at = "before" /\ z.rev = srv.rev /\ srv.nak = 0
      BY <2>4, <1>4
    <3>2. Emits(call.kind, Told(call), z, Item("revprops"), Amid(srv.rev, 0))
      BY <3>1 DEF Emits
    <3>3. Waits(call.kind, Amid(srv.rev, 0), srv', out')
      BY <3>1, <2>2 DEF Waits
    <3> QED
      BY <3>1, <3>2, <3>3, SpotFacts DEF Meets, Astray
  <2>5. Guided => TurnInv'
    BY <1>1, <1>2, <2>1, SayTurn
  <2> QED
    BY <1>1, <1>2, <1>3, <2>1, <2>2, <2>3, <2>4, <2>5, SayInv
<1>6. CASE Serve(Item("fail"), Served)
  <2>1. /\ Len(in) < ToClient /\ in' = Append(in, Item("fail"))
        /\ srv' = Served /\ UNCHANGED <<call, kept, up, delivered>>
    BY <1>6 DEF Serve
  <2>2. /\ srv' \in ServerType /\ srv'.at = "idle" /\ srv'.nak = 0 /\ srv'.rogue = srv.rogue
    BY <2>1, <1>2, ServedType
  <2>3. Item("fail") \in Items
    BY ItemType DEF Words
  <2>4. ASSUME NEW z \in Spots, Meets(call, z, srv, out)
        PROVE  /\ Emits(call.kind, Told(call), z, Item("fail"), Plain("done"))
               /\ Meets(call, Plain("done"), srv', out')
               /\ Astray(call, Plain("done"), srv')
    <3>1. call.pc \notin Refusing /\ z.at = "before"
      BY <2>4, <1>4
    <3>2. Emits(call.kind, Told(call), z, Item("fail"), Plain("done"))
      BY <3>1 DEF Emits
    <3>3. Waits(call.kind, Plain("done"), srv', out')
      BY <2>2, SpotFacts DEF Waits
    <3> QED
      BY <3>1, <3>2, <3>3, SpotFacts DEF Meets, Astray
  <2>5. Guided => TurnInv'
    BY <1>1, <1>2, <2>1, SayTurn
  <2> QED
    BY <1>1, <1>2, <2>1, <2>2, <2>3, <2>4, <2>5, SayInv
<1> QED
  BY <1>5, <1>6 DEF SrvRevProps

\* Where a server that edits is.
LEMMA AtEdit ==
    ASSUME NEW c, NEW z, NEW s, NEW o, Meets(c, z, s, o), s.at = "edit"
    PROVE  /\ z = Amid(s.rev, s.sent) /\ z.at = "amid" /\ z.rev = s.rev /\ z.n = s.sent
           /\ s.nak = 0 /\ (c.pc \in Refusing => s.sent > 0)
BY SpotFacts DEF Meets, Waits, Hears

LEMMA SrvEventStep ==
    ASSUME IInv, SrvEvent
    PROVE  IInv'
<1>1. srv.at = "edit" /\ out' = out
  BY DEF SrvEvent
<1>2. /\ up /\ srv \in ServerType /\ call.kind \in Methods /\ out \in Seq(Tokens) /\ Len(out) <= ToServer
      /\ srv.kind = call.kind /\ srv.rev \in 1 .. srv.kind.revs /\ srv.rev \in 1 .. NRevs
      /\ Told(call) \in BOOLEAN
  BY <1>1, AtWork
<1>3. ~srv.failed
  BY <1>1 DEF IInv, LinkInv
<1>4. srv.sent \in 0 .. NEvents /\ srv.rev \in 0 .. NRevs
  BY <1>2 DEF ServerType
<1>5. CASE srv.sent < NEvents /\ Serve(Event(srv.rev, srv.sent + 1), [srv EXCEPT !.sent = @ + 1])
  <2> DEFINE item == Event(srv.rev, srv.sent + 1)
             q == Amid(srv.rev, srv.sent + 1)
  <2>1. /\ Len(in) < ToClient /\ in' = Append(in, item)
        /\ srv' = [srv EXCEPT !.sent = srv.sent + 1] /\ UNCHANGED <<call, kept, up, delivered>>
    BY <1>5 DEF Serve
  <2>2. srv.sent + 1 \in 0 .. NEvents /\ srv.sent + 1 > 0
    BY <1>4, <1>5, SizeFacts
  <2>3. /\ srv' \in ServerType /\ srv'.at = "edit" /\ srv'.sent = srv.sent + 1 /\ srv'.kind = srv.kind
        /\ srv'.rev = srv.rev /\ srv'.nak = srv.nak /\ srv'.failed = srv.failed /\ srv'.rogue = srv.rogue
    BY <2>1, <2>2, <1>1, <1>2 DEF ServerType
  <2>4. item \in Items
    BY <1>4, <2>2, ItemType
  <2>5. ASSUME NEW z \in Spots, Meets(call, z, srv, out)
        PROVE  /\ Emits(call.kind, Told(call), z, item, q)
               /\ Meets(call, q, srv', out') /\ Astray(call, q, srv')
    <3>1. z.at = "amid" /\ z.rev = srv.rev /\ z.n = srv.sent /\ srv.nak = 0
          /\ (call.pc \in Refusing => srv.sent > 0) /\ z = Amid(srv.rev, srv.sent)
      BY <2>5, <1>1, AtEdit
    <3>2. Emits(call.kind, Told(call), z, item, q)
      BY <3>1, <1>5 DEF Emits
    <3>3. CASE call.pc \in Refusing
      <4>1. /\ \A i \in DOMAIN out : out[i] = "part"
            /\ Len(out) + call.left = FailureParts
        BY <3>3, <2>5, <1>1 DEF Meets, Hears
      <4>2. Hears(q, srv', out', call.left)
        BY <4>1, <3>1, <2>2, <2>3, <1>1 DEF Hears
      <4> QED
        BY <4>2, <3>2, <3>3, SpotFacts DEF Meets, Astray
    <3>4. CASE call.pc \notin Refusing
      <4>1. Waits(call.kind, q, srv', out')
        BY <3>1, <2>3 DEF Waits
      <4> QED
        BY <4>1, <3>2, <3>4, SpotFacts DEF Meets, Astray
    <3> QED
      BY <3>3, <3>4
  <2>6. Guided => TurnInv'
    BY <1>1, <1>2, <2>1, SayTurn
  <2> HIDE DEF item, q
  <2> QED
    BY <1>1, <1>2, <1>3, <2>1, <2>3, <2>4, <2>5, <2>6, SayInv
<1>6. CASE srv.sent = 0 /\ srv.kind # ReplayRange /\ Serve(Item("fail"), Served)
  <2>1. /\ Len(in) < ToClient /\ in' = Append(in, Item("fail"))
        /\ srv' = Served /\ UNCHANGED <<call, kept, up, delivered>>
    BY <1>6 DEF Serve
  <2>2. /\ srv' \in ServerType /\ srv'.at = "idle" /\ srv'.nak = 0 /\ srv'.rogue = srv.rogue
    BY <2>1, <1>2, ServedType
  <2>3. Item("fail") \in Items
    BY ItemType DEF Words
  <2>4. ASSUME NEW z \in Spots, Meets(call, z, srv, out)
        PROVE  /\ Emits(call.kind, Told(call), z, Item("fail"), Plain("done"))
               /\ Meets(call, Plain("done"), srv', out')
               /\ Astray(call, Plain("done"), srv')
    <3>1. z.at = "amid" /\ z.n = 0 /\ call.pc \notin Refusing
      BY <2>4, <1>1, <1>6, AtEdit
    <3>2. Emits(call.kind, Told(call), z, Item("fail"), Plain("done"))
      BY <3>1, <1>2, <1>6 DEF Emits
    <3>3. Waits(call.kind, Plain("done"), srv', out')
      BY <2>2, SpotFacts DEF Waits
    <3> QED
      BY <3>1, <3>2, <3>3, SpotFacts DEF Meets, Astray
  <2>5. Guided => TurnInv'
    BY <1>1, <1>2, <2>1, SayTurn
  <2> QED
    BY <1>1, <1>2, <2>1, <2>2, <2>3, <2>4, <2>5, SayInv
<1> QED
  BY <1>5, <1>6 DEF SrvEvent

\* While nobody refuses, nothing is under way to a server that edits.
LEMMA NothingUnderWay ==
    ASSUME IInv, Guided, call.pc \notin Refusing, srv.at \in {"edit", "respond"}
    PROVE  out = <<>>
BY DEF IInv, TurnInv

LEMMA SrvAbortsStep ==
    ASSUME IInv, SrvAborts
    PROVE  IInv'
<1>1. /\ srv.at = "edit" /\ out' = out /\ up /\ Len(in) < ToClient /\ in' = Append(in, Item("abort-edit"))
      /\ srv' = [srv EXCEPT !.at = "ack", !.failed = TRUE]
      /\ UNCHANGED <<call, kept, up, delivered>>
  BY DEF SrvAborts, Serve
<1>2. /\ up /\ srv \in ServerType /\ call.kind \in Methods /\ out \in Seq(Tokens) /\ Len(out) <= ToServer
      /\ srv.kind = call.kind /\ srv.rev \in 1 .. srv.kind.revs
      /\ Told(call) \in BOOLEAN
  BY <1>1, AtWork
<1>3. /\ srv' \in ServerType /\ srv'.at = "ack" /\ srv'.kind = srv.kind
      /\ srv'.rev = srv.rev /\ srv'.nak = srv.nak /\ srv'.failed = TRUE /\ srv'.rogue = srv.rogue
  BY <1>1, <1>2 DEF ServerType
<1>4. Item("abort-edit") \in Items
  BY ItemType DEF Words
<1>5. ASSUME NEW z \in Spots, Guided, Meets(call, z, srv, out)
      PROVE  /\ Emits(call.kind, Told(call), z, Item("abort-edit"), Plain("broken"))
             /\ Meets(call, Plain("broken"), srv', out') /\ Astray(call, Plain("broken"), srv')
  <2>1. z.at = "amid" /\ srv.nak = 0
    BY <1>5, <1>1, AtEdit
  <2>2. Emits(call.kind, Told(call), z, Item("abort-edit"), Plain("broken"))
    BY <2>1 DEF Emits
  <2>3. CASE call.pc \in Refusing
    <3>1. /\ \A i \in DOMAIN out : out[i] = "part"
          /\ Len(out) + call.left = FailureParts
      BY <2>3, <1>5, <1>1 DEF Meets, Hears
    <3>2. call.left \in Int /\ Len(out) \in Int
      BY <1>2, SizeFacts DEF IInv, TypeOK, CallType
    <3>3. srv'.nak + Len(out') + call.left = FailureParts
      <4>1. \A a, b \in Int : 0 + a + b = a + b
        OBVIOUS
      <4> QED
        BY <4>1, <3>1, <3>2, <2>1, <1>1, <1>3
    <3>4. Hears(Plain("broken"), srv', out', call.left)
      BY <3>1, <3>3, <1>1, <1>3, SpotFacts DEF Hears
    <3> QED
      BY <3>4, <2>2, <2>3, SpotFacts DEF Meets, Astray
  <2>4. CASE call.pc \notin Refusing
    <3>1. out' = <<>>
      BY <2>4, <1>1, <1>5, NothingUnderWay
    <3>2. Waits(call.kind, Plain("broken"), srv', out')
      BY <3>1, <2>1, <1>3, SpotFacts DEF Waits
    <3> QED
      BY <3>2, <2>2, <2>4, SpotFacts DEF Meets, Astray
  <2> QED
    BY <2>3, <2>4
<1>6. Guided => TurnInv'
  BY <1>1, <1>2, SayTurn
<1> QED
  BY <1>1, <1>2, <1>3, <1>4, <1>5, <1>6, SayInv

\* What follows a drive has the shape of a server.
LEMMA OverFacts ==
    ASSUME NEW s \in ServerType, s.rev \in 1 .. s.kind.revs
    PROVE  /\ Over(s) \in ServerType /\ Over(s).at \in {"revprops", "respond"}
           /\ Over(s).kind = s.kind /\ Over(s).rev \in 1 .. s.kind.revs /\ Over(s).nak = s.nak
           /\ Over(s).failed = s.failed /\ Over(s).rogue = s.rogue
           /\ Over(s).at = "revprops" => ~s.failed
           /\ ~s.failed /\ Over(s).at = "revprops" => After(s.kind, s.rev) = Before(Over(s).rev)
           /\ ~s.failed /\ Over(s).at = "respond" => After(s.kind, s.rev).at = "finished"
           /\ s.failed \/ s.kind.revs = 1 => Over(s).at = "respond"
<1>1. s.kind \in Methods
  BY DEF ServerType
<1>2. s.kind.revs \in 1 .. NRevs /\ s.kind.revs \in Nat /\ s.rev \in Nat /\ s.rev >= 1 /\ s.rev <= s.kind.revs
  BY <1>1, MethodFacts, SizeFacts
<1>3. CASE s.rev < s.kind.revs /\ ~s.failed
  <2>1. Over(s) = [s EXCEPT !.at = "revprops", !.rev = s.rev + 1, !.sent = 0]
    BY <1>3 DEF Over
  <2>2. s.rev + 1 \in 0 .. NRevs /\ 0 \in 0 .. NEvents /\ s.rev + 1 \in 1 .. s.kind.revs
    BY <1>2, <1>3, SizeFacts
  <2>3. /\ Over(s) \in ServerType /\ Over(s).at = "revprops" /\ Over(s).rev = s.rev + 1
        /\ Over(s).kind = s.kind /\ Over(s).nak = s.nak /\ Over(s).failed = s.failed
        /\ Over(s).rogue = s.rogue
    BY <2>1, <2>2 DEF ServerType
  <2>4. After(s.kind, s.rev) = Before(Over(s).rev)
    BY <1>3, <2>3 DEF After
  <2>5. s.kind.revs # 1
    BY <1>2, <1>3
  <2> QED
    BY <2>2, <2>3, <2>4, <2>5, <1>3
<1>4. CASE ~(s.rev < s.kind.revs /\ ~s.failed)
  <2>1. Over(s) = [s EXCEPT !.at = "respond"]
    BY <1>4 DEF Over
  <2>2. /\ Over(s) \in ServerType /\ Over(s).at = "respond" /\ Over(s).rev = s.rev
        /\ Over(s).kind = s.kind /\ Over(s).nak = s.nak /\ Over(s).failed = s.failed
        /\ Over(s).rogue = s.rogue
    BY <2>1 DEF ServerType
  <2>3. ~s.failed => After(s.kind, s.rev).at = "finished"
    BY <1>4, SpotFacts DEF After
  <2> QED
    BY <2>2, <2>3
<1> QED
  BY <1>3, <1>4

LEMMA SrvClosesStep ==
    ASSUME IInv, SrvCloses
    PROVE  IInv'
<1>1. srv.at = "edit" /\ srv.sent = NEvents /\ out' = out
  BY DEF SrvCloses
<1>2. /\ up /\ srv \in ServerType /\ call.kind \in Methods /\ out \in Seq(Tokens) /\ Len(out) <= ToServer
      /\ srv.kind = call.kind /\ srv.rev \in 1 .. srv.kind.revs
      /\ Told(call) \in BOOLEAN
  BY <1>1, AtWork
<1>3. ~srv.failed
  BY <1>1 DEF IInv, LinkInv
<1>4. call.left \in Int /\ Len(out) \in Int
  BY <1>2, SizeFacts DEF IInv, TypeOK, CallType
<1>5. CASE Serve(Item("close-edit"), [srv EXCEPT !.at = "ack"])
  <2>1. /\ Len(in) < ToClient /\ in' = Append(in, Item("close-edit"))
        /\ srv' = [srv EXCEPT !.at = "ack"] /\ UNCHANGED <<call, kept, up, delivered>>
    BY <1>5 DEF Serve
  <2>2. /\ srv' \in ServerType /\ srv'.at = "ack" /\ srv'.kind = srv.kind
        /\ srv'.rev = srv.rev /\ srv'.nak = srv.nak /\ srv'.failed = srv.failed /\ srv'.rogue = srv.rogue
    BY <2>1, <1>2 DEF ServerType
  <2>3. Item("close-edit") \in Items
    BY ItemType DEF Words
  <2>4. ASSUME NEW z \in Spots, Guided, Meets(call, z, srv, out)
        PROVE  /\ Emits(call.kind, Told(call), z, Item("close-edit"), Shut(srv.rev))
               /\ Meets(call, Shut(srv.rev), srv', out') /\ Astray(call, Shut(srv.rev), srv')
    <3>1. z.at = "amid" /\ z.n = NEvents /\ z.rev = srv.rev /\ srv.nak = 0
      BY <2>4, <1>1, AtEdit
    <3>2. Emits(call.kind, Told(call), z, Item("close-edit"), Shut(srv.rev))
      BY <3>1 DEF Emits
    <3>3. CASE call.pc \in Refusing
      <4>1. /\ \A i \in DOMAIN out : out[i] = "part"
            /\ Len(out) + call.left = FailureParts
        BY <3>3, <2>4, <1>1 DEF Meets, Hears
      <4>2. srv'.nak + Len(out') + call.left = FailureParts
        <5>1. \A a, b \in Int : 0 + a + b = a + b
          OBVIOUS
        <5> QED
          BY <5>1, <4>1, <3>1, <2>2, <1>1, <1>4
      <4>3. Hears(Shut(srv.rev), srv', out', call.left)
        BY <4>1, <4>2, <2>2, <1>1, <1>3 DEF Hears
      <4> QED
        BY <4>3, <3>2, <3>3, SpotFacts DEF Meets, Astray
    <3>4. CASE call.pc \notin Refusing
      <4>1. out' = <<>>
        BY <3>4, <2>4, <1>1, NothingUnderWay
      <4>2. Waits(call.kind, Shut(srv.rev), srv', out')
        BY <4>1, <3>1, <2>2, <1>3 DEF Waits
      <4> QED
        BY <4>2, <3>2, <3>4, SpotFacts DEF Meets, Astray
    <3> QED
      BY <3>3, <3>4
  <2>5. Guided => TurnInv'
    BY <1>1, <1>2, <2>1, SayTurn
  <2> QED
    BY <1>1, <1>2, <1>3, <2>1, <2>2, <2>3, <2>4, <2>5, SayInv
<1>6. CASE Serve(Item("finish-replay"), [Over(srv) EXCEPT !.rogue = srv.kind.reports])
  <2> DEFINE q == After(srv.kind, srv.rev)
  <2>1. /\ Len(in) < ToClient /\ in' = Append(in, Item("finish-replay"))
        /\ srv' = [Over(srv) EXCEPT !.rogue = srv.kind.reports] /\ UNCHANGED <<call, kept, up, delivered>>
    BY <1>6 DEF Serve
  <2>2. /\ Over(srv) \in ServerType /\ Over(srv).at \in {"revprops", "respond"}
        /\ Over(srv).kind = srv.kind /\ Over(srv).rev \in 1 .. srv.kind.revs /\ Over(srv).nak = srv.nak
        /\ Over(srv).failed = srv.failed
        /\ Over(srv).at = "revprops" => q = Before(Over(srv).rev)
        /\ Over(srv).at = "respond" => q.at = "finished"
        /\ srv.kind.revs = 1 => Over(srv).at = "respond"
    BY <1>2, <1>3, OverFacts
  <2>3. srv.kind.reports \in BOOLEAN
    BY <1>2, MethodFacts
  <2>4. /\ srv' \in ServerType /\ srv'.at = Over(srv).at /\ srv'.kind = srv.kind
        /\ srv'.rev = Over(srv).rev /\ srv'.nak = srv.nak /\ srv'.failed = srv.failed
        /\ srv'.rogue = srv.kind.reports
    BY <2>1, <2>2, <2>3 DEF ServerType
  <2>5. Item("finish-replay") \in Items
    BY ItemType DEF Words
  <2> HIDE DEF q
  <2>6. ASSUME NEW z \in Spots, Guided, Meets(call, z, srv, out)
        PROVE  /\ Emits(call.kind, Told(call), z, Item("finish-replay"), q)
               /\ Meets(call, q, srv', out') /\ Astray(call, q, srv')
    <3>1. z.at = "amid" /\ z.n = NEvents /\ z.rev = srv.rev /\ srv.nak = 0
      BY <2>6, <1>1, AtEdit
    <3>2. Emits(call.kind, Told(call), z, Item("finish-replay"), q)
      BY <3>1, <1>2 DEF Emits, q
    <3>3. Astray(call, q, srv')
      BY <2>4, <1>2 DEF Astray
    <3>4. CASE call.pc \in Refusing
      <4>1. /\ \A i \in DOMAIN out : out[i] = "part"
            /\ Len(out) + call.left = FailureParts
        BY <3>4, <2>6, <1>1 DEF Meets, Hears
      <4>2. srv'.at = "respond" /\ q.at = "finished"
        BY <3>4, <2>2, <2>4, <2>6, <1>2, AtRefusal
      <4>3. Hears(q, srv', out', call.left)
        BY <4>1, <4>2, <3>1, <2>4, <1>1, <1>3 DEF Hears
      <4> QED
        BY <4>3, <3>2, <3>3, <3>4 DEF Meets
    <3>5. CASE call.pc \notin Refusing
      <4>1. Waits(call.kind, q, srv', out')
        BY <3>1, <2>2, <2>4, <1>3 DEF Waits
      <4> QED
        BY <4>1, <3>2, <3>3, <3>5 DEF Meets
    <3> QED
      BY <3>4, <3>5
  <2>7. Guided => TurnInv'
    BY <1>1, <1>2, <2>1, SayTurn
  <2>8. call.kind.reports /\ srv.rogue => srv'.rogue
    BY <2>4, <1>2
  <2> QED
    BY <1>1, <1>2, <1>3, <2>1, <2>2, <2>4, <2>5, <2>6, <2>7, <2>8, SayInv
<1> QED
  BY <1>5, <1>6 DEF SrvCloses

LEMMA SrvAbortAfterCloseStep ==
    ASSUME IInv, SrvAbortAfterClose
    PROVE  IInv'
<1>1. /\ srv.at = "abort" /\ out' = out /\ up /\ Len(in) < ToClient /\ in' = Append(in, Item("abort-edit"))
      /\ srv' = [srv EXCEPT !.at = "respond"] /\ UNCHANGED <<call, kept, up, delivered>>
  BY DEF SrvAbortAfterClose, Serve
<1>2. /\ up /\ srv \in ServerType /\ call.kind \in Methods /\ out \in Seq(Tokens) /\ Len(out) <= ToServer
      /\ srv.kind = call.kind /\ srv.rev \in 1 .. srv.kind.revs
      /\ Told(call) \in BOOLEAN
  BY <1>1, AtWork
<1>3. /\ srv' \in ServerType /\ srv'.at = "respond" /\ srv'.kind = srv.kind
      /\ srv'.rev = srv.rev /\ srv'.nak = srv.nak /\ srv'.failed = srv.failed /\ srv'.rogue = srv.rogue
  BY <1>1, <1>2 DEF ServerType
<1>4. Item("abort-edit") \in Items
  BY ItemType DEF Words
<1>5. ASSUME NEW z \in Spots, Guided, Meets(call, z, srv, out)
      PROVE  /\ Emits(call.kind, Told(call), z, Item("abort-edit"), Plain("broken"))
             /\ Meets(call, Plain("broken"), srv', out') /\ Astray(call, Plain("broken"), srv')
  <2>1. /\ call.pc \in Refusing /\ srv.failed /\ z.at = "shut" /\ out = <<>> /\ call.left = 0
        /\ \A i \in DOMAIN out : out[i] = "part"
    BY <1>5, <1>1 DEF Meets, Waits, Hears
  <2>2. Emits(call.kind, Told(call), z, Item("abort-edit"), Plain("broken"))
    BY <2>1 DEF Emits, Told
  <2>3. Hears(Plain("broken"), srv', out', call.left)
    BY <2>1, <1>1, <1>3, SpotFacts DEF Hears
  <2> QED
    BY <2>1, <2>2, <2>3, SpotFacts DEF Meets, Astray
<1>6. Guided => TurnInv'
  BY <1>1, <1>2, SayTurn
<1> QED
  BY <1>1, <1>2, <1>3, <1>4, <1>5, <1>6, SayInv

\* Where a server that is about to respond is.
LEMMA AtRespond ==
    ASSUME NEW c, NEW z, NEW s, NEW o, Meets(c, z, s, o), s.at = "respond"
    PROVE  \/ c.pc \notin Refusing /\ s.nak = 0 /\ ~s.failed /\ z.at = "finished"
           \/ c.pc \notin Refusing /\ s.nak = 0 /\ s.failed /\ z.at = "failing"
           \/ /\ c.pc \in Refusing /\ ~s.failed /\ z.at = "finished" /\ s.nak = 0
              /\ Len(o) + c.left = FailureParts /\ \A i \in DOMAIN o : o[i] = "part"
           \/ c.pc \in Refusing /\ ~s.failed /\ z.at = "shut" /\ o = <<>> /\ c.left = 0
           \/ c.pc \in Refusing /\ s.failed /\ z.at = "broken" /\ o = <<>> /\ c.left = 0
BY DEF Meets, Waits, Hears

\* Its response leads to an end.
LEMMA Responds ==
    ASSUME NEW c \in CallType, NEW z \in Spots, NEW s \in ServerType, NEW o \in Seq(Tokens),
           Meets(c, z, s, o), Astray(c, z, s), s.at = "respond",
           NEW s2, s2.at = "idle", s2.nak = 0, s2.rogue = s.rogue
    PROVE  \E q : /\ Emits(c.kind, Told(c), z, Item(IF s.failed THEN "fail" ELSE "success"), q)
                  /\ Meets(c, q, s2, o) /\ Astray(c, q, s2)
<1>1. DOMAIN <<>> = {} /\ Len(o) \in Int /\ c.left \in Int
  BY EmptySeq, SizeFacts DEF CallType
<1>2. CASE c.pc \notin Refusing /\ ~s.failed /\ z.at = "finished"
  <2>1. Emits(c.kind, Told(c), z, Item(IF s.failed THEN "fail" ELSE "success"), Plain("over"))
    BY <1>2 DEF Emits
  <2>2. Waits(c.kind, Plain("over"), s2, o)
    BY SpotFacts DEF Waits
  <2>3. Astray(c, Plain("over"), s2)
    BY <1>2 DEF Astray
  <2> QED
    BY <2>1, <2>2, <2>3, <1>2 DEF Meets
<1>3. CASE c.pc \notin Refusing /\ s.failed /\ z.at = "failing"
  <2>1. Emits(c.kind, Told(c), z, Item(IF s.failed THEN "fail" ELSE "success"), Plain("done"))
    BY <1>3 DEF Emits
  <2>2. Waits(c.kind, Plain("done"), s2, o)
    BY SpotFacts DEF Waits
  <2>3. Astray(c, Plain("done"), s2)
    BY SpotFacts DEF Astray
  <2> QED
    BY <2>1, <2>2, <2>3, <1>3 DEF Meets
<1>4. CASE /\ c.pc \in Refusing /\ ~s.failed /\ z.at = "finished" /\ s.nak = 0
           /\ Len(o) + c.left = FailureParts /\ \A i \in DOMAIN o : o[i] = "part"
  <2>1. Emits(c.kind, Told(c), z, Item(IF s.failed THEN "fail" ELSE "success"), Plain("over"))
    BY <1>4 DEF Emits
  <2>2. s2.nak + Len(o) + c.left = FailureParts
    <3>1. \A a, b \in Int : 0 + a + b = a + b
      OBVIOUS
    <3> QED
      BY <3>1, <1>1, <1>4
  <2>3. Hears(Plain("over"), s2, o, c.left)
    BY <2>2, <1>4, SpotFacts DEF Hears
  <2>4. Astray(c, Plain("over"), s2)
    BY <1>4 DEF Astray
  <2> QED
    BY <2>1, <2>3, <2>4, <1>4 DEF Meets
<1>5. CASE c.pc \in Refusing /\ ~s.failed /\ z.at = "shut" /\ o = <<>> /\ c.left = 0
  <2>1. Emits(c.kind, Told(c), z, Item(IF s.failed THEN "fail" ELSE "success"), Plain("done"))
    BY <1>5 DEF Emits, Told
  <2>2. Hears(Plain("done"), s2, o, c.left)
    BY <1>1, <1>5, SpotFacts DEF Hears
  <2>3. Astray(c, Plain("done"), s2)
    BY SpotFacts DEF Astray
  <2> QED
    BY <2>1, <2>2, <2>3, <1>5 DEF Meets
<1>6. CASE c.pc \in Refusing /\ s.failed /\ z.at = "broken" /\ o = <<>> /\ c.left = 0
  <2>1. Emits(c.kind, Told(c), z, Item(IF s.failed THEN "fail" ELSE "success"), Plain("done"))
    BY <1>6 DEF Emits, Told
  <2>2. Hears(Plain("done"), s2, o, c.left)
    BY <1>1, <1>6, SpotFacts DEF Hears
  <2>3. Astray(c, Plain("done"), s2)
    BY SpotFacts DEF Astray
  <2> QED
    BY <2>1, <2>2, <2>3, <1>6 DEF Meets
<1> QED
  BY <1>2, <1>3, <1>4, <1>5, <1>6, AtRespond

LEMMA SrvRespondsStep ==
    ASSUME IInv, SrvResponds
    PROVE  IInv'
<1> DEFINE item == Item(IF srv.failed THEN "fail" ELSE "success")
<1>1. /\ srv.at = "respond" /\ out' = out /\ up /\ Len(in) < ToClient /\ in' = Append(in, item)
      /\ srv' = Served /\ UNCHANGED <<call, kept, up, delivered>>
  BY DEF SrvResponds, Serve
<1>2. /\ up /\ srv \in ServerType /\ call \in CallType /\ out \in Seq(Tokens) /\ Len(out) <= ToServer
  BY <1>1, AtWork
<1>3. /\ srv' \in ServerType /\ srv'.at = "idle" /\ srv'.nak = 0 /\ srv'.rogue = srv.rogue
  BY <1>1, <1>2, ServedType
<1>4. item \in Items
  BY ItemType DEF Words
<1>5. ASSUME NEW z \in Spots, Meets(call, z, srv, out), Astray(call, z, srv)
      PROVE  \E q : /\ Emits(call.kind, Told(call), z, item, q)
                    /\ Meets(call, q, srv', out') /\ Astray(call, q, srv')
  BY <1>1, <1>2, <1>3, <1>5, Responds
<1>6. Guided => TurnInv'
  BY <1>1, <1>2, SayTurn
<1> HIDE DEF item
<1> QED
  BY <1>1, <1>2, <1>3, <1>4, <1>5, <1>6, SayInv

\* The parts of a failure that the server has still to read.
LEMMA PartCount ==
    ASSUME NEW n \in Nat, NEW m \in Nat, m >= 1, NEW left \in Nat, n + m + left = FailureParts
    PROVE  /\ (n + 1) + (m - 1) + left = FailureParts
           /\ n + 1 = FailureParts => left = 0 /\ m = 1
BY SizeFacts

\* A server reads a part of the failure: what it has been told, and how much
\* of it is still to come.
LEMMA AtPart ==
    ASSUME IInv, out # <<>>, Head(out) = "part", srv.at \in {"idle", "ack"},
           NEW z \in Spots, Guided, Meets(call, z, srv, out)
    PROVE  /\ call.pc \in Refusing
           /\ \A i \in DOMAIN Tail(out) : Tail(out)[i] = "part"
           /\ \/ srv.at = "idle" /\ z.at = "over"
              \/ srv.at = "ack" /\ ~srv.failed /\ z = Shut(srv.rev)
              \/ srv.at = "ack" /\ srv.failed /\ z.at = "broken"
           /\ (srv.nak + 1) + Len(Tail(out)) + call.left = FailureParts
           /\ srv.nak + 1 = FailureParts => call.left = 0 /\ Tail(out) = <<>>
<1>1. call.pc \in Refusing
  BY PartRead
<1>2. Hears(z, srv, out, call.left)
  BY <1>1 DEF Meets
<1>3. \A i \in DOMAIN Tail(out) : Tail(out)[i] = "part"
  BY <1>2, PartRead DEF Hears
<1>4. /\ \/ srv.at = "idle" /\ z.at = "over"
         \/ srv.at = "ack" /\ ~srv.failed /\ z = Shut(srv.rev)
         \/ srv.at = "ack" /\ srv.failed /\ z.at = "broken"
      /\ srv.nak + Len(out) + call.left = FailureParts
  BY <1>2 DEF Hears
<1>5. Len(out) \in Nat /\ Len(out) >= 1 /\ Len(Tail(out)) = Len(out) - 1
      /\ (Len(out) = 1 => Tail(out) = <<>>)
  BY HeadOut
<1>6. srv.nak \in Nat /\ call.left \in Nat
  BY SizeFacts DEF IInv, TypeOK, CallType, ServerType
<1>7. /\ (srv.nak + 1) + (Len(out) - 1) + call.left = FailureParts
      /\ srv.nak + 1 = FailureParts => call.left = 0 /\ Len(out) = 1
  BY <1>4, <1>5, <1>6, PartCount
<1> QED
  BY <1>1, <1>3, <1>4, <1>5, <1>7

LEMMA SrvUnknownCommandStep ==
    ASSUME IInv, SrvUnknownCommand
    PROVE  IInv'
<1>1. /\ srv.at = "idle" /\ out # <<>> /\ Head(out) = "part" /\ out' = Tail(out)
      /\ UNCHANGED <<call, kept, up, delivered>>
  BY DEF SrvUnknownCommand, Serve
<1>2. /\ up /\ srv \in ServerType /\ Told(call) \in BOOLEAN
      /\ out' \in Seq(Tokens) /\ Len(out') <= ToServer
  BY <1>1, AtWork, HeadOut
<1>3. Guided => TurnInv'
  <2>1. Guided => call.pc \in Refusing
    BY <1>1, PartRead
  <2> QED
    BY <2>1, <1>1 DEF TurnInv, Refusing
<1>4. srv.nak \in 0 .. FailureParts - 1
  BY <1>2 DEF ServerType
<1>5. CASE srv.nak + 1 < FailureParts /\ srv' = [srv EXCEPT !.nak = @ + 1] /\ in' = in
  <2>1. srv.nak + 1 \in 0 .. FailureParts - 1
    BY <1>4, <1>5, SizeFacts
  <2>2. /\ srv' \in ServerType /\ srv'.at = "idle" /\ srv'.nak = srv.nak + 1
        /\ srv'.rogue = srv.rogue
    BY <2>1, <1>1, <1>2, <1>5 DEF ServerType
  <2>3. ASSUME NEW z \in Spots, Guided, Meets(call, z, srv, out)
        PROVE  Meets(call, z, srv', out')
    <3>1. /\ call.pc \in Refusing /\ z.at = "over"
          /\ \A i \in DOMAIN out' : out'[i] = "part"
          /\ srv'.nak + Len(out') + call.left = FailureParts
      BY <2>2, <2>3, <1>1, AtPart
    <3>2. Hears(z, srv', out', call.left)
      BY <3>1, <2>2 DEF Hears
    <3> QED
      BY <3>1, <3>2 DEF Meets
  <2> QED
    BY <1>1, <1>2, <1>3, <1>5, <2>2, <2>3, HushInv
<1>6. CASE srv.nak + 1 = FailureParts /\ Serve(Item("fail"), Served)
  <2>1. Len(in) < ToClient /\ in' = Append(in, Item("fail")) /\ srv' = Served
    BY <1>6 DEF Serve
  <2>2. /\ srv' \in ServerType /\ srv'.at = "idle" /\ srv'.nak = 0 /\ srv'.rogue = srv.rogue
    BY <2>1, <1>2, ServedType
  <2>3. Item("fail") \in Items
    BY ItemType DEF Words
  <2>4. ASSUME NEW z \in Spots, Guided, Meets(call, z, srv, out), Astray(call, z, srv)
        PROVE  /\ Emits(call.kind, Told(call), z, Item("fail"), Plain("denied"))
               /\ Meets(call, Plain("denied"), srv', out') /\ Astray(call, Plain("denied"), srv')
    <3>1. /\ call.pc \in Refusing /\ z.at = "over" /\ call.left = 0 /\ out' = <<>>
          /\ \A i \in DOMAIN out' : out'[i] = "part"
      BY <2>4, <1>1, <1>6, AtPart
    <3>2. Emits(call.kind, Told(call), z, Item("fail"), Plain("denied"))
      BY <3>1 DEF Emits, Told
    <3>3. Hears(Plain("denied"), srv', out', call.left)
      BY <3>1, <2>2, SpotFacts DEF Hears
    <3>4. Astray(call, Plain("denied"), srv')
      BY <3>1, <2>2, <2>4 DEF Astray
    <3> QED
      BY <3>1, <3>2, <3>3, <3>4 DEF Meets
  <2> QED
    BY <1>1, <1>2, <1>3, <2>1, <2>2, <2>3, <2>4, SayInv
<1> QED
  BY <1>5, <1>6 DEF SrvUnknownCommand

LEMMA SrvAckStep ==
    ASSUME IInv, SrvAck
    PROVE  IInv'
<1>1. /\ srv.at = "ack" /\ out # <<>> /\ out' = Tail(out)
      /\ UNCHANGED <<call, kept, up, in, delivered>>
  BY DEF SrvAck
<1>2. /\ up /\ srv \in ServerType /\ srv.kind = call.kind /\ srv.rev \in 1 .. srv.kind.revs
      /\ out' \in Seq(Tokens) /\ Len(out') <= ToServer /\ Told(call) \in BOOLEAN
  BY <1>1, AtWork, HeadOut
<1>3. srv.nak \in 0 .. FailureParts - 1
  BY <1>2 DEF ServerType
<1>4. CASE Head(out) = "success" /\ srv' = Over(srv)
  <2>1. /\ srv' \in ServerType /\ srv'.at \in {"revprops", "respond"}
        /\ srv'.kind = srv.kind /\ srv'.rev \in 1 .. srv.kind.revs /\ srv'.nak = srv.nak
        /\ srv'.failed = srv.failed /\ srv'.rogue = srv.rogue
        /\ srv'.at = "revprops" => ~srv.failed
        /\ ~srv.failed /\ srv'.at = "revprops" => After(srv.kind, srv.rev) = Before(srv'.rev)
        /\ ~srv.failed /\ srv'.at = "respond" => After(srv.kind, srv.rev).at = "finished"
        /\ srv.failed => srv'.at = "respond"
    BY <1>2, <1>4, OverFacts
  <2>2. Guided => TurnInv'
    <3>1. Guided => call.pc \in {"revprops", "response"} /\ Tail(out) = <<>>
      BY <1>1, <1>2, <1>4, HeadWord
    <3> QED
      BY <3>1, <1>1 DEF TurnInv
  <2>3. ASSUME NEW z \in Spots, Guided, Meets(call, z, srv, out)
        PROVE  Meets(call, z, srv', out')
    <3>1. call.pc \notin Refusing
      BY <2>3, <1>1, <1>2, <1>4, HeadWord
    <3>2. /\ srv.nak = 0
          /\ \/ ~srv.failed /\ z = After(srv.kind, srv.rev)
             \/ srv.failed /\ z.at = "failing"
      BY <2>3, <3>1, <1>1, <1>2 DEF Meets, Waits
    <3>3. Waits(call.kind, z, srv', out')
      BY <3>2, <2>1, <1>2 DEF Waits
    <3> QED
      BY <3>1, <3>3 DEF Meets
  <2> QED
    BY <1>1, <1>2, <2>1, <2>2, <2>3, HushInv
<1>5. Head(out) = "part" => (Guided => TurnInv')
  <2>1. Head(out) = "part" /\ Guided => call.pc \in Refusing
    BY <1>1, PartRead
  <2> QED
    BY <2>1, <1>1 DEF TurnInv, Refusing
<1>6. CASE Head(out) = "part" /\ srv.nak + 1 < FailureParts /\ srv' = [srv EXCEPT !.nak = @ + 1]
  <2>1. srv.nak + 1 \in 0 .. FailureParts - 1
    BY <1>3, <1>6, SizeFacts
  <2>2. /\ srv' \in ServerType /\ srv'.at = "ack" /\ srv'.kind = srv.kind /\ srv'.rev = srv.rev
        /\ srv'.nak = srv.nak + 1 /\ srv'.failed = srv.failed /\ srv'.rogue = srv.rogue
    BY <2>1, <1>1, <1>2, <1>6 DEF ServerType
  <2>3. ASSUME NEW z \in Spots, Guided, Meets(call, z, srv, out)
        PROVE  Meets(call, z, srv', out')
    <3>1. /\ call.pc \in Refusing
          /\ \/ ~srv.failed /\ z = Shut(srv.rev)
             \/ srv.failed /\ z.at = "broken"
          /\ \A i \in DOMAIN out' : out'[i] = "part"
          /\ srv'.nak + Len(out') + call.left = FailureParts
      BY <2>2, <2>3, <1>1, <1>6, AtPart
    <3>2. Hears(z, srv', out', call.left)
      BY <3>1, <2>2 DEF Hears
    <3> QED
      BY <3>1, <3>2 DEF Meets
  <2> QED
    BY <1>1, <1>2, <1>5, <1>6, <2>2, <2>3, HushInv
<1>7. ASSUME Head(out) = "part", srv.nak + 1 = FailureParts,
             \/ srv' = [srv EXCEPT !.at = "respond"]
             \/ ~srv.failed /\ srv' = [srv EXCEPT !.at = "abort", !.failed = TRUE]
      PROVE  IInv'
  <2>1. /\ srv' \in ServerType /\ srv'.kind = srv.kind /\ srv'.rev = srv.rev
        /\ srv'.nak = srv.nak /\ srv'.rogue = srv.rogue
        /\ \/ srv'.at = "respond" /\ srv'.failed = srv.failed
           \/ srv'.at = "abort" /\ ~srv.failed /\ srv'.failed = TRUE
    BY <1>2, <1>7 DEF ServerType
  <2>2. ASSUME NEW z \in Spots, Guided, Meets(call, z, srv, out)
        PROVE  Meets(call, z, srv', out')
    <3>1. /\ call.pc \in Refusing
          /\ \/ ~srv.failed /\ z = Shut(srv.rev)
             \/ srv.failed /\ z.at = "broken"
          /\ \A i \in DOMAIN out' : out'[i] = "part"
          /\ call.left = 0 /\ out' = <<>>
      BY <2>2, <1>1, <1>7, AtPart
    <3>2. Hears(z, srv', out', call.left)
      BY <3>1, <2>1, SpotFacts DEF Hears
    <3> QED
      BY <3>1, <3>2 DEF Meets
  <2> QED
    BY <1>1, <1>2, <1>5, <1>7, <2>1, <2>2, HushInv
<1> QED
  BY <1>4, <1>6, <1>7 DEF SrvAck

LEMMA SrvReportStep ==
    ASSUME IInv, SrvReport
    PROVE  IInv'
<1>1. /\ srv.at = "report" /\ out # <<>> /\ Head(out) = "report" /\ out' = Tail(out)
      /\ UNCHANGED <<call, kept, up, delivered>>
  BY DEF SrvReport, Serve
<1>2. /\ up /\ srv \in ServerType /\ srv.kind = call.kind /\ srv.rev \in 1 .. srv.kind.revs
      /\ out' \in Seq(Tokens) /\ Len(out') <= ToServer /\ Told(call) \in BOOLEAN
  BY <1>1, AtWork, HeadOut
<1>3. ~srv.failed
  BY <1>1 DEF IInv, LinkInv
<1>4. Guided => call.pc = "auth2" /\ call.pc \notin Refusing /\ in = <<>> /\ Tail(out) = <<>>
  BY <1>1, <1>2, HeadWord
<1>5. Guided => TurnInv'
  BY <1>1, <1>4 DEF TurnInv
<1>6. ASSUME NEW z \in Spots, Guided, Meets(call, z, srv, out),
             in = <<>> => Stands(call, Len(delivered), z, FALSE)
      PROVE  z.at = "reporting" /\ srv.rev = 1 /\ srv.sent = 0 /\ srv.nak = 0
  <2>1. z.at = "reporting"
    BY <1>4, <1>6 DEF Stands
  <2> QED
    BY <2>1, <1>1, <1>4, <1>6 DEF Meets, Waits
<1>7. CASE Serve(Item("auth"), [srv EXCEPT !.at = "edit"])
  <2>1. Len(in) < ToClient /\ in' = Append(in, Item("auth")) /\ srv' = [srv EXCEPT !.at = "edit"]
    BY <1>7 DEF Serve
  <2>2. /\ srv' \in ServerType /\ srv'.at = "edit" /\ srv'.kind = srv.kind /\ srv'.rev = srv.rev
        /\ srv'.sent = srv.sent /\ srv'.nak = srv.nak /\ srv'.failed = srv.failed /\ srv'.rogue = srv.rogue
    BY <2>1, <1>2 DEF ServerType
  <2>3. Item("auth") \in Items
    BY ItemType DEF Words
  <2>4. ASSUME NEW z \in Spots, Guided, Meets(call, z, srv, out),
               in = <<>> => Stands(call, Len(delivered), z, FALSE)
        PROVE  /\ Emits(call.kind, Told(call), z, Item("auth"), Amid(1, 0))
               /\ Meets(call, Amid(1, 0), srv', out') /\ Astray(call, Amid(1, 0), srv')
    <3>1. z.at = "reporting" /\ srv.rev = 1 /\ srv.sent = 0 /\ srv.nak = 0
      BY <2>4, <1>6
    <3>2. Emits(call.kind, Told(call), z, Item("auth"), Amid(1, 0))
      BY <3>1 DEF Emits
    <3>3. Waits(call.kind, Amid(1, 0), srv', out')
      BY <3>1, <2>2 DEF Waits
    <3> QED
      BY <3>2, <3>3, <2>4, <1>4, SpotFacts DEF Meets, Astray
  <2> QED
    BY <1>1, <1>2, <1>3, <1>5, <2>1, <2>2, <2>3, <2>4, SayInv
<1>8. CASE Serve(Item("fail"), Served)
  <2>1. Len(in) < ToClient /\ in' = Append(in, Item("fail")) /\ srv' = Served
    BY <1>8 DEF Serve
  <2>2. /\ srv' \in ServerType /\ srv'.at = "idle" /\ srv'.nak = 0 /\ srv'.rogue = srv.rogue
    BY <2>1, <1>2, ServedType
  <2>3. Item("fail") \in Items
    BY ItemType DEF Words
  <2>4. ASSUME NEW z \in Spots, Guided, Meets(call, z, srv, out),
               in = <<>> => Stands(call, Len(delivered), z, FALSE)
        PROVE  /\ Emits(call.kind, Told(call), z, Item("fail"), Plain("done"))
               /\ Meets(call, Plain("done"), srv', out') /\ Astray(call, Plain("done"), srv')
    <3>1. z.at = "reporting"
      BY <2>4, <1>6
    <3>2. Emits(call.kind, Told(call), z, Item("fail"), Plain("done"))
      BY <3>1 DEF Emits
    <3>3. Waits(call.kind, Plain("done"), srv', out')
      BY <2>2, SpotFacts DEF Waits
    <3> QED
      BY <3>2, <3>3, <2>4, <1>4, SpotFacts DEF Meets, Astray
  <2> QED
    BY <1>1, <1>2, <1>5, <2>1, <2>2, <2>3, <2>4, SayInv
<1> QED
  BY <1>7, <1>8 DEF SrvReport

LEMMA SrvCommandStep ==
    ASSUME IInv, SrvCommand
    PROVE  IInv'
<1>1. /\ srv.at = "idle" /\ out # <<>> /\ Head(out) = "command" /\ out' = Tail(out)
      /\ UNCHANGED <<call, kept, up, delivered>>
  BY DEF SrvCommand, Serve
<1>2. /\ up /\ srv \in ServerType /\ call.kind \in Methods
      /\ out' \in Seq(Tokens) /\ Len(out') <= ToServer /\ Told(call) \in BOOLEAN
  BY <1>1, AtWork, HeadOut
<1>3. Guided => call.pc = "auth" /\ call.pc \notin Refusing /\ in = <<>> /\ Tail(out) = <<>>
  BY <1>1, <1>2, HeadWord
<1>4. ASSUME NEW z \in Spots, Guided, Meets(call, z, srv, out),
             in = <<>> => Stands(call, Len(delivered), z, FALSE)
      PROVE  z.at = "calling" /\ srv.nak = 0 /\ call.pc \notin Refusing /\ in = <<>>
  BY <1>3, <1>4 DEF Stands, Meets, Waits
<1>5. ASSUME NEW item, in' = Append(in, item), Guided
      PROVE  TurnInv'
  <2>1. in' = <<item>>
    BY <1>3, <1>5
  <2>2. Len(in') <= 1
    BY <2>1
  <2> QED
    BY <2>2, <1>1, <1>3, <1>5 DEF TurnInv
<1>6. CASE Serve(Item("fail"), srv)
  <2>1. Len(in) < ToClient /\ in' = Append(in, Item("fail")) /\ srv' = srv
    BY <1>6 DEF Serve
  <2>2. Item("fail") \in Items
    BY ItemType DEF Words
  <2>3. ASSUME NEW z \in Spots, Guided, Meets(call, z, srv, out),
               in = <<>> => Stands(call, Len(delivered), z, FALSE)
        PROVE  /\ Emits(call.kind, Told(call), z, Item("fail"), Plain("done"))
               /\ Meets(call, Plain("done"), srv', out') /\ Astray(call, Plain("done"), srv')
    <3>1. z.at = "calling" /\ srv.nak = 0 /\ call.pc \notin Refusing
      BY <2>3, <1>4
    <3>2. Emits(call.kind, Told(call), z, Item("fail"), Plain("done"))
      BY <3>1 DEF Emits
    <3>3. Waits(call.kind, Plain("done"), srv', out')
      BY <3>1, <2>1, <1>1, SpotFacts DEF Waits
    <3> QED
      BY <3>1, <3>2, <3>3, SpotFacts DEF Meets, Astray
  <2>4. Guided => TurnInv'
    BY <2>1, <1>5
  <2> QED
    BY <1>1, <1>2, <2>1, <2>2, <2>3, <2>4, SayInv
<1> DEFINE place == IF call.kind.reports THEN "report" ELSE IF Ranges THEN "revprops" ELSE "edit"
           next == [Quiet EXCEPT !.kind = call.kind, !.rev = 1, !.at = place]
<1>7. CASE Serve(Item("auth"), next)
  <2>1. Len(in) < ToClient /\ in' = Append(in, Item("auth")) /\ srv' = next
    BY <1>7 DEF Serve
  <2>2. 1 \in 0 .. NRevs /\ 1 \in 1 .. call.kind.revs
    BY <1>2, MethodFacts, SizeFacts
  <2>3. place \in {"report", "revprops", "edit"}
    OBVIOUS
  <2>4. /\ srv' \in ServerType /\ srv'.at = place /\ srv'.kind = call.kind /\ srv'.rev = 1
        /\ srv'.sent = 0 /\ srv'.nak = 0 /\ srv'.failed = FALSE
    <3> HIDE DEF place
    <3>1. Quiet \in ServerType /\ Quiet.sent = 0 /\ Quiet.nak = 0 /\ Quiet.failed = FALSE
      BY QuietType DEF Quiet
    <3> QED
      BY <3>1, <2>1, <2>2, <2>3, <1>2 DEF ServerType
  <2>5. Item("auth") \in Items
    BY ItemType DEF Words
  <2>6. ASSUME NEW z \in Spots, Guided, Meets(call, z, srv, out),
               in = <<>> => Stands(call, Len(delivered), z, FALSE)
        PROVE  /\ Emits(call.kind, Told(call), z, Item("auth"), Entry(call.kind))
               /\ Meets(call, Entry(call.kind), srv', out') /\ Astray(call, Entry(call.kind), srv')
               /\ in = <<>> /\ Astray(call, z, srv')
    <3>1. z.at = "calling" /\ call.pc \notin Refusing /\ in = <<>>
      BY <2>6, <1>4
    <3>2. Emits(call.kind, Told(call), z, Item("auth"), Entry(call.kind))
      BY <3>1 DEF Emits
    <3>3. Waits(call.kind, Entry(call.kind), srv', out')
      BY <2>4, SpotFacts DEF Waits, Entry, Ranges
    <3>4. Entry(call.kind).at \in {"reporting", "before", "amid"}
      BY SpotFacts DEF Entry
    <3> QED
      BY <3>1, <3>2, <3>3, <3>4 DEF Meets, Astray
  <2>7. Guided => TurnInv'
    BY <2>1, <1>5
  <2> HIDE DEF next, place
  <2> QED
    BY <1>1, <1>2, <2>1, <2>2, <2>4, <2>5, <2>6, <2>7, SayInv
<1> QED
  BY <1>6, <1>7 DEF SrvCommand

-----------------------------------------------------------------------------
(* The theorems.                                                           *)

\* Every step of the client, the server, the clock and the network keeps the
\* invariant.
LEMMA NextInv == IInv /\ [Next]_vars => IInv'
<1> SUFFICES ASSUME IInv, [Next]_vars PROVE IInv'
  OBVIOUS
<1>1. ASSUME NEW kind \in Kinds, NEW report \in {"good", "badpath", "abortreport"},
             Start(kind, report)
      PROVE  IInv'
  BY <1>1, StartStep
<1>2. CASE RefuseReport
  BY <1>2, RefuseReportStep
<1>3. CASE SendCommand
  BY <1>3, SendCommandStep
<1>4. CASE SendReport
  BY <1>4, SendReportStep
<1>5. CASE ReadAuth
  BY <1>5, ReadAuthStep
<1>6. CASE ReadRevProps
  BY <1>6, ReadRevPropsStep
<1>7. CASE ReadEvent
  BY <1>7, ReadEventStep
<1>8. CASE ReadFailure
  BY <1>8, ReadFailureStep
<1>9. CASE ReadClose
  BY <1>9, ReadCloseStep
<1>10. CASE WriteAck
  BY <1>10, WriteAckStep
<1>11. CASE ReadFinishReplay
  BY <1>11, ReadFinishReplayStep
<1>12. CASE WriteFailure
  BY <1>12, WriteFailureStep
<1>13. CASE FailureWritten
  BY <1>13, FailureWrittenStep
<1>14. CASE Drain
  BY <1>14, DrainStep
<1>15. CASE ReadAborted
  BY <1>15, ReadAbortedStep
<1>16. CASE ReadResponse
  BY <1>16, ReadResponseStep
<1>17. CASE ReadEof
  BY <1>17, ReadEofStep
<1>18. CASE SrvCommand
  BY <1>18, SrvCommandStep
<1>19. CASE SrvUnknownCommand
  BY <1>19, SrvUnknownCommandStep
<1>20. CASE SrvReport
  BY <1>20, SrvReportStep
<1>21. CASE SrvRevProps
  BY <1>21, SrvRevPropsStep
<1>22. CASE SrvEvent
  BY <1>22, SrvEventStep
<1>23. CASE SrvCloses
  BY <1>23, SrvClosesStep
<1>24. CASE SrvAborts
  BY <1>24, SrvAbortsStep
<1>25. CASE SrvAck
  BY <1>25, SrvAckStep
<1>26. CASE SrvAbortAfterClose
  BY <1>26, SrvAbortAfterCloseStep
<1>27. CASE SrvResponds
  BY <1>27, SrvRespondsStep
<1>28. CASE TimesOut
  BY <1>28, TimesOutStep
<1>29. CASE Lose
  BY <1>29, LoseStep
<1>30. CASE UNCHANGED vars
  <2>1. UNCHANGED <<call, kept, up, out, in, srv, delivered>>
    BY <1>30 DEF vars
  <2>2. TypeOK' /\ LinkInv' /\ CallInv' /\ RestInv' /\ InOrder' /\ OkIsComplete'
    BY <2>1 DEF IInv, TypeOK, LinkInv, CallInv, RestInv, InOrder, OkIsComplete, Ranges, Spoilt
  <2>3. Guided' => PathInv' /\ TurnInv'
    BY <2>1 DEF IInv, Guided, Ranges, PathInv, TurnInv
  <2> QED
    BY <2>2, <2>3 DEF IInv
<1>31. CASE Client
  BY <1>31, <1>2, <1>3, <1>4, <1>5, <1>6, <1>7, <1>8, <1>9, <1>10, <1>11, <1>12, <1>13,
     <1>14, <1>15, <1>16, <1>17 DEF Client
<1>32. CASE Server
  BY <1>32, <1>18, <1>19, <1>20, <1>21, <1>22, <1>23, <1>24, <1>25, <1>26, <1>27 DEF Server
<1> QED
  BY <1>1, <1>28, <1>29, <1>30, <1>31, <1>32 DEF Next

\* Client and server stand at the two ends of what is under way between them,
\* in every state of every behaviour.
THEOREM Invariance == Spec => []IInv
<1>1. Init => IInv
  BY InitInv
<1>2. IInv /\ [Next]_vars => IInv'
  BY NextInv
<1> QED
  BY <1>1, <1>2, PTL DEF Spec

\* A session that keeps its connection after an update, a switch, a diff, a
\* status or a replay finds the server at the start of a new command, however
\* the drive ended, whoever broke it off and whatever was lost on the way
\* (drive_editor, handle_editor_consumer_error, drop_conn).
THEOREM NeverOutOfStep == Spec => []InSync
<1>1. IInv => InSync
  BY DEF IInv, RestInv, InSync, AlwaysInSync
<1> QED
  BY <1>1, Invariance, PTL

\* The handler is given the events of the drive in order, none twice and none
\* left out, and Ok is returned only when it has been given all of them.
THEOREM DeliversInOrder == Spec => []Delivery
<1>1. IInv => Delivery
  BY DEF IInv, Delivery
<1> QED
  BY <1>1, Invariance, PTL

\* Where a draining client stands, and what it can still expect.
LEMMA DrainHopes ==
    ASSUME IInv, call.kind.reports, ~srv.rogue
    PROVE  NoVainDrain
<1> SUFFICES ASSUME call.pc = "drain", in = <<>>, up, InVain
             PROVE  FALSE
  BY DEF NoVainDrain
<1>1. call.pc \in Refusing /\ call.pc # "response" /\ call.kind \in Methods /\ call.left \in Nat
  BY SizeFacts DEF Refusing, IInv, TypeOK, CallType
<1>2. Guided
  <2>1. call.err # "finish"
    BY <1>1 DEF IInv, CallInv
  <2>2. call.kind # ReplayRange
    BY <1>1 DEF ReplayRange, Drive
  <2> QED
    BY <1>1, <2>1, <2>2 DEF Guided, Ranges, Refusing
<1>3. PICK p \in Spots : /\ Stands(call, Len(delivered), p, ~up)
                         /\ Meets(call, p, srv, out) /\ Astray(call, p, srv)
  BY <1>2, BareStep
<1>4. call.left = 0 /\ p.at \in {"amid", "shut"}
  BY <1>1, <1>3 DEF Stands, Firm, Astray
<1>5. out = <<>> /\ srv.at \in {"idle", "ack"} /\ Len(out) = 0
  BY EmptySeq DEF InVain
<1>6. Hears(p, srv, out, call.left)
  BY <1>1, <1>3 DEF Meets
<1>7. srv.at = "ack" /\ srv.nak + Len(out) + call.left = FailureParts
  BY <1>4, <1>5, <1>6 DEF Hears
<1>8. srv.nak = FailureParts /\ srv.nak \in 0 .. FailureParts - 1
  <2>1. srv.nak \in 0 .. FailureParts - 1
    BY DEF IInv, TypeOK, ServerType
  <2>2. srv.nak + 0 + 0 = FailureParts
    BY <1>4, <1>5, <1>7
  <2> QED
    BY <2>1, <2>2, SizeFacts
<1> QED
  BY <1>8, SizeFacts

\* Where only abort-edit can end the drive, a client that drains it does so
\* while the server still has a word to say: the error of the handler is not
\* lost to a read timeout (write_cmd_failure_early, drain_until_abort_or_success).
THEOREM DrainsOnce == Spec => []ReportsDrainOnce
<1>1. IInv => ReportsDrainOnce
  BY DrainHopes DEF ReportsDrainOnce
<1> QED
  BY <1>1, Invariance, PTL

==============================================================================
