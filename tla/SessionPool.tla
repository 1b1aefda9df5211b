----------------------------- MODULE SessionPool -----------------------------
(***************************************************************************)
(* SessionPool (pool/session.rs): tasks that check sessions out and drop   *)
(* them, tasks that warm the pool up, the tokio semaphore that bounds them *)
(* and the idle list behind its mutex.  Each await, each lock section and  *)
(* each permit that is released is a step of its own.                      *)
(***************************************************************************)
EXTENDS Integers, Sequences, FiniteSets

CONSTANTS
    Tasks,          \* tasks that share the pool
    Sessions,       \* identities for sessions, enough never to run out
    MaxSessions,    \* SessionPoolConfig::max_sessions
    WarmTargets,    \* the targets warm_up_to is called with, {} for never
    AcquireTimeout, \* TRUE when acquire_timeout is set
    IdleTimeout,    \* TRUE when idle_timeout is set
    HealthCheck     \* SessionPoolHealthCheck

ASSUME SizeAssumption == MaxSessions \in Nat \ {0} /\ WarmTargets \subseteq Nat
ASSUME TaskAssumption == IsFiniteSet(Tasks) /\ IsFiniteSet(Sessions)
ASSUME ConfigAssumption ==
    /\ AcquireTimeout \in BOOLEAN /\ IdleTimeout \in BOOLEAN
    /\ HealthCheck \in {"None", "OnCheckout", "OnCheckoutIfIdleFor"}

VARIABLES
    pc,     \* where each task is
    target, \* the clamped target of the warm-up a task runs, 0 for session()
    avail,  \* permits nobody holds
    queue,  \* tasks waiting for a permit, first come first served
    perm,   \* permits each task holds
    mine,   \* sessions each task holds
    idle,   \* Inner::idle, the most recently returned session last
    aged,   \* idle sessions whose idle time has reached idle_timeout
    stale   \* those of them that had at the `now' of each task

vars == <<pc, target, avail, queue, perm, mine, idle, aged, stale>>
permits == <<avail, queue, perm>>

InIdle == {idle[i] : i \in DOMAIN idle}
Holds(t) == {mine[t][i] : i \in DOMAIN mine[t]}
Live == InIdle \cup UNION {Holds(t) : t \in Tasks}

\* Mutant: a target beyond the limit is not clamped.
First(a, b) == a

Lowest(a, b) == IF a <= b THEN a ELSE b

-----------------------------------------------------------------------------
(* acquire_permit and the semaphore.                                       *)

\* Where a task goes on once it has its permit.
Granted(t) == IF target[t] = 0 THEN "now" ELSE "opening"

TakePermit(t) ==
    /\ avail > 0
    /\ avail' = avail - 1
    /\ perm' = [perm EXCEPT ![t] = @ + 1]
    /\ UNCHANGED queue

Enqueue(t) ==
    /\ avail = 0
    /\ queue' = Append(queue, t)
    /\ UNCHANGED <<avail, perm>>

\* A permit that is free is taken at once, otherwise the task queues up.
Acquire(t) == TakePermit(t) \/ Enqueue(t)

AfterAcquire(t, granted) == IF avail > 0 THEN granted ELSE "waiting"

\* Mutant: a waiter is not woken when a permit comes back.
ReleaseUnnoticed(t, done) ==
    /\ perm[t] > 0
    /\ avail' = avail + 1
    /\ perm' = [perm EXCEPT ![t] = @ - 1]
    /\ pc' = [pc EXCEPT ![t] = IF perm[t] = 1 THEN done ELSE @]
    /\ UNCHANGED queue

FreePermit(t, done) ==
    /\ queue = <<>>
    /\ avail' = avail + 1
    /\ perm' = [perm EXCEPT ![t] = @ - 1]
    /\ pc' = [pc EXCEPT ![t] = IF perm[t] = 1 THEN done ELSE @]
    /\ UNCHANGED queue

HandOver(t, done) ==
    /\ queue # <<>>
    /\ perm' = [perm EXCEPT ![t] = @ - 1, ![Head(queue)] = @ + 1]
    /\ pc' = [pc EXCEPT ![t] = IF perm[t] = 1 THEN done ELSE @,
                        ![Head(queue)] = Granted(Head(queue))]
    /\ queue' = Tail(queue)
    /\ UNCHANGED avail

\* Mutant: the permit goes to a waiter and is still counted as free.
ReleaseTwice(t, done) ==
    /\ perm[t] > 0
    /\ avail' = avail + 1
    /\ IF queue = <<>>
       THEN /\ perm' = [perm EXCEPT ![t] = @ - 1]
            /\ pc' = [pc EXCEPT ![t] = IF perm[t] = 1 THEN done ELSE @]
            /\ UNCHANGED queue
       ELSE /\ perm' = [perm EXCEPT ![t] = @ - 1, ![Head(queue)] = @ + 1]
            /\ pc' = [pc EXCEPT ![t] = IF perm[t] = 1 THEN done ELSE @,
                                ![Head(queue)] = Granted(Head(queue))]
            /\ queue' = Tail(queue)

\* One permit is dropped: the first waiter gets it, if there is one.  A task
\* that has dropped its last permit goes to done.
Release(t, done) ==
    /\ perm[t] > 0
    /\ FreePermit(t, done) \/ HandOver(t, done)

\* The queue without the waiter at place i.
Unqueued(i) ==
    [j \in 1 .. Len(queue) - 1 |-> IF j < i THEN queue[j] ELSE queue[j + 1]]

-----------------------------------------------------------------------------
(* SessionPool::session and PooledSession::drop.                           *)

StartSession(t) ==
    /\ pc[t] = "out"
    /\ Acquire(t)
    /\ pc' = [pc EXCEPT ![t] = AfterAcquire(t, "now")]
    /\ UNCHANGED <<target, mine, idle, aged, stale>>

\* What the `now' that is taken before the loop shows.
ExpiredNow(t) == stale[t]

TakeNow(t) ==
    /\ pc[t] = "now"
    /\ stale' = [stale EXCEPT ![t] = aged]
    /\ pc' = [pc EXCEPT ![t] = "pop"]
    /\ UNCHANGED <<target, permits, mine, idle, aged>>

\* Mutant: the entry is looked at but stays in the list.
Peeked == idle

\* The idle list after one pop.
Popped == SubSeq(idle, 1, Len(idle) - 1)

\* pop_idle_session, the idle timeout and the decision to check.
Pop(t) ==
    /\ pc[t] = "pop" /\ idle # <<>>
    /\ idle' = Popped
    /\ LET s == idle[Len(idle)] IN
       /\ aged' = aged \ {s}
       /\ \/ /\ s \in ExpiredNow(t)
             /\ UNCHANGED <<pc, mine>>
          \/ /\ s \notin ExpiredNow(t)
             /\ mine' = [mine EXCEPT ![t] = <<s>>]
             /\ \/ HealthCheck # "OnCheckout" /\ pc' = [pc EXCEPT ![t] = "holding"]
                \/ HealthCheck # "None" /\ pc' = [pc EXCEPT ![t] = "checking"]
    /\ UNCHANGED <<target, permits, stale>>

PopNone(t) ==
    /\ pc[t] = "pop" /\ idle = <<>>
    /\ pc' = [pc EXCEPT ![t] = "opening"]
    /\ UNCHANGED <<target, permits, mine, idle, aged, stale>>

\* get_latest_rev on the idle session.
CheckPasses(t) ==
    /\ pc[t] = "checking"
    /\ pc' = [pc EXCEPT ![t] = "holding"]
    /\ UNCHANGED <<target, permits, mine, idle, aged, stale>>

CheckFails(t) ==
    /\ pc[t] = "checking"
    /\ mine' = [mine EXCEPT ![t] = <<>>]
    /\ pc' = [pc EXCEPT ![t] = "pop"]
    /\ UNCHANGED <<target, permits, idle, aged, stale>>

\* open_session, for session() and for warm_up_to.
Opened(t) ==
    /\ pc[t] = "opening"
    /\ \E s \in Sessions \ Live : mine' = [mine EXCEPT ![t] = Append(@, s)]
    /\ pc' = [pc EXCEPT ![t] = IF target[t] = 0 THEN "holding" ELSE "counting"]
    /\ UNCHANGED <<target, permits, idle, aged, stale>>

OpenFails(t) ==
    /\ pc[t] = "opening"
    /\ pc' = [pc EXCEPT ![t] = "releasing"]
    /\ UNCHANGED <<target, permits, mine, idle, aged, stale>>

\* The sessions of t go to the idle list, stamped with the time of the push.
Push(t) ==
    /\ idle' = idle \o mine[t]
    /\ stale' = [u \in Tasks |-> stale[u] \ Holds(t)]
    /\ mine' = [mine EXCEPT ![t] = <<>>]

\* PooledSession::drop pushes the session first ...
PutBack(t) ==
    /\ pc[t] = "holding"
    /\ Push(t)
    /\ pc' = [pc EXCEPT ![t] = "releasing"]
    /\ UNCHANGED <<target, permits, aged>>

\* ... and drops the permit after it.  A warm-up that failed drops its permits
\* before its sessions: locals go in the reverse order of their declaration.
ReleasePermit(t) ==
    /\ pc[t] = "releasing"
    /\ Release(t, IF mine[t] = <<>> THEN "out" ELSE "closing")
    /\ target' = IF perm[t] = 1 THEN [target EXCEPT ![t] = 0] ELSE target
    /\ UNCHANGED <<mine, idle, aged, stale>>

CloseSessions(t) ==
    /\ pc[t] = "closing"
    /\ mine' = [mine EXCEPT ![t] = <<>>]
    /\ pc' = [pc EXCEPT ![t] = "out"]
    /\ UNCHANGED <<target, permits, idle, aged, stale>>

-----------------------------------------------------------------------------
(* SessionPool::warm_up_to.                                                *)

StartWarmUp(t, n) ==
    /\ pc[t] = "out" /\ Lowest(n, MaxSessions) > 0
    /\ target' = [target EXCEPT ![t] = Lowest(n, MaxSessions)]
    /\ pc' = [pc EXCEPT ![t] = "counting"]
    /\ UNCHANGED <<permits, mine, idle, aged, stale>>

\* The loop head: one more permit, unless there are idle sessions enough.
Count(t) ==
    /\ pc[t] = "counting" /\ Len(idle) + Len(mine[t]) < target[t]
    /\ Acquire(t)
    /\ pc' = [pc EXCEPT ![t] = AfterAcquire(t, "opening")]
    /\ UNCHANGED <<target, mine, idle, aged, stale>>

\* A task without permits is out, any other drops its permits next.
Leave(t) ==
    IF perm[t] = 0
    THEN /\ pc' = [pc EXCEPT ![t] = "out"]
         /\ target' = [target EXCEPT ![t] = 0]
    ELSE /\ pc' = [pc EXCEPT ![t] = "releasing"]
         /\ UNCHANGED target

PushWarm(t) ==
    /\ pc[t] = "counting" /\ Len(idle) + Len(mine[t]) >= target[t]
    /\ pc' = [pc EXCEPT ![t] = "pushing"]
    /\ UNCHANGED <<target, permits, mine, idle, aged, stale>>

FinishWarmUp(t) ==
    /\ pc[t] = "pushing"
    /\ Push(t)
    /\ Leave(t)
    /\ UNCHANGED <<permits, aged>>

-----------------------------------------------------------------------------
(* Waiting that ends early, and time.                                      *)

\* A waiting task leaves the queue with what it holds already.
LeaveQueue(t) ==
    /\ pc[t] = "waiting"
    /\ \E i \in DOMAIN queue : queue[i] = t /\ queue' = Unqueued(i)
    /\ Leave(t)
    /\ UNCHANGED <<avail, perm, mine, idle, aged, stale>>

AcquireTimesOut(t) == AcquireTimeout /\ LeaveQueue(t)

\* The future of session() or warm_up_to() is dropped at an await: of a
\* permit, of the check or of open_session.
Cancel(t) ==
    \/ LeaveQueue(t)
    \/ /\ pc[t] \in {"now", "checking", "opening"}
       /\ mine' = IF target[t] = 0 THEN [mine EXCEPT ![t] = <<>>] ELSE mine
       /\ pc' = [pc EXCEPT ![t] = "releasing"]
       /\ UNCHANGED <<target, permits, idle, aged, stale>>

\* idle_timeout has passed for everything that is idle now.  Only awaits take
\* time: the loop of session() runs from one to the next at once.
Age ==
    /\ IdleTimeout /\ aged # InIdle /\ \A t \in Tasks : pc[t] # "pop"
    /\ aged' = InIdle
    /\ UNCHANGED <<pc, target, permits, mine, idle, stale>>

-----------------------------------------------------------------------------

Init ==
    /\ pc = [t \in Tasks |-> "out"]
    /\ target = [t \in Tasks |-> 0]
    /\ avail = MaxSessions
    /\ queue = <<>>
    /\ perm = [t \in Tasks |-> 0]
    /\ mine = [t \in Tasks |-> <<>>]
    /\ idle = <<>>
    /\ aged = {}
    /\ stale = [t \in Tasks |-> {}]

\* What a task does by itself between a call and its return, and the drop of
\* a session its owner is done with.
Step(t) ==
    \/ TakeNow(t) \/ Pop(t) \/ PopNone(t) \/ CheckPasses(t) \/ CheckFails(t)
    \/ Opened(t) \/ OpenFails(t) \/ PutBack(t) \/ ReleasePermit(t)
    \/ CloseSessions(t) \/ Count(t) \/ PushWarm(t) \/ FinishWarmUp(t)
    \/ AcquireTimesOut(t)

Next ==
    \/ \E t \in Tasks :
          \/ StartSession(t) \/ \E n \in WarmTargets : StartWarmUp(t, n)
          \/ Step(t) \/ Cancel(t)
    \/ Age

Spec == Init /\ [][Next]_vars

-----------------------------------------------------------------------------
(* Properties.                                                             *)

Places == {"out", "waiting", "now", "pop", "checking", "opening", "holding",
           "releasing", "closing", "counting", "pushing"}

\* The shape of the state.
TypeOK ==
    /\ pc \in [Tasks -> Places]
    /\ target \in [Tasks -> 0 .. MaxSessions]
    /\ avail \in Nat
    /\ queue \in Seq(Tasks)
    /\ perm \in [Tasks -> Nat]
    /\ mine \in [Tasks -> Seq(Sessions)]
    /\ idle \in Seq(Sessions)
    /\ aged \subseteq Sessions
    /\ stale \in [Tasks -> SUBSET Sessions]

\* A session is never in two hands, nor in the idle list and in a hand: two
\* tasks would interleave their commands on one connection.
Exclusive ==
    /\ \A i, j \in DOMAIN idle : idle[i] = idle[j] => i = j
    /\ \A t \in Tasks : Holds(t) \cap InIdle = {}
    /\ \A t, u \in Tasks : t # u => Holds(t) \cap Holds(u) = {}

\* The permits that a pool's tasks hold, each with its holder.
Tickets(held) == UNION {{t} \X (1 .. held[t]) : t \in Tasks}

\* Permits are neither lost nor invented, whichever way a task leaves: a lost
\* one shrinks the pool for ever, one too many breaks its limit.
PermitsConserved == avail + Cardinality(Tickets(perm)) = MaxSessions

\* Neither sessions nor permits are shared, lost or made up, however the steps of
\* the tasks interleave and wherever their futures are dropped.
NothingSharedOrLost == Exclusive /\ PermitsConserved

\* Nobody uses a session without a permit, and nobody waits while a permit is
\* free (`a maximum of max_sessions checked out concurrently').
CheckedOutByPermit ==
    /\ \A t \in Tasks :
          pc[t] \in {"checking", "holding", "counting"} => Len(mine[t]) <= perm[t]
    /\ queue # <<>> => avail = 0

\* Connections that exist or are about to: idle, held, or being opened.
Busy == {t \in Tasks : pc[t] \in {"checking", "opening", "holding"}}

\* As long as nobody warms the pool up, it never owns more connections than
\* max_sessions, idle ones included: Drop returns the session before the
\* permit, and a session is opened only by a permit that found no idle one.
ConnectionBound == Len(idle) + Cardinality(Busy) <= MaxSessions

\* No step hands out a session that has been idle for idle_timeout
\* (`Sets an idle timeout after which sessions are dropped').
NothingExpired ==
    \A t \in Tasks : pc[t] = "pop" /\ mine'[t] # <<>> => mine'[t][1] \notin aged

\* A call that waits for a permit gets one, or ends with an error.
CallEnds == \A t \in Tasks : pc[t] = "waiting" ~> pc[t] # "waiting"
==============================================================================
