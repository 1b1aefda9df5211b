-------------------------- MODULE SessionPoolProofs --------------------------
(***************************************************************************)
(* SessionPool and KeyedPool, for every number of tasks, sessions, permits *)
(* and URLs.                                                               *)
(***************************************************************************)
EXTENDS KeyedPool, SequenceTheorems, FiniteSetTheorems, TLAPS

\* The queue without one of its waiters is a queue of tasks.
LEMMA UnqueuedType ==
    ASSUME TypeOK, NEW i \in DOMAIN queue
    PROVE  Unqueued(i) \in Seq(Tasks)
<1>1. Len(queue) \in Nat \ {0} /\ queue \in [1 .. Len(queue) -> Tasks]
  BY DEF TypeOK
<1>2. \A j \in 1 .. Len(queue) - 1 : queue[j] \in Tasks /\ queue[j + 1] \in Tasks
  BY <1>1
<1>3. Unqueued(i) \in [1 .. Len(queue) - 1 -> Tasks]
  BY <1>2 DEF Unqueued
<1> QED
  BY <1>1, <1>3, SeqDef

\* acquire_permit keeps the semaphore's counters and queue well formed.
LEMMA AcquireType ==
    ASSUME TypeOK, NEW t \in Tasks, Acquire(t)
    PROVE  avail' \in Nat /\ perm' \in [Tasks -> Nat] /\ queue' \in Seq(Tasks)
<1>1. CASE TakePermit(t)
  BY <1>1 DEF TypeOK, TakePermit
<1>2. CASE Enqueue(t)
  BY <1>2 DEF TypeOK, Enqueue
<1> QED
  BY <1>1, <1>2 DEF Acquire

\* Dropping a permit keeps the semaphore and the places of the tasks well formed,
\* whether it is freed or handed to a waiter.
LEMMA ReleaseType ==
    ASSUME TypeOK, NEW t \in Tasks, NEW done \in Places, Release(t, done)
    PROVE  /\ avail' \in Nat /\ perm' \in [Tasks -> Nat] /\ queue' \in Seq(Tasks)
           /\ pc' \in [Tasks -> Places]
<1>1. perm[t] - 1 \in Nat
  BY DEF TypeOK, Release
<1>2. CASE FreePermit(t, done)
  BY <1>1, <1>2 DEF TypeOK, FreePermit
<1>3. CASE HandOver(t, done)
  <2>1. Head(queue) \in Tasks /\ Tail(queue) \in Seq(Tasks)
    BY <1>3 DEF TypeOK, HandOver
  <2>2. Granted(Head(queue)) \in Places
    BY DEF Granted, Places
  <2>3. perm' \in [Tasks -> Nat]
    <3>1. perm[Head(queue)] + 1 \in Nat
      BY <2>1 DEF TypeOK
    <3> QED
      BY <1>1, <1>3, <2>1, <3>1 DEF TypeOK, HandOver
  <2>4. pc' \in [Tasks -> Places]
    BY <1>3, <2>1, <2>2 DEF TypeOK, HandOver
  <2> QED
    BY <1>3, <2>1, <2>3, <2>4 DEF TypeOK, HandOver
<1> QED
  BY <1>2, <1>3 DEF Release

\* A task that ends its warm-up goes to a proper place with a proper target.
LEMMA LeaveType ==
    ASSUME TypeOK, NEW t \in Tasks, Leave(t)
    PROVE  pc' \in [Tasks -> Places] /\ target' \in [Tasks -> 0 .. MaxSessions]
<1>1. CASE perm[t] = 0
  <2>1. pc' = [pc EXCEPT ![t] = "out"] /\ target' = [target EXCEPT ![t] = 0]
    BY <1>1 DEF Leave
  <2> QED
    BY <2>1, SizeAssumption DEF TypeOK, Places
<1>2. CASE perm[t] # 0
  <2>1. pc' = [pc EXCEPT ![t] = "releasing"] /\ target' = target
    BY <1>2 DEF Leave
  <2> QED
    BY <2>1 DEF TypeOK, Places
<1> QED
  BY <1>1, <1>2

\* pop_idle_session leaves a list of sessions and yields one.
LEMMA PopType ==
    ASSUME TypeOK, idle # <<>>
    PROVE  /\ Popped \in Seq(Sessions)
           /\ idle[Len(idle)] \in Sessions
           /\ <<idle[Len(idle)]>> \in Seq(Sessions)
BY DEF TypeOK, Popped

\* push_idle_session leaves a list of sessions.
LEMMA PushType ==
    ASSUME TypeOK, NEW t \in Tasks, Push(t)
    PROVE  /\ idle' \in Seq(Sessions) /\ mine' \in [Tasks -> Seq(Sessions)]
           /\ stale' \in [Tasks -> SUBSET Sessions]
<1>1. idle \o mine[t] \in Seq(Sessions)
  BY DEF TypeOK
<1> QED
  BY <1>1 DEF TypeOK, Push

\* The state keeps its shape.
THEOREM TypeCorrect == Spec => []TypeOK
<1>1. Init => TypeOK
  BY SizeAssumption DEF Init, TypeOK, Places
<1>2. TypeOK /\ [Next]_vars => TypeOK'
  <2> SUFFICES ASSUME TypeOK, [Next]_vars PROVE TypeOK'
    OBVIOUS
  <2> USE DEF Places, permits
  <2>1. ASSUME NEW t \in Tasks, StartSession(t) PROVE TypeOK'
    BY <2>1, AcquireType DEF TypeOK, StartSession, AfterAcquire
  <2>2. ASSUME NEW t \in Tasks, NEW n \in WarmTargets, StartWarmUp(t, n) PROVE TypeOK'
    BY <2>2, SizeAssumption DEF TypeOK, StartWarmUp, Lowest
  <2>3. ASSUME NEW t \in Tasks, TakeNow(t) PROVE TypeOK'
    BY <2>3 DEF TypeOK, TakeNow
  <2>4. ASSUME NEW t \in Tasks, Pop(t) PROVE TypeOK'
    BY <2>4, PopType DEF TypeOK, Pop
  <2>5. ASSUME NEW t \in Tasks, PopNone(t) PROVE TypeOK'
    BY <2>5 DEF TypeOK, PopNone
  <2>6. ASSUME NEW t \in Tasks, CheckPasses(t) PROVE TypeOK'
    BY <2>6 DEF TypeOK, CheckPasses
  <2>7. ASSUME NEW t \in Tasks, CheckFails(t) PROVE TypeOK'
    BY <2>7 DEF TypeOK, CheckFails
  <2>8. ASSUME NEW t \in Tasks, Opened(t) PROVE TypeOK'
    BY <2>8 DEF TypeOK, Opened
  <2>9. ASSUME NEW t \in Tasks, OpenFails(t) PROVE TypeOK'
    BY <2>9 DEF TypeOK, OpenFails
  <2>10. ASSUME NEW t \in Tasks, PutBack(t) PROVE TypeOK'
    BY <2>10, PushType DEF TypeOK, PutBack
  <2>11. ASSUME NEW t \in Tasks, ReleasePermit(t) PROVE TypeOK'
    <3>1. PICK done \in {"out", "closing"} : Release(t, done)
      BY <2>11 DEF ReleasePermit
    <3>2. /\ avail' \in Nat /\ perm' \in [Tasks -> Nat] /\ queue' \in Seq(Tasks)
          /\ pc' \in [Tasks -> Places]
      <4>1. done \in Places
        OBVIOUS
      <4> QED
        BY ONLY <3>1, <4>1, ReleaseType, TypeOK, t \in Tasks
    <3>3. target' \in [Tasks -> 0 .. MaxSessions]
      BY <2>11, SizeAssumption DEF TypeOK, ReleasePermit
    <3>4. UNCHANGED <<mine, idle, aged, stale>>
      BY <2>11 DEF ReleasePermit
    <3> QED
      BY <3>2, <3>3, <3>4 DEF TypeOK
  <2>12. ASSUME NEW t \in Tasks, CloseSessions(t) PROVE TypeOK'
    BY <2>12 DEF TypeOK, CloseSessions
  <2>13. ASSUME NEW t \in Tasks, Count(t) PROVE TypeOK'
    BY <2>13, AcquireType DEF TypeOK, Count, AfterAcquire
  <2>14. ASSUME NEW t \in Tasks, PushWarm(t) PROVE TypeOK'
    BY <2>14 DEF TypeOK, PushWarm
  <2>15. ASSUME NEW t \in Tasks, FinishWarmUp(t) PROVE TypeOK'
    BY <2>15, PushType, LeaveType DEF TypeOK, FinishWarmUp
  <2>16. ASSUME NEW t \in Tasks, LeaveQueue(t) PROVE TypeOK'
    BY <2>16, UnqueuedType, LeaveType DEF TypeOK, LeaveQueue
  <2>17. ASSUME NEW t \in Tasks, Cancel(t) PROVE TypeOK'
    <3>1. CASE LeaveQueue(t)
      BY <2>16, <3>1
    <3>2. CASE ~LeaveQueue(t)
      <4>1. (IF target[t] = 0 THEN [mine EXCEPT ![t] = <<>>] ELSE mine)
            \in [Tasks -> Seq(Sessions)]
        BY DEF TypeOK
      <4> QED
        BY <2>17, <3>2, <4>1 DEF TypeOK, Cancel
    <3> QED
      BY <3>1, <3>2
  <2>18. ASSUME Age PROVE TypeOK'
    BY <2>18 DEF TypeOK, Age, InIdle
  <2>19. ASSUME UNCHANGED vars PROVE TypeOK'
    BY <2>19 DEF TypeOK, vars
  <2> QED
    BY <2>1, <2>2, <2>3, <2>4, <2>5, <2>6, <2>7, <2>8, <2>9, <2>10, <2>11,
       <2>12, <2>13, <2>14, <2>15, <2>16, <2>17, <2>18, <2>19
       DEF Next, Step, AcquireTimesOut
<1> QED
  BY <1>1, <1>2, PTL DEF Spec

-----------------------------------------------------------------------------
(* Permits.  What a task holds is tied to where it is; the queue holds      *)
(* tasks that wait, each once, and only while no permit is free.            *)

PlaceOK(t) ==
    /\ pc[t] = "out" => perm[t] = 0 /\ mine[t] = <<>> /\ target[t] = 0
    /\ pc[t] \in {"waiting", "counting", "pushing"} => Len(mine[t]) <= perm[t]
    /\ pc[t] \in {"waiting", "opening"} /\ target[t] = 0 => mine[t] = <<>>
    /\ pc[t] \in {"counting", "pushing"} => target[t] # 0
    /\ pc[t] \in {"now", "pop"} => perm[t] >= 1 /\ mine[t] = <<>> /\ target[t] = 0
    /\ pc[t] = "opening" => Len(mine[t]) < perm[t]
    /\ pc[t] \in {"checking", "holding"} => perm[t] >= 1 /\ Len(mine[t]) = 1
    /\ pc[t] = "checking" => target[t] = 0
    /\ pc[t] = "releasing" => perm[t] >= 1
    /\ pc[t] = "closing" => perm[t] = 0 /\ target[t] = 0

QueueOK ==
    /\ \A i \in DOMAIN queue : pc[queue[i]] = "waiting"
    /\ \A i, j \in DOMAIN queue : queue[i] = queue[j] => i = j
    /\ queue # <<>> => avail = 0

PermitInv == TypeOK /\ QueueOK /\ \A t \in Tasks : PlaceOK(t)

\* The inductive invariant implies the property the run pool_warm checks.
LEMMA PermitImplies == PermitInv => CheckedOutByPermit
<1> SUFFICES ASSUME PermitInv PROVE CheckedOutByPermit
  OBVIOUS
<1>1. ASSUME NEW t \in Tasks, pc[t] \in {"checking", "holding", "counting"}
      PROVE  Len(mine[t]) <= perm[t]
  <2>1. PlaceOK(t) /\ perm[t] \in Nat
    BY DEF PermitInv, TypeOK
  <2> QED
    BY <1>1, <2>1 DEF PlaceOK
<1>2. queue # <<>> => avail = 0
  BY DEF PermitInv, QueueOK
<1> QED
  BY <1>1, <1>2 DEF CheckedOutByPermit

\* The queue stays in order when nobody enters or leaves it and every waiter
\* stays where it is.
LEMMA QueueKept ==
    ASSUME PermitInv, NEW t \in Tasks, NEW p \in Places, pc[t] # "waiting",
           pc' = [pc EXCEPT ![t] = p], UNCHANGED permits
    PROVE  QueueOK'
<1>1. queue' = queue /\ avail' = avail
  BY DEF permits
<1>2. \A i \in DOMAIN queue : queue[i] \in Tasks /\ queue[i] # t
  BY DEF PermitInv, QueueOK, TypeOK
<1>3. \A u \in Tasks \ {t} : pc'[u] = pc[u]
  BY DEF PermitInv, TypeOK
<1> QED
  BY <1>1, <1>2, <1>3 DEF PermitInv, QueueOK

\* acquire_permit keeps the invariant: the task has a permit or is the last
\* of the queue.
LEMMA AcquireSafe ==
    ASSUME PermitInv, TypeOK', NEW t \in Tasks, pc[t] \in {"out", "counting"},
           Acquire(t), NEW granted \in {"now", "opening"},
           pc' = [pc EXCEPT ![t] = AfterAcquire(t, granted)],
           granted = "now" => pc[t] = "out",
           UNCHANGED <<target, mine>>
    PROVE  PermitInv'
<1>1. CASE TakePermit(t)
  <2>1. QueueOK'
    BY <1>1, EmptySeq DEF TakePermit, PermitInv, QueueOK, TypeOK
  <2>2. \A u \in Tasks : PlaceOK(u)'
    BY <1>1 DEF TakePermit, AfterAcquire, PermitInv, PlaceOK, TypeOK
  <2> QED
    BY <2>1, <2>2 DEF PermitInv
<1>2. CASE Enqueue(t)
  <2>1. pc' = [pc EXCEPT ![t] = "waiting"] /\ avail' = avail /\ perm' = perm
    BY <1>2 DEF Enqueue, AfterAcquire
  <2>2. QueueOK'
    <3>1. /\ queue' = Append(queue, t) /\ avail' = 0
          /\ Len(queue') = Len(queue) + 1 /\ Len(queue) \in Nat
          /\ DOMAIN queue' = 1 .. Len(queue) + 1
      BY <1>2 DEF Enqueue, PermitInv, TypeOK
    <3>2. /\ \A i \in 1 .. Len(queue) : queue'[i] = queue[i]
          /\ queue'[Len(queue) + 1] = t
      BY <3>1 DEF PermitInv, TypeOK
    <3>3. /\ DOMAIN queue = 1 .. Len(queue)
          /\ \A i \in 1 .. Len(queue) : queue[i] \in Tasks /\ queue[i] # t
      <4>1. pc[t] # "waiting"
        OBVIOUS
      <4>2. queue \in Seq(Tasks) /\ \A i \in DOMAIN queue : pc[queue[i]] = "waiting"
        BY DEF PermitInv, QueueOK, TypeOK
      <4> QED
        BY <4>1, <4>2
    <3>4. \A u \in Tasks : pc'[u] = IF u = t THEN "waiting" ELSE pc[u]
      BY <2>1 DEF PermitInv, TypeOK
    <3> QED
      BY <3>1, <3>2, <3>3, <3>4 DEF PermitInv, QueueOK
  <2>3. \A u \in Tasks : PlaceOK(u)'
    BY <2>1 DEF PermitInv, PlaceOK, TypeOK
  <2> QED
    BY <2>2, <2>3 DEF PermitInv
<1> QED
  BY <1>1, <1>2 DEF Acquire

\* Dropping a permit keeps the invariant: it becomes free when nobody waits,
\* or the first waiter goes on with it.
LEMMA ReleaseSafe ==
    ASSUME PermitInv, TypeOK', NEW t \in Tasks, ReleasePermit(t)
    PROVE  PermitInv'
<1> DEFINE done == IF mine[t] = <<>> THEN "out" ELSE "closing"
<1>1. /\ pc[t] = "releasing" /\ perm[t] \in Nat /\ perm[t] >= 1
      /\ Release(t, done) /\ mine' = mine
      /\ target' = IF perm[t] = 1 THEN [target EXCEPT ![t] = 0] ELSE target
  BY DEF ReleasePermit, PermitInv, PlaceOK, TypeOK
<1>2. PlaceOK(t)'
  <2>1. /\ perm'[t] = perm[t] - 1
        /\ pc'[t] = IF perm[t] = 1 THEN done ELSE "releasing"
    <3>1. CASE FreePermit(t, done)
      BY <1>1, <3>1 DEF FreePermit, PermitInv, TypeOK
    <3>2. CASE HandOver(t, done)
      <4>1. Head(queue) # t /\ Head(queue) \in Tasks
        <5>1. queue \in Seq(Tasks) /\ queue # <<>>
          BY <3>2 DEF HandOver, PermitInv, TypeOK
        <5>2. Head(queue) = queue[1] /\ 1 \in DOMAIN queue /\ queue[1] \in Tasks
          BY <5>1
        <5>3. pc[queue[1]] = "waiting"
          BY <5>2 DEF PermitInv, QueueOK
        <5> QED
          BY <1>1, <5>2, <5>3
      <4> QED
        BY <1>1, <3>2, <4>1 DEF HandOver, PermitInv, TypeOK
    <3> QED
      BY <1>1, <3>1, <3>2 DEF Release
  <2>2. CASE perm[t] = 1
    BY <1>1, <2>1, <2>2 DEF PlaceOK, PermitInv, TypeOK
  <2>3. CASE perm[t] # 1
    BY <1>1, <2>1, <2>3 DEF PlaceOK, PermitInv, TypeOK
  <2> QED
    BY <2>2, <2>3
<1>3. ASSUME NEW u \in Tasks \ {t} PROVE target'[u] = target[u] /\ mine'[u] = mine[u]
  BY <1>1 DEF PermitInv, TypeOK
<1>4. CASE FreePermit(t, done)
  <2>1. QueueOK'
    BY <1>4 DEF FreePermit, QueueOK
  <2>2. ASSUME NEW u \in Tasks \ {t} PROVE PlaceOK(u)'
    <3>1. pc'[u] = pc[u] /\ perm'[u] = perm[u]
      BY <1>4 DEF FreePermit, PermitInv, TypeOK
    <3> QED
      BY <1>3, <3>1 DEF PermitInv, PlaceOK
  <2>3. \A u \in Tasks : PlaceOK(u)'
    BY <1>2, <2>2 DEF PlaceOK
  <2> QED
    BY <2>1, <2>3 DEF PermitInv
<1>5. CASE HandOver(t, done)
  <2>0. PICK h \in Tasks : queue # <<>> /\ h = Head(queue)
    <3>1. queue # <<>>
      BY <1>5 DEF HandOver
    <3>2. Head(queue) \in Tasks
      BY <3>1 DEF PermitInv, TypeOK
    <3> QED
      BY <3>1, <3>2
  <2>1. /\ queue \in Seq(Tasks) /\ queue # <<>> /\ avail' = avail
        /\ queue' = Tail(queue) /\ h = queue[1] /\ 1 \in DOMAIN queue
    BY <1>5, <2>0 DEF HandOver, PermitInv, TypeOK
  <2>2. h \in Tasks /\ pc[h] = "waiting" /\ h # t
    BY <1>1, <2>1 DEF PermitInv, QueueOK
  <2>3. /\ DOMAIN queue = 1 .. Len(queue) /\ Len(queue) \in Nat
        /\ DOMAIN queue' = 1 .. Len(queue) - 1
        /\ \A i \in DOMAIN queue' : queue'[i] = queue[i + 1] /\ i + 1 \in DOMAIN queue
    BY <2>1
  <2>4. /\ pc'[h] = Granted(h) /\ perm'[h] = perm[h] + 1
        /\ \A u \in Tasks \ {t, h} : pc'[u] = pc[u] /\ perm'[u] = perm[u]
    BY <1>5, <2>0, <2>2 DEF HandOver, PermitInv, TypeOK
  <2>5. QueueOK'
    <3>1. ASSUME NEW i \in DOMAIN queue' PROVE pc'[queue'[i]] = "waiting"
      <4>1. queue'[i] \in Tasks /\ pc[queue'[i]] = "waiting"
        BY <2>1, <2>3 DEF PermitInv, QueueOK
      <4>2. queue'[i] # h
        BY <2>1, <2>3 DEF PermitInv, QueueOK
      <4> QED
        BY <1>1, <2>4, <4>1, <4>2
    <3>2. \A i, j \in DOMAIN queue' : queue'[i] = queue'[j] => i = j
      BY <2>3 DEF PermitInv, QueueOK
    <3>3. avail' = 0
      BY <2>1 DEF PermitInv, QueueOK
    <3> QED
      BY <3>1, <3>2, <3>3 DEF QueueOK
  <2>6. PlaceOK(h)'
    <3>1. /\ target'[h] = target[h] /\ mine'[h] = mine[h]
          /\ perm[h] \in Nat /\ Len(mine[h]) \in Nat /\ PlaceOK(h)
      <4>1. target'[h] = target[h] /\ mine'[h] = mine[h]
        BY <1>3, <2>2
      <4>2. perm[h] \in Nat /\ mine[h] \in Seq(Sessions) /\ PlaceOK(h)
        BY <2>2 DEF PermitInv, TypeOK
      <4> QED
        BY <4>1, <4>2
    <3>2. CASE target[h] = 0
      <4>1. pc'[h] = "now" /\ perm'[h] >= 1 /\ mine'[h] = <<>> /\ target'[h] = 0
        BY <2>2, <2>4, <3>1, <3>2 DEF PlaceOK, Granted
      <4> QED
        BY <4>1 DEF PlaceOK
    <3>3. CASE target[h] # 0
      <4>1. pc'[h] = "opening" /\ target'[h] # 0
        BY <2>4, <3>1, <3>3 DEF Granted
      <4>2. Len(mine[h]) <= perm[h]
        BY <2>2, <3>1 DEF PlaceOK
      <4>3. Len(mine'[h]) < perm'[h]
        BY <2>4, <3>1, <4>2
      <4> QED
        BY <4>1, <4>3 DEF PlaceOK
    <3> QED
      BY <3>2, <3>3
  <2>7. ASSUME NEW u \in Tasks \ {t, h} PROVE PlaceOK(u)'
    BY <1>3, <2>4 DEF PermitInv, PlaceOK
  <2>8. \A u \in Tasks : PlaceOK(u)'
    BY <1>2, <2>6, <2>7 DEF PlaceOK
  <2> QED
    BY <2>5, <2>8 DEF PermitInv
<1> QED
  BY <1>1, <1>4, <1>5 DEF Release

\* A waiter that gives up or is dropped leaves the others as they were.
LEMMA LeaveQueueSafe ==
    ASSUME PermitInv, TypeOK', NEW t \in Tasks, LeaveQueue(t)
    PROVE  PermitInv'
<1>1. /\ pc[t] = "waiting" /\ Leave(t)
      /\ avail' = avail /\ perm' = perm /\ mine' = mine
  BY DEF LeaveQueue
<1>2. PICK i \in DOMAIN queue : queue[i] = t /\ queue' = Unqueued(i)
  BY DEF LeaveQueue
<1>3. /\ Len(queue) \in Nat /\ DOMAIN queue = 1 .. Len(queue)
      /\ DOMAIN queue' = 1 .. Len(queue) - 1
      /\ \A j \in DOMAIN queue' : queue'[j] = IF j < i THEN queue[j] ELSE queue[j + 1]
  BY <1>2 DEF PermitInv, TypeOK, Unqueued
<1>4. /\ pc'[t] = IF perm[t] = 0 THEN "out" ELSE "releasing"
      /\ target'[t] = IF perm[t] = 0 THEN 0 ELSE target[t]
      /\ \A u \in Tasks \ {t} : pc'[u] = pc[u] /\ target'[u] = target[u]
  <2>1. CASE perm[t] = 0
    BY <1>1, <2>1 DEF Leave, PermitInv, TypeOK
  <2>2. CASE perm[t] # 0
    BY <1>1, <2>2 DEF Leave, PermitInv, TypeOK
  <2> QED
    BY <2>1, <2>2
<1>5. QueueOK'
  <2>1. ASSUME NEW j \in DOMAIN queue' PROVE pc'[queue'[j]] = "waiting"
    <3>1. PICK k \in DOMAIN queue : k # i /\ queue'[j] = queue[k]
      BY <1>3
    <3>2. queue[k] \in Tasks /\ queue[k] # t /\ pc[queue[k]] = "waiting"
      BY <1>2, <3>1 DEF PermitInv, QueueOK, TypeOK
    <3> QED
      BY <1>4, <3>1, <3>2
  <2>2. \A j, k \in DOMAIN queue' : queue'[j] = queue'[k] => j = k
    BY <1>3 DEF PermitInv, QueueOK
  <2>3. avail' = 0
    BY <1>1, <1>2 DEF PermitInv, QueueOK, TypeOK
  <2> QED
    BY <2>1, <2>2, <2>3 DEF QueueOK
<1>6. PlaceOK(t)'
  <2>1. Len(mine[t]) <= perm[t] /\ perm[t] \in Nat /\ mine[t] \in Seq(Sessions)
    BY <1>1 DEF PermitInv, PlaceOK, TypeOK
  <2>2. CASE perm[t] = 0
    <3>1. mine[t] = <<>>
      BY <2>1, <2>2
    <3> QED
      BY <1>1, <1>4, <2>2, <3>1 DEF PlaceOK
  <2>3. CASE perm[t] # 0
    BY <1>1, <1>4, <2>1, <2>3 DEF PlaceOK
  <2> QED
    BY <2>2, <2>3
<1>7. \A u \in Tasks : PlaceOK(u)'
  BY <1>1, <1>4, <1>6 DEF PermitInv, PlaceOK
<1> QED
  BY <1>5, <1>7 DEF PermitInv

\* A step of t that leaves the permits alone and keeps t out of the queue.
LEMMA LocalStep ==
    ASSUME PermitInv, TypeOK', NEW t \in Tasks, NEW p \in Places, pc[t] # "waiting",
           pc' = [pc EXCEPT ![t] = p], UNCHANGED permits,
           \A u \in Tasks \ {t} : target'[u] = target[u] /\ mine'[u] = mine[u],
           PlaceOK(t)'
    PROVE  PermitInv'
<1>1. perm' = perm
  BY DEF permits
<1>2. \A u \in Tasks \ {t} : pc'[u] = pc[u]
  BY DEF PermitInv, TypeOK
<1>3. \A u \in Tasks : PlaceOK(u)'
  BY <1>1, <1>2 DEF PermitInv, PlaceOK
<1> QED
  BY <1>3, QueueKept DEF PermitInv

\* The invariant that ties permits, places and the queue together.
THEOREM PermitInvariant == Spec => []PermitInv
<1>1. Init => PermitInv
  <2> SUFFICES ASSUME Init PROVE PermitInv
    OBVIOUS
  <2>1. TypeOK
    BY SizeAssumption DEF Init, TypeOK, Places
  <2>2. QueueOK
    BY DEF Init, QueueOK
  <2>3. \A t \in Tasks : PlaceOK(t)
    BY DEF Init, PlaceOK
  <2> QED
    BY <2>1, <2>2, <2>3 DEF PermitInv
<1>2. PermitInv /\ TypeOK' /\ [Next]_vars => PermitInv'
  <2> SUFFICES ASSUME PermitInv, TypeOK', [Next]_vars PROVE PermitInv'
    OBVIOUS
  <2>0. ASSUME NEW t \in Tasks
        PROVE  /\ PlaceOK(t) /\ perm[t] \in Nat /\ mine[t] \in Seq(Sessions)
               /\ Len(mine[t]) \in Nat
    BY DEF PermitInv, TypeOK
  <2> USE DEF Places
  <2>1. ASSUME NEW t \in Tasks, StartSession(t) PROVE PermitInv'
    BY <2>1, AcquireSafe DEF StartSession
  <2>2. ASSUME NEW t \in Tasks, NEW n \in WarmTargets, StartWarmUp(t, n) PROVE PermitInv'
    <3>1. PlaceOK(t)'
      BY <2>0, <2>2, SizeAssumption
         DEF StartWarmUp, Lowest, PlaceOK, PermitInv, TypeOK, permits
    <3> QED
      BY <2>2, <3>1, LocalStep DEF StartWarmUp, PermitInv, TypeOK
  <2>3. ASSUME NEW t \in Tasks, TakeNow(t) PROVE PermitInv'
    <3>1. PlaceOK(t)'
      BY <2>0, <2>3 DEF TakeNow, PlaceOK, PermitInv, TypeOK, permits
    <3> QED
      BY <2>3, <3>1, LocalStep DEF TakeNow
  <2>4. ASSUME NEW t \in Tasks, Pop(t) PROVE PermitInv'
    <3>1. PICK p \in {"pop", "holding", "checking"} :
            /\ pc' = [pc EXCEPT ![t] = p]
            /\ p = "pop" => mine' = mine
            /\ p # "pop" => mine' = [mine EXCEPT ![t] = <<idle[Len(idle)]>>]
      BY <2>4 DEF Pop, PermitInv, TypeOK
    <3>2. UNCHANGED permits /\ target' = target /\ pc[t] = "pop"
      BY <2>4 DEF Pop
    <3>3. PlaceOK(t)'
      BY <2>0, <3>1, <3>2 DEF PlaceOK, PermitInv, TypeOK, permits
    <3> QED
      BY <3>1, <3>2, <3>3, LocalStep DEF PermitInv, TypeOK
  <2>5. ASSUME NEW t \in Tasks, PopNone(t) PROVE PermitInv'
    <3>1. PlaceOK(t)'
      BY <2>0, <2>5 DEF PopNone, PlaceOK, PermitInv, TypeOK, permits
    <3> QED
      BY <2>5, <3>1, LocalStep DEF PopNone
  <2>6. ASSUME NEW t \in Tasks, CheckPasses(t) PROVE PermitInv'
    <3>1. PlaceOK(t)'
      BY <2>0, <2>6 DEF CheckPasses, PlaceOK, PermitInv, TypeOK, permits
    <3> QED
      BY <2>6, <3>1, LocalStep DEF CheckPasses
  <2>7. ASSUME NEW t \in Tasks, CheckFails(t) PROVE PermitInv'
    <3>1. PlaceOK(t)'
      BY <2>0, <2>7 DEF CheckFails, PlaceOK, PermitInv, TypeOK, permits
    <3> QED
      BY <2>7, <3>1, LocalStep DEF CheckFails, PermitInv, TypeOK
  <2>8. ASSUME NEW t \in Tasks, Opened(t) PROVE PermitInv'
    <3>1. PICK s \in Sessions : mine' = [mine EXCEPT ![t] = Append(@, s)]
      BY <2>8 DEF Opened
    <3>2. mine'[t] = Append(mine[t], s) /\ Len(mine'[t]) = Len(mine[t]) + 1
      BY <2>0, <3>1 DEF PermitInv, TypeOK
    <3>3. CASE target[t] = 0
      <4>1. pc'[t] = "holding" /\ Len(mine'[t]) = 1 /\ perm'[t] >= 1 /\ target' = target
        BY <2>0, <2>8, <3>2, <3>3 DEF Opened, PlaceOK, PermitInv, TypeOK, permits
      <4>2. PlaceOK(t)'
        BY <4>1 DEF PlaceOK
      <4> QED
        BY <2>8, <3>1, <3>3, <4>2, LocalStep DEF Opened, PermitInv, TypeOK
    <3>4. CASE target[t] # 0
      <4>1. pc'[t] = "counting" /\ Len(mine'[t]) <= perm'[t] /\ target'[t] # 0
        BY <2>0, <2>8, <3>2, <3>4 DEF Opened, PlaceOK, PermitInv, TypeOK, permits
      <4>2. PlaceOK(t)'
        BY <4>1 DEF PlaceOK
      <4> QED
        BY <2>8, <3>1, <3>4, <4>2, LocalStep DEF Opened, PermitInv, TypeOK
    <3> QED
      BY <3>3, <3>4
  <2>9. ASSUME NEW t \in Tasks, OpenFails(t) PROVE PermitInv'
    <3>1. PlaceOK(t)'
      BY <2>0, <2>9 DEF OpenFails, PlaceOK, PermitInv, TypeOK, permits
    <3> QED
      BY <2>9, <3>1, LocalStep DEF OpenFails
  <2>10. ASSUME NEW t \in Tasks, PutBack(t) PROVE PermitInv'
    <3>1. PlaceOK(t)'
      BY <2>0, <2>10 DEF PutBack, Push, PlaceOK, PermitInv, TypeOK, permits
    <3> QED
      BY <2>10, <3>1, LocalStep DEF PutBack, Push, PermitInv, TypeOK
  <2>11. ASSUME NEW t \in Tasks, ReleasePermit(t) PROVE PermitInv'
    BY <2>11, ReleaseSafe
  <2>12. ASSUME NEW t \in Tasks, CloseSessions(t) PROVE PermitInv'
    <3>1. PlaceOK(t)'
      BY <2>0, <2>12 DEF CloseSessions, PlaceOK, PermitInv, TypeOK, permits
    <3> QED
      BY <2>12, <3>1, LocalStep DEF CloseSessions, PermitInv, TypeOK
  <2>13. ASSUME NEW t \in Tasks, Count(t) PROVE PermitInv'
    BY <2>13, AcquireSafe DEF Count
  <2>14. ASSUME NEW t \in Tasks, PushWarm(t) PROVE PermitInv'
    <3>1. PlaceOK(t)'
      BY <2>0, <2>14 DEF PushWarm, PlaceOK, PermitInv, TypeOK, permits
    <3> QED
      BY <2>14, <3>1, LocalStep DEF PushWarm
  <2>15. ASSUME NEW t \in Tasks, FinishWarmUp(t) PROVE PermitInv'
    <3>1. /\ pc[t] = "pushing" /\ UNCHANGED permits
          /\ mine' = [mine EXCEPT ![t] = <<>>] /\ Leave(t)
      BY <2>15 DEF FinishWarmUp, Push
    <3>2. CASE perm[t] = 0
      <4>1. pc' = [pc EXCEPT ![t] = "out"] /\ target' = [target EXCEPT ![t] = 0]
        BY <3>1, <3>2 DEF Leave
      <4>2. PlaceOK(t)'
        BY <3>1, <3>2, <4>1 DEF PlaceOK, PermitInv, TypeOK, permits
      <4> QED
        BY <3>1, <4>1, <4>2, LocalStep DEF PermitInv, TypeOK
    <3>3. CASE perm[t] # 0
      <4>1. pc' = [pc EXCEPT ![t] = "releasing"] /\ target' = target
        BY <3>1, <3>3 DEF Leave
      <4>2. PlaceOK(t)'
        BY <2>0, <3>1, <3>3, <4>1 DEF PlaceOK, PermitInv, TypeOK, permits
      <4> QED
        BY <3>1, <4>1, <4>2, LocalStep DEF PermitInv, TypeOK
    <3> QED
      BY <3>2, <3>3
  <2>16. ASSUME NEW t \in Tasks, LeaveQueue(t) PROVE PermitInv'
    BY <2>16, LeaveQueueSafe
  <2>17. ASSUME NEW t \in Tasks, Cancel(t), ~LeaveQueue(t) PROVE PermitInv'
    <3>1. /\ pc[t] \in {"now", "checking", "opening"} /\ UNCHANGED <<target, permits>>
          /\ pc' = [pc EXCEPT ![t] = "releasing"]
          /\ mine' = IF target[t] = 0 THEN [mine EXCEPT ![t] = <<>>] ELSE mine
      BY <2>17 DEF Cancel
    <3>2. PlaceOK(t)'
      BY <2>0, <3>1 DEF PlaceOK, PermitInv, TypeOK, permits
    <3> QED
      BY <3>1, <3>2, LocalStep DEF PermitInv, TypeOK
  <2>18. ASSUME Age \/ UNCHANGED vars PROVE PermitInv'
    BY <2>18 DEF Age, vars, permits, PermitInv, QueueOK, PlaceOK
  <2> QED
    BY <2>1, <2>2, <2>3, <2>4, <2>5, <2>6, <2>7, <2>8, <2>9, <2>10, <2>11,
       <2>12, <2>13, <2>14, <2>15, <2>16, <2>17, <2>18
       DEF Next, Step, AcquireTimesOut
<1> QED
  BY <1>1, <1>2, TypeCorrect, PTL DEF Spec

\* Nobody uses a session without a permit, and nobody waits while one is free.
THEOREM PermitSafety == Spec => []CheckedOutByPermit
BY PermitInvariant, PermitImplies, PTL

-----------------------------------------------------------------------------
(* Connections, as long as warm_up is not used.  Every task holds one       *)
(* permit or none; the idle list and the tasks that are busy with a session *)
(* together never outnumber the permits.                                    *)

Holding == {t \in Tasks : perm[t] = 1}

OnePermit(t) ==
    /\ target[t] = 0 /\ pc[t] \notin {"counting", "pushing", "closing"}
    /\ perm[t] = IF pc[t] \in {"out", "waiting"} THEN 0 ELSE 1
    /\ pc[t] = "releasing" => mine[t] = <<>>

CountInv ==
    /\ \A t \in Tasks : OnePermit(t)
    /\ avail + Cardinality(Holding) = MaxSessions
    /\ ConnectionBound

\* A set of tasks is finite, and one task more or less changes its size by one.
LEMMA Counts ==
    ASSUME NEW S \in SUBSET Tasks
    PROVE  /\ IsFiniteSet(S) /\ Cardinality(S) \in Nat
           /\ \A t \in Tasks \ S : Cardinality(S \cup {t}) = Cardinality(S) + 1
           /\ \A t \in S : Cardinality(S \ {t}) = Cardinality(S) - 1
<1>1. IsFiniteSet(S)
  BY TaskAssumption, FS_Subset
<1> QED
  BY <1>1, FS_CardinalityType, FS_AddElement, FS_RemoveElement

BusyPlaces == {"checking", "opening", "holding"}

\* 1 for a task that accounts for a connection, 0 for any other.
Uses(t) == IF pc[t] \in BusyPlaces THEN 1 ELSE 0

\* A step of one task changes the number of tasks that use a connection, and
\* of those that hold a permit, by what that task contributes.
LEMMA OneTaskCounts ==
    ASSUME CountInv, NEW t \in Tasks,
           \A u \in Tasks \ {t} : pc'[u] = pc[u] /\ perm'[u] = perm[u],
           perm'[t] \in {0, 1}
    PROVE  /\ Cardinality(Busy)' = Cardinality(Busy) + Uses(t)' - Uses(t)
           /\ Cardinality(Holding)' = Cardinality(Holding) + perm'[t] - perm[t]
<1>1. Busy \in SUBSET Tasks /\ Holding \in SUBSET Tasks
  BY DEF Busy, Holding
<1>2. /\ Cardinality(Busy) \in Nat /\ Cardinality(Holding) \in Nat
      /\ t \notin Busy => Cardinality(Busy \cup {t}) = Cardinality(Busy) + 1
      /\ t \in Busy => Cardinality(Busy \ {t}) = Cardinality(Busy) - 1
      /\ t \notin Holding => Cardinality(Holding \cup {t}) = Cardinality(Holding) + 1
      /\ t \in Holding => Cardinality(Holding \ {t}) = Cardinality(Holding) - 1
  BY <1>1, Counts
<1>3. Cardinality(Busy)' = Cardinality(Busy) + Uses(t)' - Uses(t)
  <2>1. Busy' = IF pc'[t] \in BusyPlaces THEN Busy \cup {t} ELSE Busy \ {t}
    BY DEF Busy, BusyPlaces
  <2>2. t \in Busy <=> pc[t] \in BusyPlaces
    BY DEF Busy, BusyPlaces
  <2>3. CASE pc'[t] \in BusyPlaces /\ pc[t] \in BusyPlaces
    <3>1. Busy' = Busy /\ Uses(t)' = 1 /\ Uses(t) = 1
      BY <2>1, <2>2, <2>3 DEF Uses
    <3> QED
      BY <1>2, <3>1
  <2>4. CASE pc'[t] \in BusyPlaces /\ pc[t] \notin BusyPlaces
    <3>1. Busy' = Busy \cup {t} /\ t \notin Busy /\ Uses(t)' = 1 /\ Uses(t) = 0
      BY <2>1, <2>2, <2>4 DEF Uses
    <3> QED
      BY <1>2, <3>1
  <2>5. CASE pc'[t] \notin BusyPlaces /\ pc[t] \in BusyPlaces
    <3>1. Busy' = Busy \ {t} /\ t \in Busy /\ Uses(t)' = 0 /\ Uses(t) = 1
      BY <2>1, <2>2, <2>5 DEF Uses
    <3> QED
      BY <1>2, <3>1
  <2>6. CASE pc'[t] \notin BusyPlaces /\ pc[t] \notin BusyPlaces
    <3>1. Busy' = Busy /\ Uses(t)' = 0 /\ Uses(t) = 0
      BY <2>1, <2>2, <2>6 DEF Uses
    <3> QED
      BY <1>2, <3>1
  <2> QED
    BY <2>3, <2>4, <2>5, <2>6
<1>4. Cardinality(Holding)' = Cardinality(Holding) + perm'[t] - perm[t]
  <2>1. Holding' = IF perm'[t] = 1 THEN Holding \cup {t} ELSE Holding \ {t}
    BY DEF Holding
  <2>2. /\ perm[t] \in {0, 1}
        /\ t \in Holding <=> perm[t] = 1
    BY DEF Holding, CountInv, OnePermit
  <2>3. CASE perm'[t] = perm[t]
    <3>1. Holding' = Holding
      BY <2>1, <2>2, <2>3
    <3> QED
      BY <1>2, <2>2, <2>3, <3>1
  <2>4. CASE perm'[t] = 1 /\ perm[t] = 0
    <3>1. Holding' = Holding \cup {t} /\ t \notin Holding
      BY <2>1, <2>2, <2>4
    <3> QED
      BY <1>2, <2>4, <3>1
  <2>5. CASE perm'[t] = 0 /\ perm[t] = 1
    <3>1. Holding' = Holding \ {t} /\ t \in Holding
      BY <2>1, <2>2, <2>5
    <3> QED
      BY <1>2, <2>5, <3>1
  <2> QED
    BY <2>2, <2>3, <2>4, <2>5
<1> QED
  BY <1>3, <1>4

\* A step of one task that moves a permit between it and the free ones, and
\* opens no connection beyond those the idle list gives up.
LEMMA OneTaskStep ==
    ASSUME CountInv, PermitInv, TypeOK', NEW t \in Tasks, OnePermit(t)',
           \A u \in Tasks \ {t} : /\ pc'[u] = pc[u] /\ perm'[u] = perm[u]
                                  /\ target'[u] = target[u] /\ mine'[u] = mine[u],
           avail' = avail + perm[t] - perm'[t],
           Len(idle') + Uses(t)' <= Len(idle) + Uses(t)
    PROVE  CountInv'
<1>1. /\ avail \in Nat /\ avail' \in Nat /\ Len(idle) \in Nat /\ Len(idle') \in Nat
      /\ perm[t] \in Nat /\ perm'[t] \in Nat /\ MaxSessions \in Nat
  BY SizeAssumption DEF PermitInv, TypeOK
<1>2. perm'[t] \in {0, 1}
  BY DEF OnePermit
<1>3. /\ Cardinality(Busy)' = Cardinality(Busy) + Uses(t)' - Uses(t)
      /\ Cardinality(Holding)' = Cardinality(Holding) + perm'[t] - perm[t]
  BY <1>2, OneTaskCounts
<1>4. /\ Cardinality(Busy) \in Nat /\ Cardinality(Holding) \in Nat
      /\ Uses(t) \in Nat /\ Uses(t)' \in Nat
  <2>1. Busy \in SUBSET Tasks /\ Holding \in SUBSET Tasks
    BY DEF Busy, Holding
  <2>2. Cardinality(Busy) \in Nat /\ Cardinality(Holding) \in Nat
    BY <2>1, Counts
  <2> QED
    BY <2>2 DEF Uses
<1>5. \A u \in Tasks : OnePermit(u)'
  <2>1. ASSUME NEW u \in Tasks \ {t} PROVE OnePermit(u)'
    <3>1. OnePermit(u)
      BY DEF CountInv
    <3>2. /\ pc'[u] = pc[u] /\ perm'[u] = perm[u]
          /\ target'[u] = target[u] /\ mine'[u] = mine[u]
      OBVIOUS
    <3> QED
      BY <3>1, <3>2 DEF OnePermit
  <2>2. ASSUME NEW u \in Tasks, u = t PROVE OnePermit(u)'
    BY <2>2, Zenon
  <2>3. \A u \in Tasks : u = t \/ u \in Tasks \ {t}
    OBVIOUS
  <2> QED
    BY <2>1, <2>2, <2>3, Zenon
<1>6. avail' + Cardinality(Holding)' = MaxSessions
  <2>1. avail + Cardinality(Holding) = MaxSessions
    BY DEF CountInv
  <2> DEFINE H == Cardinality(Holding)
             P == perm[t]
             Q == perm'[t]
  <2>2. /\ H \in Nat /\ P \in Nat /\ Q \in Nat /\ avail + H = MaxSessions
        /\ avail' = avail + P - Q /\ Cardinality(Holding)' = H + Q - P
    BY <1>1, <1>3, <1>4, <2>1
  <2> HIDE DEF H, P, Q
  <2> QED
    BY <1>1, <2>2
<1>7. ConnectionBound'
  BY <1>1, <1>3, <1>4 DEF CountInv, ConnectionBound, Uses
<1> QED
  BY <1>5, <1>6, <1>7 DEF CountInv

\* The permit goes from t, which is done, to the first task of the queue.
LEMMA HandOverCounts ==
    ASSUME CountInv, PermitInv, TypeOK', NEW t \in Tasks, NEW done \in {"out"},
           pc[t] = "releasing", HandOver(t, done), UNCHANGED <<target, mine, idle>>
    PROVE  CountInv'
<1>1. PICK h \in Tasks : queue # <<>> /\ h = Head(queue) /\ pc[h] = "waiting"
  <2>1. queue # <<>> /\ queue \in Seq(Tasks)
    BY DEF HandOver, PermitInv, TypeOK
  <2>2. Head(queue) \in Tasks /\ Head(queue) = queue[1] /\ 1 \in DOMAIN queue
    BY <2>1
  <2> QED
    BY <2>1, <2>2 DEF PermitInv, QueueOK
<1>2. /\ h # t /\ perm[t] = 1 /\ perm[h] = 0
      /\ target[t] = 0 /\ target[h] = 0 /\ mine[t] = <<>>
  BY <1>1 DEF CountInv, OnePermit
<1>3. /\ pc'[t] = "out" /\ perm'[t] = 0 /\ pc'[h] = "now" /\ perm'[h] = 1
      /\ \A u \in Tasks \ {t, h} : pc'[u] = pc[u] /\ perm'[u] = perm[u]
  <2>1. /\ pc' = [pc EXCEPT ![t] = "out", ![h] = "now"]
        /\ perm' = [perm EXCEPT ![t] = 0, ![h] = 1]
    BY <1>1, <1>2 DEF HandOver, Granted, PermitInv, TypeOK
  <2> QED
    BY <1>2, <2>1 DEF PermitInv, TypeOK
<1>4. \A u \in Tasks : OnePermit(u)'
  <2>1. ASSUME NEW u \in Tasks \ {t, h} PROVE OnePermit(u)'
    <3>1. OnePermit(u) /\ pc'[u] = pc[u] /\ perm'[u] = perm[u]
      BY <1>3 DEF CountInv
    <3> QED
      BY <3>1 DEF OnePermit
  <2>2. ASSUME NEW u \in Tasks, u \in {t, h} PROVE OnePermit(u)'
    BY <1>2, <1>3, <2>2 DEF OnePermit
  <2> QED
    BY <2>1, <2>2
<1>5. Busy' = Busy
  BY <1>1, <1>2, <1>3 DEF Busy
<1>6. Cardinality(Holding)' = Cardinality(Holding)
  <2>1. /\ Holding' = (Holding \ {t}) \cup {h}
        /\ t \in Holding /\ h \notin Holding /\ Holding \in SUBSET Tasks
    BY <1>2, <1>3 DEF Holding
  <2> DEFINE S == Holding \ {t}
  <2>2. S \in SUBSET Tasks /\ h \in Tasks \ S
    BY <2>1
  <2>3. Cardinality(S \cup {h}) = Cardinality(S) + 1
    BY <2>2, Counts
  <2>4. Cardinality(S) = Cardinality(Holding) - 1 /\ Cardinality(Holding) \in Nat
    BY <2>1, Counts
  <2> QED
    BY <2>1, <2>3, <2>4
<1>7. (avail + Cardinality(Holding) = MaxSessions)'
  BY <1>6 DEF CountInv, HandOver
<1>8. ConnectionBound'
  BY <1>5 DEF CountInv, ConnectionBound
<1> QED
  BY <1>4, <1>7, <1>8 DEF CountInv

\* Without warm-ups the pool never owns more than max_sessions connections.
THEOREM ConnectionsBounded == WarmTargets = {} => (Spec => []ConnectionBound)
<1> SUFFICES ASSUME WarmTargets = {} PROVE Spec => []ConnectionBound
  OBVIOUS
<1>1. Init => CountInv
  <2> SUFFICES ASSUME Init PROVE CountInv
    OBVIOUS
  <2>1. Busy = {} /\ Holding = {}
    BY DEF Init, Busy, Holding
  <2>2. Cardinality({}) = 0 /\ MaxSessions \in Nat
    BY FS_EmptySet, SizeAssumption
  <2>3. \A t \in Tasks : OnePermit(t)
    BY DEF Init, OnePermit
  <2> QED
    BY <2>1, <2>2, <2>3 DEF Init, CountInv, ConnectionBound
<1>2. CountInv /\ PermitInv /\ TypeOK' /\ [Next]_vars => CountInv'
  <2> SUFFICES ASSUME CountInv, PermitInv, TypeOK', [Next]_vars PROVE CountInv'
    OBVIOUS
  <2> USE DEF permits
  <2>0. ASSUME NEW t \in Tasks
        PROVE  /\ OnePermit(t) /\ PlaceOK(t) /\ Len(idle) \in Nat
               /\ pc[t] \notin {"counting", "pushing", "closing"}
    BY DEF CountInv, OnePermit, PermitInv, TypeOK
  <2>1. ASSUME NEW t \in Tasks, NEW p \in Places,
               pc' = [pc EXCEPT ![t] = p], UNCHANGED <<target, permits>>,
               p \notin {"counting", "pushing", "closing"},
               pc[t] \in {"out", "waiting"} <=> p \in {"out", "waiting"},
               \A u \in Tasks \ {t} : mine'[u] = mine[u],
               p = "releasing" => mine'[t] = <<>>,
               Len(idle') + Uses(t)' <= Len(idle) + Uses(t)
        PROVE  CountInv'
    <3>1. pc'[t] = p /\ \A u \in Tasks \ {t} : pc'[u] = pc[u]
      BY <2>1 DEF PermitInv, TypeOK
    <3>2. OnePermit(t)'
      BY <2>0, <2>1, <3>1 DEF OnePermit
    <3>3. avail' = avail + perm[t] - perm'[t]
      BY <2>1 DEF PermitInv, TypeOK
    <3> QED
      BY <2>1, <3>1, <3>2, <3>3, OneTaskStep
  <2>2. ASSUME NEW t \in Tasks, StartSession(t) PROVE CountInv'
    <3>1. CASE TakePermit(t)
      <4>1. /\ pc' = [pc EXCEPT ![t] = "now"] /\ pc[t] = "out"
            /\ perm' = [perm EXCEPT ![t] = perm[t] + 1] /\ avail' = avail - 1
            /\ target' = target /\ mine' = mine /\ idle' = idle
        BY <2>2, <3>1 DEF StartSession, TakePermit, AfterAcquire
      <4>2. perm[t] = 0
        BY <2>0, <4>1 DEF OnePermit
      <4>3. OnePermit(t)' /\ perm'[t] = 1 /\ Uses(t)' = 0 /\ Uses(t) = 0
        BY <2>0, <4>1, <4>2 DEF OnePermit, Uses, BusyPlaces, PermitInv, TypeOK
      <4>4. avail' = avail + perm[t] - perm'[t]
        BY <4>1, <4>2, <4>3 DEF PermitInv, TypeOK
      <4>5. \A u \in Tasks \ {t} : pc'[u] = pc[u] /\ perm'[u] = perm[u]
        BY <4>1 DEF PermitInv, TypeOK
      <4> QED
        BY <2>0, <4>1, <4>3, <4>4, <4>5, OneTaskStep
    <3>2. CASE Enqueue(t)
      <4>1. /\ pc' = [pc EXCEPT ![t] = "waiting"] /\ pc[t] = "out"
            /\ perm' = perm /\ avail' = avail
            /\ target' = target /\ mine' = mine /\ idle' = idle
        BY <2>2, <3>2 DEF StartSession, Enqueue, AfterAcquire
      <4>2. OnePermit(t)' /\ Uses(t)' = 0 /\ Uses(t) = 0
        BY <2>0, <4>1 DEF OnePermit, Uses, BusyPlaces, PermitInv, TypeOK
      <4>3. avail' = avail + perm[t] - perm'[t]
        BY <4>1 DEF PermitInv, TypeOK
      <4>4. \A u \in Tasks \ {t} : pc'[u] = pc[u]
        BY <4>1 DEF PermitInv, TypeOK
      <4> QED
        BY <2>0, <4>1, <4>2, <4>3, <4>4, OneTaskStep
    <3> QED
      BY <2>2, <3>1, <3>2 DEF StartSession, Acquire
  <2>3. ASSUME NEW t \in Tasks, TakeNow(t) PROVE CountInv'
    <3>1. Len(idle') + Uses(t)' <= Len(idle) + Uses(t)
      BY <2>0, <2>3 DEF TakeNow, Uses, BusyPlaces, PermitInv, TypeOK
    <3>2. /\ pc' = [pc EXCEPT ![t] = "pop"] /\ UNCHANGED <<target, permits>>
          /\ pc[t] = "now" /\ mine' = mine
      BY <2>3 DEF TakeNow
    <3> QED
      BY <2>1, <3>1, <3>2 DEF Places
  <2>4. ASSUME NEW t \in Tasks, Pop(t) PROVE CountInv'
    <3>1. PICK p \in {"pop", "holding", "checking"} :
            /\ pc' = [pc EXCEPT ![t] = p]
            /\ p = "pop" => mine' = mine
            /\ p # "pop" => mine' = [mine EXCEPT ![t] = <<idle[Len(idle)]>>]
      BY <2>4 DEF Pop, PermitInv, TypeOK
    <3>2. UNCHANGED <<target, permits>> /\ pc[t] = "pop" /\ idle # <<>> /\ idle' = Popped
      BY <2>4 DEF Pop
    <3>3. Len(idle') = Len(idle) - 1
      <4>1. idle \in Seq(Sessions) /\ idle' = SubSeq(idle, 1, Len(idle) - 1)
        BY <3>2 DEF Popped, PermitInv, TypeOK
      <4>2. Len(idle) \in Nat /\ Len(idle) >= 1
        BY <3>2, <4>1
      <4>3. \A i \in 1 .. Len(idle) - 1 : idle[i] \in Sessions
        BY <4>1, <4>2
      <4>4. Len(SubSeq(idle, 1, Len(idle) - 1))
              = IF 1 <= Len(idle) - 1 THEN Len(idle) - 1 - 1 + 1 ELSE 0
        BY <4>2, <4>3, SubSeqProperties
      <4>5. Len(SubSeq(idle, 1, Len(idle) - 1)) = Len(idle) - 1
        BY <4>2, <4>4
      <4> QED
        BY <4>1, <4>5, Zenon
    <3>4. Uses(t) = 0 /\ Uses(t)' \in {0, 1}
      BY <3>1, <3>2 DEF Uses, BusyPlaces
    <3>5. \A u \in Tasks \ {t} : mine'[u] = mine[u]
      BY <3>1 DEF PermitInv, TypeOK
    <3>6. Len(idle') + Uses(t)' <= Len(idle) + Uses(t)
      BY <2>0, <3>3, <3>4
    <3> QED
      BY <2>1, <3>1, <3>2, <3>5, <3>6 DEF Places
  <2>5. ASSUME NEW t \in Tasks, PopNone(t) PROVE CountInv'
    <3>1. /\ pc' = [pc EXCEPT ![t] = "opening"] /\ pc[t] = "pop" /\ idle = <<>>
          /\ UNCHANGED <<target, permits, mine, idle>>
      BY <2>5 DEF PopNone
    <3>2. Holding' = Holding
      BY <3>1 DEF Holding
    <3>3. \A u \in Tasks : OnePermit(u)'
      BY <2>0, <3>1 DEF OnePermit, PermitInv, TypeOK
    <3>4. Busy' \subseteq Holding'
      BY <3>3 DEF Busy, Holding, OnePermit
    <3>5. /\ Cardinality(Busy)' <= Cardinality(Holding)'
          /\ Cardinality(Busy)' \in Nat /\ Cardinality(Holding)' \in Nat
      <4>1. Holding' \in SUBSET Tasks /\ Busy' \in SUBSET Tasks
        BY DEF Holding, Busy
      <4>2. IsFiniteSet(Holding') /\ Cardinality(Busy') \in Nat /\ Cardinality(Holding') \in Nat
        BY <4>1, Counts
      <4> QED
        BY <3>4, <4>2, FS_Subset
    <3>6. (avail + Cardinality(Holding) = MaxSessions)'
      BY <3>1, <3>2 DEF CountInv
    <3>7. ConnectionBound'
      <4>1. Len(idle') = 0 /\ avail' \in Nat
        BY <3>1 DEF TypeOK
      <4>2. Cardinality(Busy)' <= MaxSessions
        BY <3>5, <3>6, <4>1
      <4> QED
        BY <3>5, <4>1, <4>2 DEF ConnectionBound
    <3> QED
      BY <3>3, <3>6, <3>7 DEF CountInv
  <2>6. ASSUME NEW t \in Tasks, CheckPasses(t) PROVE CountInv'
    <3>1. Len(idle') + Uses(t)' <= Len(idle) + Uses(t)
      BY <2>0, <2>6 DEF CheckPasses, Uses, BusyPlaces, PermitInv, TypeOK
    <3>2. /\ pc' = [pc EXCEPT ![t] = "holding"] /\ UNCHANGED <<target, permits>>
          /\ pc[t] = "checking" /\ mine' = mine
      BY <2>6 DEF CheckPasses
    <3> QED
      BY <2>1, <3>1, <3>2 DEF Places
  <2>7. ASSUME NEW t \in Tasks, CheckFails(t) PROVE CountInv'
    <3>1. Len(idle') + Uses(t)' <= Len(idle) + Uses(t)
      BY <2>0, <2>7 DEF CheckFails, Uses, BusyPlaces, PermitInv, TypeOK
    <3>2. /\ pc' = [pc EXCEPT ![t] = "pop"] /\ UNCHANGED <<target, permits>>
          /\ pc[t] = "checking"
      BY <2>7 DEF CheckFails
    <3>3. \A u \in Tasks \ {t} : mine'[u] = mine[u]
      BY <2>7 DEF CheckFails, PermitInv, TypeOK
    <3> QED
      BY <2>1, <3>1, <3>2, <3>3 DEF Places
  <2>8. ASSUME NEW t \in Tasks, Opened(t) PROVE CountInv'
    <3>1. /\ pc' = [pc EXCEPT ![t] = "holding"] /\ pc[t] = "opening"
          /\ UNCHANGED <<target, permits, idle>>
      BY <2>0, <2>8 DEF Opened, OnePermit
    <3>2. Len(idle') + Uses(t)' <= Len(idle) + Uses(t)
      BY <2>0, <3>1 DEF Uses, BusyPlaces, PermitInv, TypeOK
    <3>3. \A u \in Tasks \ {t} : mine'[u] = mine[u]
      BY <2>8 DEF Opened, PermitInv, TypeOK
    <3> QED
      BY <2>1, <3>1, <3>2, <3>3 DEF Places
  <2>9. ASSUME NEW t \in Tasks, OpenFails(t) PROVE CountInv'
    <3>1. Len(idle') + Uses(t)' <= Len(idle) + Uses(t)
      BY <2>0, <2>9 DEF OpenFails, Uses, BusyPlaces, PermitInv, TypeOK
    <3>2. /\ pc' = [pc EXCEPT ![t] = "releasing"] /\ UNCHANGED <<target, permits>>
          /\ pc[t] = "opening" /\ mine' = mine
      BY <2>9 DEF OpenFails
    <3>3. mine'[t] = <<>>
      BY <2>0, <3>2 DEF OnePermit, PlaceOK
    <3> QED
      BY <2>1, <3>1, <3>2, <3>3 DEF Places
  <2>10. ASSUME NEW t \in Tasks, PutBack(t) PROVE CountInv'
    <3>1. /\ pc' = [pc EXCEPT ![t] = "releasing"] /\ UNCHANGED <<target, permits>>
          /\ pc[t] = "holding" /\ Uses(t)' = 0 /\ Uses(t) = 1
      BY <2>10 DEF PutBack, Uses, BusyPlaces, PermitInv, TypeOK
    <3>2. idle' = idle \o mine[t] /\ Len(mine[t]) = 1
      BY <2>0, <2>10 DEF PutBack, Push, PlaceOK
    <3>3. Len(idle') = Len(idle) + 1
      <4>1. idle \in Seq(Sessions) /\ mine[t] \in Seq(Sessions)
        BY DEF PermitInv, TypeOK
      <4>2. Len(idle \o mine[t]) = Len(idle) + Len(mine[t])
        BY <4>1, ConcatProperties
      <4> QED
        BY <2>0, <3>2, <4>2
    <3>4. mine'[t] = <<>> /\ \A u \in Tasks \ {t} : mine'[u] = mine[u]
      BY <2>10 DEF PutBack, Push, PermitInv, TypeOK
    <3>5. Len(idle') + Uses(t)' <= Len(idle) + Uses(t)
      BY <2>0, <3>1, <3>3
    <3> QED
      BY <2>1, <3>1, <3>4, <3>5 DEF Places
  <2>11. ASSUME NEW t \in Tasks, ReleasePermit(t) PROVE CountInv'
    <3>1. /\ pc[t] = "releasing" /\ perm[t] = 1 /\ mine[t] = <<>> /\ target[t] = 0
          /\ Release(t, "out") /\ UNCHANGED <<mine, idle>>
      BY <2>0, <2>11 DEF ReleasePermit, OnePermit
    <3>2. target' = target
      BY <2>11, <3>1 DEF ReleasePermit, PermitInv, TypeOK
    <3>3. CASE FreePermit(t, "out")
      <4>1. /\ pc' = [pc EXCEPT ![t] = "out"] /\ avail' = avail + 1
            /\ perm' = [perm EXCEPT ![t] = 0]
        BY <3>1, <3>3 DEF FreePermit
      <4>2. /\ OnePermit(t)' /\ perm'[t] = 0 /\ Uses(t)' = 0 /\ Uses(t) = 0
        BY <3>1, <3>2, <4>1 DEF OnePermit, Uses, BusyPlaces, PermitInv, TypeOK
      <4>3. avail' = avail + perm[t] - perm'[t]
        BY <3>1, <4>1, <4>2 DEF PermitInv, TypeOK
      <4>4. \A u \in Tasks \ {t} : pc'[u] = pc[u] /\ perm'[u] = perm[u]
        BY <4>1 DEF PermitInv, TypeOK
      <4> QED
        BY <2>0, <3>1, <3>2, <4>2, <4>3, <4>4, OneTaskStep
    <3>4. CASE HandOver(t, "out")
      BY <3>1, <3>2, <3>4, HandOverCounts
    <3> QED
      BY <3>1, <3>3, <3>4 DEF Release
  <2>12. ASSUME NEW t \in Tasks, LeaveQueue(t) PROVE CountInv'
    <3>1. pc[t] = "waiting" /\ perm[t] = 0 /\ target[t] = 0
      BY <2>0, <2>12 DEF LeaveQueue, OnePermit
    <3>2. /\ pc' = [pc EXCEPT ![t] = "out"] /\ target' = [target EXCEPT ![t] = 0]
          /\ avail' = avail /\ perm' = perm /\ mine' = mine /\ idle' = idle
      BY <2>12, <3>1 DEF LeaveQueue, Leave
    <3>3. OnePermit(t)' /\ Uses(t)' = 0 /\ Uses(t) = 0
      BY <3>1, <3>2 DEF OnePermit, Uses, BusyPlaces, PermitInv, TypeOK
    <3>4. \A u \in Tasks \ {t} : pc'[u] = pc[u] /\ target'[u] = target[u]
      BY <3>2 DEF PermitInv, TypeOK
    <3>5. avail' = avail + perm[t] - perm'[t]
      BY <3>2 DEF PermitInv, TypeOK
    <3> QED
      BY <2>0, <3>2, <3>3, <3>4, <3>5, OneTaskStep
  <2>13. ASSUME NEW t \in Tasks, Cancel(t), ~LeaveQueue(t) PROVE CountInv'
    <3>1. /\ pc[t] \in {"now", "checking", "opening"} /\ UNCHANGED <<target, permits, idle>>
          /\ pc' = [pc EXCEPT ![t] = "releasing"]
          /\ mine' = [mine EXCEPT ![t] = <<>>]
      BY <2>0, <2>13 DEF Cancel, OnePermit
    <3>2. Uses(t)' = 0 /\ Uses(t) \in {0, 1}
      BY <3>1 DEF Uses, BusyPlaces, PermitInv, TypeOK
    <3>3. mine'[t] = <<>> /\ \A u \in Tasks \ {t} : mine'[u] = mine[u]
      BY <3>1 DEF PermitInv, TypeOK
    <3>4. Len(idle') + Uses(t)' <= Len(idle) + Uses(t)
      BY <2>0, <3>1, <3>2
    <3> QED
      BY <2>1, <3>1, <3>3, <3>4 DEF Places
  <2>14. ASSUME Age \/ UNCHANGED vars PROVE CountInv'
    BY <2>14 DEF Age, vars, CountInv, OnePermit, Holding, ConnectionBound, Busy
  <2> QED
    BY <2>0, <2>2, <2>3, <2>4, <2>5, <2>6, <2>7, <2>8, <2>9, <2>10, <2>11,
       <2>12, <2>13, <2>14
       DEF Next, Step, AcquireTimesOut, CloseSessions, Count, PushWarm, FinishWarmUp
<1>3. CountInv => ConnectionBound
  BY DEF CountInv
<1> QED
  BY <1>1, <1>2, <1>3, PermitInvariant, TypeCorrect, PTL DEF Spec
-----------------------------------------------------------------------------
(* Sessions.  What is idle and what each task holds are lists without       *)
(* repetition that have nothing in common.                                  *)

Elements(s) == {s[i] : i \in DOMAIN s}

NoRepeats(s) == \A i, j \in DOMAIN s : s[i] = s[j] => i = j

\* Exclusive alone is not inductive: a warm-up pushes all that it holds, so what
\* one task holds must not repeat either.
OwnInv ==
    /\ NoRepeats(idle)
    /\ \A t \in Tasks : NoRepeats(mine[t])
    /\ \A t \in Tasks : Elements(mine[t]) \cap Elements(idle) = {}
    /\ \A t, u \in Tasks : t # u => Elements(mine[t]) \cap Elements(mine[u]) = {}

\* Two lists end to end have the elements of both, and repeat nothing if they
\* do not and have nothing in common.
LEMMA ConcatOwn ==
    ASSUME NEW s \in Seq(Sessions), NEW r \in Seq(Sessions),
           NoRepeats(s), NoRepeats(r), Elements(s) \cap Elements(r) = {}
    PROVE  /\ Elements(s \o r) = Elements(s) \cup Elements(r)
           /\ NoRepeats(s \o r)
<1>1. /\ DOMAIN s = 1 .. Len(s) /\ DOMAIN r = 1 .. Len(r)
      /\ Len(s) \in Nat /\ Len(r) \in Nat
      /\ DOMAIN (s \o r) = 1 .. Len(s) + Len(r)
      /\ \A i \in 1 .. Len(s) + Len(r) :
            (s \o r)[i] = IF i <= Len(s) THEN s[i] ELSE r[i - Len(s)]
  OBVIOUS
<1>2. Elements(s \o r) = Elements(s) \cup Elements(r)
  <2>1. ASSUME NEW x \in Elements(s \o r) PROVE x \in Elements(s) \cup Elements(r)
    <3>1. PICK i \in 1 .. Len(s) + Len(r) : x = (s \o r)[i]
      BY <1>1 DEF Elements
    <3>2. CASE i <= Len(s)
      BY <1>1, <3>1, <3>2 DEF Elements
    <3>3. CASE ~(i <= Len(s))
      <4>1. i - Len(s) \in DOMAIN r /\ x = r[i - Len(s)]
        BY <1>1, <3>1, <3>3
      <4> QED
        BY <4>1 DEF Elements
    <3> QED
      BY <3>2, <3>3
  <2>2. ASSUME NEW x \in Elements(s) PROVE x \in Elements(s \o r)
    <3>1. PICK i \in DOMAIN s : x = s[i]
      BY DEF Elements
    <3>2. i \in DOMAIN (s \o r) /\ (s \o r)[i] = x
      BY <1>1, <3>1
    <3> QED
      BY <3>2 DEF Elements
  <2>3. ASSUME NEW x \in Elements(r) PROVE x \in Elements(s \o r)
    <3>1. PICK i \in DOMAIN r : x = r[i]
      BY DEF Elements
    <3>2. i + Len(s) \in DOMAIN (s \o r) /\ (s \o r)[i + Len(s)] = x
      BY <1>1, <3>1
    <3> QED
      BY <3>2 DEF Elements
  <2> QED
    BY <2>1, <2>2, <2>3
<1>3. NoRepeats(s \o r)
  <2> SUFFICES ASSUME NEW i \in 1 .. Len(s) + Len(r), NEW j \in 1 .. Len(s) + Len(r),
                      (s \o r)[i] = (s \o r)[j]
               PROVE  i = j
    BY <1>1 DEF NoRepeats
  <2>1. \A k \in 1 .. Len(s), l \in 1 .. Len(r) : s[k] # r[l]
    BY <1>1 DEF Elements
  <2>2. CASE i <= Len(s) /\ j <= Len(s)
    BY <1>1, <2>2 DEF NoRepeats
  <2>3. CASE i > Len(s) /\ j > Len(s)
    <3>1. i - Len(s) \in DOMAIN r /\ j - Len(s) \in DOMAIN r
      BY <1>1, <2>3
    <3>2. r[i - Len(s)] = r[j - Len(s)]
      BY <1>1, <2>3
    <3>3. i - Len(s) = j - Len(s)
      BY <3>1, <3>2 DEF NoRepeats
    <3> QED
      BY <1>1, <3>3
  <2>4. CASE i <= Len(s) /\ j > Len(s)
    <3>1. j - Len(s) \in 1 .. Len(r) /\ s[i] = r[j - Len(s)] /\ i \in 1 .. Len(s)
      BY <1>1, <2>4
    <3> QED
      BY <2>1, <3>1
  <2>5. CASE i > Len(s) /\ j <= Len(s)
    <3>1. i - Len(s) \in 1 .. Len(r) /\ s[j] = r[i - Len(s)] /\ j \in 1 .. Len(s)
      BY <1>1, <2>5
    <3> QED
      BY <2>1, <3>1
  <2> QED
    BY <1>1, <2>2, <2>3, <2>4, <2>5
<1> QED
  BY <1>2, <1>3

\* A list of one session.
LEMMA SingleOwn ==
    ASSUME NEW x \in Sessions
    PROVE  /\ <<x>> \in Seq(Sessions)
           /\ Elements(<<x>>) = {x} /\ NoRepeats(<<x>>)
BY DEF Elements, NoRepeats

\* An empty list.
LEMMA EmptyOwn == Elements(<<>>) = {} /\ NoRepeats(<<>>)
BY DEF Elements, NoRepeats

\* A pop takes the last entry off the idle list.
LEMMA PopList ==
    ASSUME TypeOK, idle # <<>>
    PROVE  /\ Len(idle) \in Nat /\ Len(idle) >= 1
           /\ DOMAIN idle = 1 .. Len(idle)
           /\ DOMAIN Popped = 1 .. Len(idle) - 1
           /\ \A i \in 1 .. Len(idle) - 1 : Popped[i] = idle[i]
<1>1. idle \in Seq(Sessions) /\ Len(idle) \in Nat /\ Len(idle) >= 1
  BY DEF TypeOK
<1>2. \A i \in 1 .. Len(idle) - 1 : idle[i] \in Sessions
  BY <1>1
<1>3. /\ DOMAIN idle = 1 .. Len(idle)
      /\ DOMAIN Popped = 1 .. Len(idle) - 1
      /\ \A i \in 1 .. Len(idle) - 1 : Popped[i] = idle[i]
  <2>1. Len(Popped) = Len(idle) - 1
    <3>1. Len(SubSeq(idle, 1, Len(idle) - 1))
            = IF 1 <= Len(idle) - 1 THEN Len(idle) - 1 - 1 + 1 ELSE 0
      BY <1>1, <1>2, SubSeqProperties
    <3>2. Len(SubSeq(idle, 1, Len(idle) - 1)) = Len(idle) - 1
      <4> DEFINE n == Len(idle)
                 k == Len(SubSeq(idle, 1, n - 1))
      <4>1. n \in Nat /\ n >= 1 /\ k = IF 1 <= n - 1 THEN n - 1 - 1 + 1 ELSE 0
        BY <1>1, <3>1
      <4>2. k = n - 1
        <5> HIDE DEF k, n
        <5> QED
          BY <4>1
      <4> QED
        BY <4>2
    <3> QED
      BY <3>2, Zenon DEF Popped
  <2>3. \A i \in 1 .. Len(idle) - 1 : Popped[i] = idle[i]
    <3>1. \A i \in 1 .. Len(idle) - 1 - 1 + 1 : Popped[i] = idle[1 + i - 1]
      BY <1>1, <1>2, SubSeqProperties DEF Popped
    <3>2. 1 .. Len(idle) - 1 = 1 .. Len(idle) - 1 - 1 + 1
      BY <1>1
    <3>3. \A i \in 1 .. Len(idle) - 1 : 1 + i - 1 = i
      BY <1>1
    <3> QED
      BY <3>1, <3>2, <3>3
  <2>2. Popped \in Seq(Sessions)
    BY PopType
  <2> QED
    BY <1>1, <2>1, <2>2, <2>3
<1> QED
  BY <1>1, <1>3

\* The idle list after a pop has lost the session that was popped.
LEMMA PopOwn ==
    ASSUME TypeOK, idle # <<>>, NoRepeats(idle)
    PROVE  /\ Elements(Popped) \subseteq Elements(idle) /\ NoRepeats(Popped)
           /\ idle[Len(idle)] \in Elements(idle) \ Elements(Popped)
<1>1. Len(idle) \in Nat /\ Len(idle) >= 1
  BY PopList
<1>3. /\ DOMAIN idle = 1 .. Len(idle)
      /\ DOMAIN Popped = 1 .. Len(idle) - 1
      /\ \A i \in 1 .. Len(idle) - 1 : Popped[i] = idle[i]
  BY PopList
<1>4. Elements(Popped) \subseteq Elements(idle)
  BY <1>1, <1>3 DEF Elements
<1>5. NoRepeats(Popped)
  BY <1>1, <1>3 DEF NoRepeats
<1>6. idle[Len(idle)] \in Elements(idle)
  BY <1>1, <1>3 DEF Elements
<1>7. idle[Len(idle)] \notin Elements(Popped)
  BY <1>1, <1>3 DEF Elements, NoRepeats
<1> QED
  BY <1>4, <1>5, <1>6, <1>7

\* A step that leaves the idle list as it is, or a part of it, and gives one task
\* sessions that nobody has.
LEMMA TakesOwn ==
    ASSUME TypeOK, OwnInv, NEW t \in Tasks, NEW m \in Seq(Sessions),
           mine' = [mine EXCEPT ![t] = m], NoRepeats(m), NoRepeats(idle'),
           Elements(idle') \subseteq Elements(idle), Elements(m) \cap Elements(idle') = {},
           \A u \in Tasks \ {t} : Elements(m) \cap Elements(mine[u]) = {}
    PROVE  OwnInv'
<1>1. mine'[t] = m /\ \A u \in Tasks \ {t} : mine'[u] = mine[u]
  BY DEF TypeOK
<1>2. \A u \in Tasks : NoRepeats(mine'[u])
  BY <1>1 DEF OwnInv
<1>3. \A u \in Tasks : Elements(mine'[u]) \cap Elements(idle') = {}
  BY <1>1 DEF OwnInv
<1>4. \A u, w \in Tasks : u # w => Elements(mine'[u]) \cap Elements(mine'[w]) = {}
  BY <1>1 DEF OwnInv
<1> QED
  BY <1>2, <1>3, <1>4 DEF OwnInv, NoRepeats

\* A task that closes what it holds takes nothing.
LEMMA ClosesOwn ==
    ASSUME TypeOK, OwnInv, NEW t \in Tasks, mine' = [mine EXCEPT ![t] = <<>>], idle' = idle
    PROVE  OwnInv'
<1>1. <<>> \in Seq(Sessions) /\ NoRepeats(idle')
  BY DEF OwnInv
<1>2. Elements(idle') = Elements(idle)
  OBVIOUS
<1> QED
  BY <1>1, <1>2, EmptyOwn, TakesOwn

\* What a task returns moves from its hands to the idle list.
LEMMA PushOwn ==
    ASSUME TypeOK, OwnInv, NEW t \in Tasks, Push(t)
    PROVE  OwnInv'
<1>1. /\ idle \in Seq(Sessions) /\ mine[t] \in Seq(Sessions)
      /\ NoRepeats(idle) /\ NoRepeats(mine[t]) /\ Elements(idle) \cap Elements(mine[t]) = {}
  BY DEF TypeOK, OwnInv
<1>2. idle' = idle \o mine[t] /\ mine' = [mine EXCEPT ![t] = <<>>]
  BY DEF Push
<1>3. /\ Elements(idle') = Elements(idle) \cup Elements(mine[t])
      /\ NoRepeats(idle')
  BY <1>1, <1>2, ConcatOwn
<1>4. mine'[t] = <<>> /\ \A u \in Tasks \ {t} : mine'[u] = mine[u]
  BY <1>2 DEF TypeOK
<1>5. \A u \in Tasks : NoRepeats(mine'[u])
  BY <1>4, EmptyOwn DEF OwnInv
<1>6. \A u \in Tasks : Elements(mine'[u]) \cap Elements(idle') = {}
  BY <1>3, <1>4, EmptyOwn DEF OwnInv
<1>7. \A u, w \in Tasks : u # w => Elements(mine'[u]) \cap Elements(mine'[w]) = {}
  BY <1>4, EmptyOwn DEF OwnInv
<1> QED
  BY <1>3, <1>5, <1>6, <1>7 DEF OwnInv, NoRepeats

\* Every step keeps the sessions apart.
LEMMA OwnStep ==
    ASSUME TypeOK, OwnInv, [Next]_vars
    PROVE  OwnInv'
<1> USE DEF permits
<1>1. ASSUME UNCHANGED <<mine, idle>> PROVE OwnInv'
  BY <1>1 DEF OwnInv
<1>2. ASSUME NEW t \in Tasks, Pop(t) PROVE OwnInv'
  <2>1. idle # <<>> /\ idle' = Popped
    BY <1>2 DEF Pop
  <2>2. PICK x \in Sessions : x = idle[Len(idle)]
    BY <2>1, PopType
  <2>3. /\ Elements(idle') \subseteq Elements(idle) /\ NoRepeats(idle')
        /\ x \in Elements(idle) \ Elements(idle')
    BY <2>1, <2>2, PopOwn DEF OwnInv
  <2>4. CASE mine' = mine
    BY <2>3, <2>4 DEF OwnInv, NoRepeats
  <2>5. CASE mine' = [mine EXCEPT ![t] = <<x>>]
    <3>1. \A u \in Tasks \ {t} : {x} \cap Elements(mine[u]) = {}
      BY <2>3 DEF OwnInv
    <3>2. /\ <<x>> \in Seq(Sessions) /\ Elements(<<x>>) = {x} /\ NoRepeats(<<x>>)
      BY <2>2, SingleOwn
    <3>3. {x} \cap Elements(idle') = {}
      BY <2>3
    <3> QED
      BY <2>3, <2>5, <3>1, <3>2, <3>3, TakesOwn
  <2> QED
    BY <1>2, <2>2, <2>4, <2>5 DEF Pop
<1>3. ASSUME NEW t \in Tasks, Opened(t) PROVE OwnInv'
  <2>1. idle' = idle
    BY <1>3 DEF Opened
  <2>2. PICK s \in Sessions \ Live : mine' = [mine EXCEPT ![t] = Append(@, s)]
    BY <1>3 DEF Opened
  <2>3. s \notin Elements(idle) /\ \A u \in Tasks : s \notin Elements(mine[u])
    BY <2>2 DEF Live, InIdle, Holds, Elements
  <2>4. /\ mine[t] \in Seq(Sessions) /\ NoRepeats(mine[t])
        /\ <<s>> \in Seq(Sessions) /\ Elements(<<s>>) = {s} /\ NoRepeats(<<s>>)
    BY <2>2, SingleOwn DEF TypeOK, OwnInv
  <2>5. /\ Elements(mine[t] \o <<s>>) = Elements(mine[t]) \cup {s}
        /\ NoRepeats(mine[t] \o <<s>>)
    BY <2>3, <2>4, ConcatOwn
  <2>6. Append(mine[t], s) = mine[t] \o <<s>> /\ Append(mine[t], s) \in Seq(Sessions)
    BY <2>2, <2>4
  <2>7. /\ Elements(Append(mine[t], s)) = Elements(mine[t]) \cup {s}
        /\ NoRepeats(Append(mine[t], s))
    BY <2>5, <2>6
  <2>8. /\ mine' = [mine EXCEPT ![t] = Append(mine[t], s)]
        /\ NoRepeats(idle') /\ Elements(idle') = Elements(idle)
        /\ Elements(Append(mine[t], s)) \cap Elements(idle') = {}
    BY <2>1, <2>2, <2>3, <2>7 DEF OwnInv
  <2>9. \A u \in Tasks \ {t} : Elements(Append(mine[t], s)) \cap Elements(mine[u]) = {}
    BY <2>3, <2>7 DEF OwnInv
  <2> QED
    BY <2>6, <2>7, <2>8, <2>9, TakesOwn
<1>4. ASSUME NEW t \in Tasks, PutBack(t) \/ FinishWarmUp(t) PROVE OwnInv'
  BY <1>4, PushOwn DEF PutBack, FinishWarmUp
<1>5. ASSUME NEW t \in Tasks, CheckFails(t) \/ CloseSessions(t) PROVE OwnInv'
  BY <1>5, ClosesOwn DEF CheckFails, CloseSessions
<1>6. ASSUME NEW t \in Tasks, Cancel(t) PROVE OwnInv'
  BY <1>1, <1>6, ClosesOwn DEF Cancel, LeaveQueue
<1>7. ASSUME NEW t \in Tasks, NEW n \in WarmTargets,
             \/ StartSession(t) \/ StartWarmUp(t, n) \/ TakeNow(t) \/ PopNone(t)
             \/ CheckPasses(t) \/ OpenFails(t) \/ ReleasePermit(t) \/ Count(t)
             \/ PushWarm(t) \/ LeaveQueue(t)
      PROVE  UNCHANGED <<mine, idle>>
  BY <1>7 DEF StartSession, StartWarmUp, TakeNow, PopNone, CheckPasses, OpenFails,
              ReleasePermit, Count, PushWarm, LeaveQueue
<1>8. ASSUME NEW t \in Tasks,
             \/ StartSession(t) \/ TakeNow(t) \/ PopNone(t)
             \/ CheckPasses(t) \/ OpenFails(t) \/ ReleasePermit(t) \/ Count(t)
             \/ PushWarm(t) \/ LeaveQueue(t)
      PROVE  UNCHANGED <<mine, idle>>
  BY <1>8 DEF StartSession, TakeNow, PopNone, CheckPasses, OpenFails,
              ReleasePermit, Count, PushWarm, LeaveQueue
<1>9. ASSUME Age \/ UNCHANGED vars PROVE UNCHANGED <<mine, idle>>
  BY <1>9 DEF Age, vars
<1> QED
  BY <1>1, <1>2, <1>3, <1>4, <1>5, <1>6, <1>7, <1>8, <1>9
     DEF Next, Step, AcquireTimesOut

-----------------------------------------------------------------------------
(* Permits.  What is free and what is held add up.                          *)

ConserveInv == PermitsConserved /\ IsFiniteSet(Tickets(perm))

\* A task with one permit more is one ticket more.
LEMMA OneMore ==
    ASSUME NEW p \in [Tasks -> Nat], NEW t \in Tasks, NEW q \in [Tasks -> Nat],
           q[t] = p[t] + 1, \A u \in Tasks \ {t} : q[u] = p[u],
           IsFiniteSet(Tickets(p))
    PROVE  /\ IsFiniteSet(Tickets(q))
           /\ Cardinality(Tickets(p)) \in Nat
           /\ Cardinality(Tickets(q)) = Cardinality(Tickets(p)) + 1
<1> DEFINE new == <<t, p[t] + 1>>
<1>1. \A u, k : <<u, k>> \in Tickets(p) <=> u \in Tasks /\ k \in 1 .. p[u]
  BY DEF Tickets
<1>2. new \notin Tickets(p)
  BY <1>1
<1>3. p[t] \in Nat /\ q[t] = p[t] + 1 /\ \A u \in Tasks \ {t} : q[u] = p[u]
  OBVIOUS
<1>4. Tickets(q) = Tickets(p) \cup {new}
  <2>1. ASSUME NEW x \in Tickets(q) PROVE x \in Tickets(p) \cup {new}
    <3>0. PICK u \in Tasks : x \in {u} \X (1 .. q[u])
      BY DEF Tickets
    <3>1. PICK k \in 1 .. q[u] : x = <<u, k>>
      BY <3>0
    <3>2. CASE k \in 1 .. p[u]
      BY <1>1, <3>1, <3>2
    <3>3. CASE k \notin 1 .. p[u]
      <4>1. u = t /\ k = p[t] + 1
        BY <1>3, <3>1, <3>3
      <4> QED
        BY <3>1, <4>1
    <3> QED
      BY <3>2, <3>3
  <2>2. ASSUME NEW x \in Tickets(p) PROVE x \in Tickets(q)
    <3>0. PICK u \in Tasks : x \in {u} \X (1 .. p[u])
      BY DEF Tickets
    <3>1. PICK k \in 1 .. p[u] : x = <<u, k>>
      BY <3>0
    <3>2. k \in 1 .. q[u]
      BY <1>3, <3>1
    <3> QED
      BY <3>1, <3>2 DEF Tickets
  <2>3. new \in Tickets(q)
    <3>1. p[t] + 1 \in 1 .. q[t]
      BY <1>3
    <3> QED
      BY <3>1 DEF Tickets
  <2> QED
    BY <2>1, <2>2, <2>3
<1>5. /\ IsFiniteSet(Tickets(p) \cup {new}) /\ Cardinality(Tickets(p)) \in Nat
      /\ Cardinality(Tickets(p) \cup {new}) = Cardinality(Tickets(p)) + 1
  <2> HIDE DEF new
  <2> QED
    BY <1>2, FS_AddElement, FS_CardinalityType
<1> QED
  BY <1>4, <1>5, Zenon

\* A task with one permit less is one ticket less.
LEMMA OneLess ==
    ASSUME NEW p \in [Tasks -> Nat], NEW t \in Tasks, NEW q \in [Tasks -> Nat],
           q[t] = p[t] - 1, \A u \in Tasks \ {t} : q[u] = p[u],
           IsFiniteSet(Tickets(p))
    PROVE  /\ IsFiniteSet(Tickets(q))
           /\ Cardinality(Tickets(q)) \in Nat
           /\ Cardinality(Tickets(p)) = Cardinality(Tickets(q)) + 1
<1>0. p[t] \in Nat /\ q[t] \in Nat
  OBVIOUS
<1>1. p[t] = q[t] + 1 /\ \A u \in Tasks \ {t} : p[u] = q[u]
  BY <1>0
<1>2. Tickets(q) \subseteq Tickets(p)
  <2>1. \A u \in Tasks : 1 .. q[u] \subseteq 1 .. p[u]
    BY <1>0, <1>1
  <2> QED
    BY <2>1 DEF Tickets
<1>3. IsFiniteSet(Tickets(q))
  BY <1>2, FS_Subset
<1> QED
  BY <1>1, <1>3, OneMore

\* Every step moves permits between what is free and what is held, or from one
\* task to another.
LEMMA ConserveStep ==
    ASSUME TypeOK, PermitInv, ConserveInv, [Next]_vars
    PROVE  ConserveInv'
<1> USE DEF permits
<1>0. perm \in [Tasks -> Nat] /\ avail \in Nat /\ MaxSessions \in Nat
  BY SizeAssumption DEF TypeOK
<1>1. ASSUME UNCHANGED <<avail, perm>> PROVE ConserveInv'
  BY <1>1 DEF ConserveInv, PermitsConserved
<1>2. ASSUME NEW t \in Tasks, Acquire(t) PROVE ConserveInv'
  <2>1. CASE TakePermit(t)
    <3>1. perm' = [perm EXCEPT ![t] = @ + 1] /\ avail' = avail - 1
      BY <2>1 DEF TakePermit
    <3>2. /\ perm' \in [Tasks -> Nat] /\ perm'[t] = perm[t] + 1
          /\ \A u \in Tasks \ {t} : perm'[u] = perm[u]
      BY <1>0, <3>1
    <3>3. /\ IsFiniteSet(Tickets(perm')) /\ Cardinality(Tickets(perm)) \in Nat
          /\ Cardinality(Tickets(perm')) = Cardinality(Tickets(perm)) + 1
      BY <1>0, <3>2, OneMore DEF ConserveInv
    <3> QED
      BY <1>0, <3>1, <3>3 DEF ConserveInv, PermitsConserved
  <2>2. CASE Enqueue(t)
    BY <1>1, <2>2 DEF Enqueue
  <2> QED
    BY <1>2, <2>1, <2>2 DEF Acquire
<1>3. ASSUME NEW t \in Tasks, pc[t] = "releasing", NEW done, Release(t, done)
      PROVE  ConserveInv'
  <2>1. perm[t] \in Nat /\ perm[t] - 1 \in Nat
    BY <1>0, <1>3 DEF Release
  <2>2. PICK less \in [Tasks -> Nat] :
           less[t] = perm[t] - 1 /\ \A u \in Tasks \ {t} : less[u] = perm[u]
    <3> DEFINE l == [perm EXCEPT ![t] = perm[t] - 1]
    <3>1. l \in [Tasks -> Nat] /\ l[t] = perm[t] - 1 /\ \A u \in Tasks \ {t} : l[u] = perm[u]
      BY <1>0, <2>1
    <3> HIDE DEF l
    <3> QED
      BY <3>1
  <2>3. /\ IsFiniteSet(Tickets(less)) /\ Cardinality(Tickets(less)) \in Nat
        /\ Cardinality(Tickets(perm)) = Cardinality(Tickets(less)) + 1
    BY <1>0, <2>2, OneLess DEF ConserveInv
  <2>4. CASE FreePermit(t, done)
    <3>1. perm' = less /\ avail' = avail + 1
      BY <1>0, <2>2, <2>4 DEF FreePermit
    <3> QED
      BY <1>0, <2>3, <3>1 DEF ConserveInv, PermitsConserved
  <2>5. CASE HandOver(t, done)
    <3>1. queue \in Seq(Tasks) /\ queue # <<>> /\ avail' = avail
      BY <2>5 DEF HandOver, TypeOK
    <3>2. PICK h \in Tasks : h = Head(queue) /\ h # t
      BY <1>3, <3>1 DEF PermitInv, QueueOK
    <3>3. perm' = [perm EXCEPT ![t] = perm[t] - 1, ![h] = perm[h] + 1]
      BY <2>5, <3>2 DEF HandOver
    <3>4. /\ perm' \in [Tasks -> Nat] /\ perm'[h] = less[h] + 1
          /\ \A u \in Tasks \ {h} : perm'[u] = less[u]
      BY <1>0, <2>1, <2>2, <3>2, <3>3
    <3>5. /\ IsFiniteSet(Tickets(perm'))
          /\ Cardinality(Tickets(perm')) = Cardinality(Tickets(less)) + 1
      BY <2>3, <3>4, OneMore
    <3> QED
      BY <1>0, <2>3, <3>1, <3>5 DEF ConserveInv, PermitsConserved
  <2> QED
    BY <1>3, <2>4, <2>5 DEF Release
<1>4. ASSUME NEW t \in Tasks, StartSession(t) \/ Count(t) PROVE ConserveInv'
  BY <1>2, <1>4 DEF StartSession, Count
<1>5. ASSUME NEW t \in Tasks, ReleasePermit(t) PROVE ConserveInv'
  BY <1>3, <1>5 DEF ReleasePermit
<1>6. ASSUME NEW t \in Tasks, NEW n \in WarmTargets, StartWarmUp(t, n)
      PROVE  UNCHANGED <<avail, perm>>
  BY <1>6 DEF StartWarmUp
<1>7. ASSUME NEW t \in Tasks,
             \/ TakeNow(t) \/ Pop(t) \/ PopNone(t) \/ CheckPasses(t) \/ CheckFails(t)
             \/ Opened(t) \/ OpenFails(t) \/ PutBack(t) \/ CloseSessions(t)
             \/ PushWarm(t) \/ FinishWarmUp(t) \/ LeaveQueue(t) \/ Cancel(t)
      PROVE  UNCHANGED <<avail, perm>>
  BY <1>7 DEF TakeNow, Pop, PopNone, CheckPasses, CheckFails, Opened, OpenFails, PutBack,
              CloseSessions, PushWarm, FinishWarmUp, LeaveQueue, Cancel
<1>8. ASSUME Age \/ UNCHANGED vars PROVE UNCHANGED <<avail, perm>>
  BY <1>8 DEF Age, vars
<1> QED
  BY <1>1, <1>4, <1>5, <1>6, <1>7, <1>8 DEF Next, Step, AcquireTimesOut

\* At the start nobody holds anything.
LEMMA NothingHeldInit == Init => OwnInv /\ ConserveInv
<1> SUFFICES ASSUME Init PROVE OwnInv /\ ConserveInv
  OBVIOUS
<1>1. OwnInv
  BY EmptyOwn DEF Init, OwnInv
<1>2. \A t \in Tasks : perm[t] = 0
  BY DEF Init
<1>3. \A t \in Tasks : 1 .. perm[t] = {}
  BY <1>2
<1>4. Tickets(perm) = {}
  BY <1>3 DEF Tickets
<1>5. IsFiniteSet({}) /\ Cardinality({}) = 0 /\ MaxSessions \in Nat
  BY FS_EmptySet, SizeAssumption
<1>6. ConserveInv
  <2>1. avail = MaxSessions
    BY DEF Init
  <2>2. IsFiniteSet(Tickets(perm)) /\ Cardinality(Tickets(perm)) = 0
    BY <1>4, <1>5, Zenon
  <2> QED
    BY <1>5, <2>1, <2>2 DEF ConserveInv, PermitsConserved
<1> QED
  BY <1>1, <1>6

\* Sessions are kept apart throughout.
LEMMA OwnInvariant == Spec => []OwnInv
<1>1. TypeOK /\ OwnInv /\ [Next]_vars => OwnInv'
  BY OwnStep
<1>2. Init => OwnInv
  BY NothingHeldInit
<1> QED
  BY <1>1, <1>2, TypeCorrect, PTL DEF Spec

\* No session is in two hands or in a hand and in the idle list, and no permit is
\* lost or made up, however the steps of the tasks interleave and wherever
\* their futures are dropped: warm-ups, timeouts and health checks included.
THEOREM SharingSafety == Spec => []NothingSharedOrLost
<1>1. TypeOK /\ PermitInv /\ ConserveInv /\ [Next]_vars => ConserveInv'
  BY ConserveStep
<1>3. Init => ConserveInv
  BY NothingHeldInit
<1>2. OwnInv /\ ConserveInv => NothingSharedOrLost
  <2> SUFFICES ASSUME OwnInv, ConserveInv PROVE Exclusive /\ PermitsConserved
    BY DEF NothingSharedOrLost
  <2>1. /\ InIdle = Elements(idle)
        /\ \A t \in Tasks : Holds(t) = Elements(mine[t])
    BY DEF InIdle, Holds, Elements
  <2>2. Exclusive
    BY <2>1 DEF OwnInv, Exclusive, NoRepeats
  <2> QED
    BY <2>2 DEF ConserveInv
<1> QED
  BY <1>1, <1>2, <1>3, OwnInvariant, PermitInvariant, TypeCorrect, PTL DEF Spec

-----------------------------------------------------------------------------
(* Idle times.  An entry that has expired is in the idle list, and a task   *)
(* that is about to pop knows all of them, unless it has waited for a check. *)

AgeInv ==
    /\ aged \subseteq InIdle
    /\ HealthCheck = "None" =>
          \A t \in Tasks : pc[t] # "checking" /\ (pc[t] = "pop" => aged \subseteq stale[t])

\* Dropping a permit moves the task that drops it and the waiter that gets it.
LEMMA ReleasePlaces ==
    ASSUME PermitInv, NEW t \in Tasks, ReleasePermit(t), NEW u \in Tasks
    PROVE  \/ pc'[u] = pc[u]
           \/ u = t /\ pc[t] = "releasing" /\ pc'[t] \in {"out", "closing"}
           \/ pc[u] = "waiting" /\ pc'[u] \in {"now", "opening"}
<1>1. PICK done \in {"out", "closing"} : Release(t, done)
  BY DEF ReleasePermit
<1>2. pc[t] = "releasing" /\ pc \in [Tasks -> Places]
  BY DEF ReleasePermit, PermitInv, TypeOK
<1>3. CASE FreePermit(t, done)
  BY <1>2, <1>3 DEF FreePermit
<1>4. CASE HandOver(t, done)
  <2>1. queue \in Seq(Tasks) /\ queue # <<>>
    BY <1>4 DEF HandOver, PermitInv, TypeOK
  <2>2. Head(queue) = queue[1] /\ 1 \in DOMAIN queue /\ queue[1] \in Tasks
    BY <2>1
  <2>3. pc[queue[1]] = "waiting"
    BY <2>2 DEF PermitInv, QueueOK
  <2>4. PICK h \in Tasks, g \in {"now", "opening"} :
          h = Head(queue) /\ g = Granted(h) /\ pc[h] = "waiting"
    BY <2>2, <2>3 DEF Granted
  <2>5. pc' = [pc EXCEPT ![t] = IF perm[t] = 1 THEN done ELSE "releasing", ![h] = g]
    BY <1>2, <1>4, <2>4 DEF HandOver
  <2> QED
    BY <1>2, <2>4, <2>5
<1> QED
  BY <1>1, <1>3, <1>4 DEF Release

\* A step that leaves times alone, takes nothing that is aged out of the idle list
\* and sends nobody to the pop.
LEMMA AgeKept ==
    ASSUME TypeOK, AgeInv, NEW t \in Tasks, NEW p \in Places, p \notin {"pop", "checking"},
           pc' = [pc EXCEPT ![t] = p], UNCHANGED <<aged, stale>>,
           InIdle \subseteq InIdle'
    PROVE  AgeInv'
<1>1. \A u \in Tasks : pc'[u] \in {"pop", "checking"} => pc'[u] = pc[u]
  BY DEF TypeOK
<1> QED
  BY <1>1 DEF AgeInv

\* A session that is returned is not among those that have expired.
LEMMA AgePush ==
    ASSUME TypeOK, OwnInv, AgeInv, NEW t \in Tasks, NEW p \in Places,
           p \notin {"pop", "checking"},
           Push(t), pc' = [pc EXCEPT ![t] = p], aged' = aged
    PROVE  AgeInv'
<1>1. /\ idle \in Seq(Sessions) /\ mine[t] \in Seq(Sessions)
      /\ NoRepeats(idle) /\ NoRepeats(mine[t]) /\ Elements(idle) \cap Elements(mine[t]) = {}
  BY DEF TypeOK, OwnInv
<1>2. idle' = idle \o mine[t] /\ stale' = [u \in Tasks |-> stale[u] \ Holds(t)]
  BY DEF Push
<1>3. Elements(idle') = Elements(idle) \cup Elements(mine[t])
  BY <1>1, <1>2, ConcatOwn
<1>4. InIdle = Elements(idle) /\ InIdle' = Elements(idle') /\ Holds(t) = Elements(mine[t])
  BY DEF InIdle, Holds, Elements
<1>5. aged' \subseteq InIdle'
  BY <1>3, <1>4 DEF AgeInv
<1>6. aged \cap Holds(t) = {}
  BY <1>1, <1>4 DEF AgeInv
<1>7. \A u \in Tasks : pc'[u] \in {"pop", "checking"} => pc'[u] = pc[u]
  BY DEF TypeOK
<1>8. ASSUME HealthCheck = "None", NEW u \in Tasks
      PROVE  pc'[u] # "checking" /\ (pc'[u] = "pop" => aged' \subseteq stale'[u])
  BY <1>2, <1>6, <1>7, <1>8 DEF AgeInv
<1> QED
  BY <1>5, <1>8 DEF AgeInv

\* The entry that is popped leaves both the idle list and the expired ones.
LEMMA AgePop ==
    ASSUME TypeOK, OwnInv, AgeInv, NEW t \in Tasks, Pop(t)
    PROVE  AgeInv'
<1>1. /\ idle # <<>> /\ idle' = Popped /\ pc[t] = "pop" /\ stale' = stale
      /\ aged' = aged \ {idle[Len(idle)]}
  BY DEF Pop
<1>2. PICK p \in {"pop", "holding", "checking"} :
        pc' = [pc EXCEPT ![t] = p] /\ (p = "checking" => HealthCheck # "None")
  <2>1. pc = [pc EXCEPT ![t] = "pop"]
    BY <1>1 DEF TypeOK
  <2> QED
    BY <2>1 DEF Pop
<1>3. \A u \in Tasks :
         /\ (pc'[u] = "pop" => pc[u] = "pop")
         /\ (HealthCheck = "None" /\ pc'[u] = "checking" => pc[u] = "checking")
  BY <1>1, <1>2 DEF TypeOK
<1>4. InIdle \ {idle[Len(idle)]} \subseteq InIdle'
  <2>1. idle \in Seq(Sessions) /\ Len(idle) \in Nat /\ DOMAIN idle = 1 .. Len(idle)
    BY DEF TypeOK
  <2>2. DOMAIN Popped = 1 .. Len(idle) - 1 /\ \A i \in 1 .. Len(idle) - 1 : Popped[i] = idle[i]
    BY <1>1, PopList
  <2>3. ASSUME NEW i \in DOMAIN idle, idle[i] # idle[Len(idle)]
        PROVE  idle[i] \in Elements(Popped)
    <3>1. i \in 1 .. Len(idle) - 1
      BY <2>1, <2>3
    <3> QED
      BY <2>2, <3>1 DEF Elements
  <2> QED
    BY <1>1, <2>3 DEF InIdle, Elements
<1> QED
  BY <1>1, <1>3, <1>4 DEF AgeInv

\* Every step keeps what is known of idle times.
LEMMA AgeStep ==
    ASSUME PermitInv, OwnInv, AgeInv, [Next]_vars
    PROVE  AgeInv'
<1>0. TypeOK
  BY DEF PermitInv
<1> USE DEF Places
<1>1. ASSUME NEW t \in Tasks, StartSession(t) \/ Count(t) PROVE AgeInv'
  <2>1. PICK p \in {"now", "waiting", "opening"} : pc' = [pc EXCEPT ![t] = p]
    BY <1>1 DEF StartSession, Count, AfterAcquire
  <2>2. UNCHANGED <<aged, stale, idle>>
    BY <1>1 DEF StartSession, Count
  <2> QED
    BY <1>0, <2>1, <2>2, AgeKept DEF InIdle
<1>2. ASSUME NEW t \in Tasks, NEW n \in WarmTargets, StartWarmUp(t, n) PROVE AgeInv'
  BY <1>0, <1>2, AgeKept DEF StartWarmUp, InIdle
<1>3. ASSUME NEW t \in Tasks, TakeNow(t) PROVE AgeInv'
  <2>1. /\ pc' = [pc EXCEPT ![t] = "pop"] /\ stale' = [stale EXCEPT ![t] = aged]
        /\ aged' = aged /\ idle' = idle
    BY <1>3 DEF TakeNow
  <2>2. stale'[t] = aged /\ \A u \in Tasks \ {t} : pc'[u] = pc[u] /\ stale'[u] = stale[u]
    BY <1>0, <2>1 DEF TypeOK
  <2>4. pc'[t] = "pop"
    BY <1>0, <2>1 DEF TypeOK
  <2>3. ASSUME HealthCheck = "None", NEW u \in Tasks
        PROVE  pc'[u] # "checking" /\ (pc'[u] = "pop" => aged' \subseteq stale'[u])
    BY <2>1, <2>2, <2>3, <2>4 DEF AgeInv
  <2> QED
    BY <2>1, <2>3 DEF AgeInv, InIdle
<1>4. ASSUME NEW t \in Tasks, Pop(t) PROVE AgeInv'
  BY <1>0, <1>4, AgePop
<1>5. ASSUME NEW t \in Tasks, PopNone(t) \/ CheckPasses(t) \/ OpenFails(t) \/ CloseSessions(t)
                                \/ PushWarm(t)
      PROVE  AgeInv'
  <2>1. PICK p \in {"opening", "holding", "releasing", "out", "pushing"} :
          pc' = [pc EXCEPT ![t] = p]
    BY <1>5 DEF PopNone, CheckPasses, OpenFails, CloseSessions, PushWarm
  <2>2. UNCHANGED <<aged, stale, idle>>
    BY <1>5 DEF PopNone, CheckPasses, OpenFails, CloseSessions, PushWarm
  <2> QED
    BY <1>0, <2>1, <2>2, AgeKept DEF InIdle
<1>6. ASSUME NEW t \in Tasks, CheckFails(t) PROVE AgeInv'
  <2>1. HealthCheck # "None"
    BY <1>6 DEF CheckFails, AgeInv
  <2> QED
    BY <1>6, <2>1 DEF CheckFails, AgeInv, InIdle
<1>7. ASSUME NEW t \in Tasks, Opened(t) PROVE AgeInv'
  <2>1. PICK p \in {"holding", "counting"} : pc' = [pc EXCEPT ![t] = p]
    BY <1>7 DEF Opened
  <2>2. UNCHANGED <<aged, stale, idle>>
    BY <1>7 DEF Opened
  <2> QED
    BY <1>0, <2>1, <2>2, AgeKept DEF InIdle
<1>8. ASSUME NEW t \in Tasks, PutBack(t) PROVE AgeInv'
  BY <1>0, <1>8, AgePush DEF PutBack
<1>9. ASSUME NEW t \in Tasks, FinishWarmUp(t) PROVE AgeInv'
  <2>1. PICK p \in {"out", "releasing"} : pc' = [pc EXCEPT ![t] = p]
    BY <1>9 DEF FinishWarmUp, Leave
  <2> QED
    BY <1>0, <1>9, <2>1, AgePush DEF FinishWarmUp
<1>10. ASSUME NEW t \in Tasks, LeaveQueue(t) PROVE AgeInv'
  <2>1. PICK p \in {"out", "releasing"} : pc' = [pc EXCEPT ![t] = p]
    BY <1>10 DEF LeaveQueue, Leave
  <2>2. UNCHANGED <<aged, stale, idle>>
    BY <1>10 DEF LeaveQueue
  <2> QED
    BY <1>0, <2>1, <2>2, AgeKept DEF InIdle
<1>11. ASSUME NEW t \in Tasks, Cancel(t), ~LeaveQueue(t) PROVE AgeInv'
  BY <1>0, <1>11, AgeKept DEF Cancel, InIdle
<1>12. ASSUME NEW t \in Tasks, ReleasePermit(t) PROVE AgeInv'
  <2>1. \A u \in Tasks : pc'[u] \in {"pop", "checking"} => pc'[u] = pc[u]
    BY <1>12, ReleasePlaces
  <2>2. UNCHANGED <<aged, stale, idle>>
    BY <1>12 DEF ReleasePermit
  <2> QED
    BY <2>1, <2>2 DEF AgeInv, InIdle
<1>13. ASSUME Age PROVE AgeInv'
  <2>1. /\ aged' = InIdle /\ InIdle' = InIdle /\ pc' = pc
        /\ \A t \in Tasks : pc[t] # "pop"
    BY <1>13 DEF Age, InIdle
  <2> QED
    BY <2>1 DEF AgeInv
<1>14. ASSUME UNCHANGED vars PROVE AgeInv'
  BY <1>14 DEF vars, AgeInv, InIdle
<1> QED
  BY <1>1, <1>2, <1>3, <1>4, <1>5, <1>6, <1>7, <1>8, <1>9, <1>10, <1>11, <1>12, <1>13, <1>14
     DEF Next, Step, AcquireTimesOut

\* What is known of idle times holds throughout.
LEMMA AgeInvariant == Spec => []AgeInv
<1>1. PermitInv /\ OwnInv /\ AgeInv /\ [Next]_vars => AgeInv'
  BY AgeStep
<1>2. Init => AgeInv
  BY DEF Init, AgeInv, InIdle
<1> QED
  BY <1>1, <1>2, PermitInvariant, OwnInvariant, PTL DEF Spec

\* Without health checks no step hands out what has expired.
LEMMA FreshStep ==
    ASSUME HealthCheck = "None", PermitInv, AgeInv, [Next]_vars
    PROVE  NothingExpired
<1> SUFFICES ASSUME NEW t \in Tasks, pc[t] = "pop", mine'[t] # <<>>
             PROVE  mine'[t][1] \notin aged
  BY DEF NothingExpired
<1>1. mine[t] = <<>> /\ mine \in [Tasks -> Seq(Sessions)]
  BY DEF PermitInv, PlaceOK, TypeOK
<1>2. ASSUME NEW u \in Tasks, Pop(u) PROVE mine'[t][1] \notin aged
  <2>1. mine' = mine \/ mine' = [mine EXCEPT ![u] = <<idle[Len(idle)]>>]
    BY <1>2 DEF Pop
  <2>2. u = t /\ mine' = [mine EXCEPT ![t] = <<idle[Len(idle)]>>] /\ mine' # mine
    BY <1>1, <2>1
  <2>3. idle[Len(idle)] \notin ExpiredNow(t)
    BY <1>2, <2>2 DEF Pop
  <2>4. idle[Len(idle)] \notin aged
    BY <2>3 DEF AgeInv, ExpiredNow
  <2>5. mine'[t] = <<idle[Len(idle)]>>
    BY <1>1, <2>2
  <2> QED
    BY <2>4, <2>5
<1>3. ASSUME NEW u \in Tasks, Opened(u) PROVE FALSE
  BY <1>1, <1>3 DEF Opened
<1>4. ASSUME NEW u \in Tasks, mine' = [mine EXCEPT ![u] = <<>>] \/ mine' = mine
      PROVE  FALSE
  BY <1>1, <1>4
<1>5. ASSUME NEW u \in Tasks, NEW n \in WarmTargets,
             \/ StartSession(u) \/ StartWarmUp(u, n) \/ TakeNow(u) \/ PopNone(u)
             \/ CheckPasses(u) \/ OpenFails(u) \/ ReleasePermit(u) \/ Count(u)
             \/ PushWarm(u) \/ LeaveQueue(u) \/ Cancel(u) \/ PutBack(u) \/ FinishWarmUp(u)
             \/ CheckFails(u) \/ CloseSessions(u)
      PROVE  FALSE
  BY <1>4, <1>5
     DEF StartSession, StartWarmUp, TakeNow, PopNone, CheckPasses, OpenFails, ReleasePermit,
         Count, PushWarm, LeaveQueue, Cancel, PutBack, FinishWarmUp, Push, CheckFails,
         CloseSessions
<1>6. ASSUME NEW u \in Tasks,
             \/ StartSession(u) \/ TakeNow(u) \/ PopNone(u)
             \/ CheckPasses(u) \/ OpenFails(u) \/ ReleasePermit(u) \/ Count(u)
             \/ PushWarm(u) \/ LeaveQueue(u) \/ Cancel(u) \/ PutBack(u) \/ FinishWarmUp(u)
             \/ CheckFails(u) \/ CloseSessions(u)
      PROVE  FALSE
  BY <1>4, <1>6
     DEF StartSession, TakeNow, PopNone, CheckPasses, OpenFails, ReleasePermit,
         Count, PushWarm, LeaveQueue, Cancel, PutBack, FinishWarmUp, Push, CheckFails,
         CloseSessions
<1>7. ASSUME Age \/ UNCHANGED vars PROVE FALSE
  BY <1>1, <1>7 DEF Age, vars
<1> QED
  BY <1>2, <1>3, <1>5, <1>6, <1>7 DEF Next, Step, AcquireTimesOut


-----------------------------------------------------------------------------
(* Pools by key.  Every step of one is a step of the pool behind it, so what *)
(* has been proved of a pool holds there too.                               *)

LEMMA KeyedStepIsPoolStep == [KeyedNext]_keyedVars => [Next]_vars
BY DEF KeyedNext, KeyedStep, Ask, OwnerMoves, HandOut, Reparent, ReparentFails, Goto, Pool,
       Next, keyedVars

\* A pool by key implements a pool.
THEOREM KeyedIsPool == KeyedSpec => Spec
<1>1. KeyedInit => Init
  BY DEF KeyedInit
<1> QED
  BY <1>1, KeyedStepIsPoolStep, PTL DEF KeyedSpec, Spec

\* The places of a task that has its session in hand or is done with it.
Past == {"holding", "releasing", "closing"}

\* The inductive invariant of the pools by key: who is inside has asked for one
\* of the URLs, whatever lives is at one, and only a task that has its session
\* has compared it.
AskInv ==
    /\ ask \in [{t \in Tasks : pc[t] # "out"} ->
                  [url : Urls, stage : {"compare", "given", "failed"}]]
    /\ at \in [Live -> Urls]
    /\ \A t \in Tasks : pc[t] # "out" /\ ask[t].stage # "compare" => pc[t] \in Past
    /\ AtUrlAskedFor

\* A task that holds a session holds one that lives and that nobody else holds.
LEMMA HeldAlone ==
    ASSUME PermitInv, OwnInv, NEW t \in Tasks, pc[t] = "holding"
    PROVE  /\ mine[t][1] \in Live
           /\ \A u \in Tasks \ {t} : pc[u] = "holding" => mine[u][1] # mine[t][1]
<1>1. ASSUME NEW u \in Tasks, pc[u] = "holding"
      PROVE  mine[u][1] \in Elements(mine[u]) /\ mine[u][1] \in Holds(u)
  <2>1. mine[u] \in Seq(Sessions) /\ Len(mine[u]) = 1
    BY <1>1 DEF PermitInv, PlaceOK, TypeOK
  <2>2. 1 \in DOMAIN mine[u]
    BY <2>1
  <2> QED
    BY <2>2 DEF Elements, Holds
<1>2. mine[t][1] \in Live
  BY <1>1 DEF Live
<1>3. \A u \in Tasks \ {t} : pc[u] = "holding" => mine[u][1] # mine[t][1]
  BY <1>1 DEF OwnInv
<1> QED
  BY <1>2, <1>3

\* The same after the step.
LEMMA HeldNext ==
    ASSUME PermitInv', NEW t \in Tasks, pc'[t] = "holding"
    PROVE  mine'[t][1] \in Live'
<1>1. mine'[t] \in Seq(Sessions) /\ Len(mine'[t]) = 1
  BY DEF PermitInv, PlaceOK, TypeOK
<1>2. 1 \in DOMAIN mine'[t]
  BY <1>1
<1> QED
  BY <1>2 DEF Live, Holds

\* A step of a task inside the pool brings nobody in, and lets nobody who has a
\* session in hand keep it but as it is.
LEMMA PoolMoves ==
    ASSUME PermitInv, NEW t \in Tasks, Step(t) \/ Cancel(t) \/ Age, NEW u \in Tasks
    PROVE  /\ pc[u] = "out" => pc'[u] = "out"
           /\ pc[u] \in Past => pc'[u] \in Past \cup {"out"}
           /\ pc[u] \in Past /\ pc'[u] = "holding" => pc[u] = "holding" /\ mine'[u] = mine[u]
<1> USE DEF Past
<1>0. pc \in [Tasks -> Places] /\ mine \in [Tasks -> Seq(Sessions)]
  BY DEF PermitInv, TypeOK
<1>1. ASSUME NEW p, pc' = [pc EXCEPT ![t] = p], pc[t] \notin Past \cup {"out"},
             NEW m, mine' = [mine EXCEPT ![t] = m] \/ mine' = mine
      PROVE  /\ pc[u] = "out" => pc'[u] = "out"
             /\ pc[u] \in Past => pc'[u] \in Past \cup {"out"}
             /\ pc[u] \in Past /\ pc'[u] = "holding" => pc[u] = "holding" /\ mine'[u] = mine[u]
  BY <1>0, <1>1
<1>2. CASE TakeNow(t) \/ PopNone(t) \/ CheckPasses(t) \/ OpenFails(t) \/ PushWarm(t)
  BY <1>1, <1>2 DEF TakeNow, PopNone, CheckPasses, OpenFails, PushWarm
<1>3. CASE CheckFails(t) \/ Opened(t)
  BY <1>1, <1>3 DEF CheckFails, Opened
<1>4. CASE Pop(t)
  <2>1. pc[t] = "pop" /\ pc = [pc EXCEPT ![t] = "pop"]
    BY <1>0, <1>4 DEF Pop
  <2>2. PICK p : pc' = [pc EXCEPT ![t] = p]
    BY <1>4, <2>1 DEF Pop
  <2>3. mine' = mine \/ mine' = [mine EXCEPT ![t] = <<idle[Len(idle)]>>]
    BY <1>4 DEF Pop
  <2> QED
    BY <1>1, <2>1, <2>2, <2>3
<1>5. CASE Count(t) \/ FinishWarmUp(t) \/ LeaveQueue(t)
  <2>1. pc[t] \notin Past \cup {"out"} /\ (mine' = mine \/ mine' = [mine EXCEPT ![t] = <<>>])
    BY <1>5 DEF Count, FinishWarmUp, LeaveQueue, Push
  <2>2. PICK p : pc' = [pc EXCEPT ![t] = p]
    BY <1>5 DEF Count, FinishWarmUp, LeaveQueue, Leave
  <2> QED
    BY <1>1, <2>1, <2>2
<1>6. CASE PutBack(t) \/ CloseSessions(t)
  <2>1. /\ pc[t] \in Past
        /\ pc' = [pc EXCEPT ![t] = "releasing"] \/ pc' = [pc EXCEPT ![t] = "out"]
        /\ mine' = [mine EXCEPT ![t] = <<>>]
    BY <1>6 DEF PutBack, CloseSessions, Push
  <2> QED
    BY <1>0, <2>1
<1>7. CASE ReleasePermit(t)
  <2>1. mine' = mine
    BY <1>7 DEF ReleasePermit
  <2> QED
    BY <1>7, <2>1, ReleasePlaces
<1>8. CASE Cancel(t) /\ ~LeaveQueue(t)
  <2>1. /\ pc[t] \in {"now", "checking", "opening"} /\ pc' = [pc EXCEPT ![t] = "releasing"]
        /\ mine' = mine \/ mine' = [mine EXCEPT ![t] = <<>>]
    BY <1>8 DEF Cancel
  <2> QED
    BY <1>1, <2>1
<1>9. CASE Age
  BY <1>9 DEF Age
<1> QED
  BY <1>2, <1>3, <1>4, <1>5, <1>6, <1>7, <1>8, <1>9 DEF Step, AcquireTimesOut

\* A step of the pool behind keeps what the tasks have asked for and where the
\* sessions are.
LEMMA PoolAsk ==
    ASSUME PermitInv, OwnInv, AskInv, PermitInv', OwnInv',
           NEW t \in Tasks, Pool(Step(t)) \/ Pool(Cancel(t)) \/ Pool(Age)
    PROVE  AskInv'
<1>1. /\ Step(t) \/ Cancel(t) \/ Age
      /\ ask' = [u \in {w \in DOMAIN ask : pc'[w] # "out"} |-> ask[u]]
      /\ at' = [s \in Live' |-> IF s \in DOMAIN at THEN at[s] ELSE Home]
  BY DEF Pool
<1>2. ASSUME NEW u \in Tasks
      PROVE  /\ pc[u] = "out" => pc'[u] = "out"
             /\ pc[u] \in Past => pc'[u] \in Past \cup {"out"}
             /\ pc[u] \in Past /\ pc'[u] = "holding" => pc[u] = "holding" /\ mine'[u] = mine[u]
  BY <1>1, PoolMoves
<1>3. DOMAIN ask = {u \in Tasks : pc[u] # "out"} /\ DOMAIN at = Live
  BY DEF AskInv
<1>4. {w \in DOMAIN ask : pc'[w] # "out"} = {u \in Tasks : pc'[u] # "out"}
  BY <1>2, <1>3
<1>5. \A u \in Tasks : pc'[u] # "out" => pc[u] # "out" /\ ask'[u] = ask[u]
  BY <1>1, <1>2, <1>4
<1>6. ask' \in [{u \in Tasks : pc'[u] # "out"} ->
                  [url : Urls, stage : {"compare", "given", "failed"}]]
  BY <1>1, <1>4, <1>5 DEF AskInv
<1>7. at' \in [Live' -> Urls]
  BY <1>1, <1>3, HomeAssumption DEF AskInv
<1>8. ASSUME NEW u \in Tasks, pc'[u] # "out", ask'[u].stage # "compare"
      PROVE  pc'[u] \in Past
  BY <1>2, <1>5, <1>8 DEF AskInv
<1>9. ASSUME NEW u \in Tasks, pc'[u] = "holding", ask'[u].stage = "given"
      PROVE  at'[mine'[u][1]] = ask'[u].url
  <2>1. ask'[u] = ask[u] /\ pc[u] # "out"
    BY <1>5, <1>9
  <2>2. pc[u] \in Past
    BY <1>9, <2>1 DEF AskInv
  <2>3. pc[u] = "holding" /\ mine'[u] = mine[u]
    BY <1>2, <1>9, <2>2
  <2>4. mine[u][1] \in Live
    BY <2>3, HeldAlone
  <2>5. mine'[u][1] \in Live'
    BY <1>9, HeldNext
  <2>6. at'[mine'[u][1]] = at[mine[u][1]]
    BY <1>1, <1>3, <2>3, <2>4, <2>5
  <2> QED
    BY <1>9, <2>1, <2>3, <2>6 DEF AskInv, AtUrlAskedFor
<1> QED
  BY <1>6, <1>7, <1>8, <1>9 DEF AskInv, AtUrlAskedFor

\* Every step keeps it.
LEMMA AskStep ==
    ASSUME PermitInv, OwnInv, AskInv, PermitInv', OwnInv', [KeyedNext]_keyedVars
    PROVE  AskInv'
<1> DEFINE Stages == {"compare", "given", "failed"}
<1>0. /\ pc \in [Tasks -> Places]
      /\ ask \in [{t \in Tasks : pc[t] # "out"} -> [url : Urls, stage : Stages]]
      /\ at \in [Live -> Urls]
  BY DEF PermitInv, TypeOK, AskInv
<1>1. ASSUME NEW t \in Tasks, NEW u \in Urls, Ask(t, u) PROVE AskInv'
  <2>1. PICK p \in {"now", "waiting"} : pc' = [pc EXCEPT ![t] = p]
    BY <1>1 DEF Ask, StartSession, AfterAcquire
  <2>2. /\ pc[t] = "out" /\ UNCHANGED <<mine, idle, at>>
        /\ ask' = [w \in DOMAIN ask \cup {t} |->
                     IF w = t THEN [url |-> u, stage |-> "compare"] ELSE ask[w]]
    BY <1>1 DEF Ask, StartSession
  <2>3. /\ pc'[t] = p /\ \A w \in Tasks \ {t} : pc'[w] = pc[w]
        /\ {w \in Tasks : pc'[w] # "out"} = {w \in Tasks : pc[w] # "out"} \cup {t}
    BY <1>0, <2>1
  <2>4. DOMAIN ask = {w \in Tasks : pc[w] # "out"} /\ t \notin DOMAIN ask
    BY <1>0, <2>2
  <2>5. /\ DOMAIN ask' = DOMAIN ask \cup {t}
        /\ ask'[t] = [url |-> u, stage |-> "compare"]
        /\ \A w \in DOMAIN ask : ask'[w] = ask[w]
        /\ ask' = [w \in DOMAIN ask' |-> ask'[w]]
    BY <2>2, <2>4
  <2>6. ask' \in [{w \in Tasks : pc'[w] # "out"} -> [url : Urls, stage : Stages]]
    BY <1>0, <2>3, <2>4, <2>5
  <2>7. Live' = Live
    BY <2>2 DEF Live, InIdle, Holds
  <2>8. \A w \in Tasks : pc'[w] # "out" /\ ask'[w].stage # "compare"
                           => pc[w] # "out" /\ ask'[w] = ask[w] /\ pc'[w] = pc[w]
    BY <2>3, <2>4, <2>5
  <2>9. \A w \in Tasks : pc'[w] # "out" /\ ask'[w].stage # "compare" => pc'[w] \in Past
    BY <2>8 DEF AskInv
  <2>10. AtUrlAskedFor'
    BY <2>2, <2>8 DEF AskInv, AtUrlAskedFor
  <2> QED
    BY <1>0, <2>2, <2>6, <2>7, <2>9, <2>10 DEF AskInv
<1>2. ASSUME NEW t \in Tasks, NEW r \in [url : Urls, stage : Stages], pc[t] = "holding",
             ask' = [ask EXCEPT ![t] = r], UNCHANGED vars,
             \/ at' = at /\ (r.stage = "given" => at[mine[t][1]] = r.url)
             \/ at' = [at EXCEPT ![mine[t][1]] = r.url]
      PROVE  AskInv'
  <2>1. /\ pc' = pc /\ mine' = mine /\ Live' = Live
    BY <1>2 DEF vars, Live, InIdle, Holds
  <2>2. /\ ask' \in [{w \in Tasks : pc[w] # "out"} -> [url : Urls, stage : Stages]]
        /\ ask'[t] = r /\ \A w \in Tasks \ {t} : pc[w] # "out" => ask'[w] = ask[w]
    BY <1>0, <1>2
  <2>3. /\ mine[t][1] \in Live
        /\ \A w \in Tasks \ {t} : pc[w] = "holding" => mine[w][1] # mine[t][1]
    BY <1>2, HeldAlone
  <2>4. at' \in [Live -> Urls]
    BY <1>0, <1>2, <2>3
  <2>5. \A w \in Tasks : pc[w] # "out" /\ ask'[w].stage # "compare" => pc[w] \in Past
    BY <1>2, <2>2 DEF AskInv, Past
  <2>6. ASSUME NEW w \in Tasks, pc[w] = "holding", ask'[w].stage = "given"
        PROVE  at'[mine[w][1]] = ask'[w].url
    <3>1. CASE w = t
      BY <1>0, <1>2, <2>2, <2>3, <2>6, <3>1
    <3>2. CASE w # t
      <4>1. ask'[w] = ask[w] /\ mine[w][1] # mine[t][1]
        BY <2>2, <2>3, <2>6, <3>2
      <4>2. at[mine[w][1]] = ask[w].url
        BY <2>6, <4>1 DEF AskInv, AtUrlAskedFor
      <4>3. mine[w][1] \in Live
        BY <2>6, HeldAlone
      <4>4. at'[mine[w][1]] = at[mine[w][1]]
        BY <1>0, <1>2, <4>1, <4>3
      <4> QED
        BY <4>1, <4>2, <4>4
    <3> QED
      BY <3>1, <3>2
  <2> QED
    BY <2>1, <2>2, <2>4, <2>5, <2>6 DEF AskInv, AtUrlAskedFor
<1>3. ASSUME NEW t \in Tasks, pc[t] = "holding"
      PROVE  /\ ask[t] \in [url : Urls, stage : Stages]
             /\ \A s \in Stages : /\ [ask EXCEPT ![t].stage = s]
                                       = [ask EXCEPT ![t] = [ask[t] EXCEPT !.stage = s]]
                                  /\ [ask[t] EXCEPT !.stage = s] \in [url : Urls, stage : Stages]
                                  /\ [ask[t] EXCEPT !.stage = s].url = ask[t].url
                                  /\ [ask[t] EXCEPT !.stage = s].stage = s
  BY <1>0, <1>3
<1>4. ASSUME NEW t \in Tasks, HandOut(t) \/ Reparent(t) \/ ReparentFails(t) PROVE AskInv'
  <2>1. /\ pc[t] = "holding" /\ UNCHANGED vars
    BY <1>4 DEF HandOut, Reparent, ReparentFails, Comparing, Goto
  <2>2. PICK s \in Stages :
          /\ ask' = [ask EXCEPT ![t].stage = s]
          /\ \/ at' = at /\ (s = "given" => at[mine[t][1]] = ask[t].url)
             \/ at' = [at EXCEPT ![mine[t][1]] = ask[t].url]
    BY <1>4 DEF HandOut, Reparent, ReparentFails, Goto, Differs
  <2> DEFINE r == [ask[t] EXCEPT !.stage = s]
  <2>3. /\ ask' = [ask EXCEPT ![t] = r] /\ r \in [url : Urls, stage : Stages]
        /\ r.url = ask[t].url /\ r.stage = s
    BY <1>3, <2>1, <2>2
  <2> HIDE DEF r
  <2> QED
    BY <1>2, <2>1, <2>2, <2>3
<1>5. ASSUME NEW t \in Tasks, NEW u \in Urls, OwnerMoves(t, u) PROVE AskInv'
  <2>1. /\ pc[t] = "holding" /\ UNCHANGED vars /\ ask' = [ask EXCEPT ![t].url = u]
        /\ at' = [at EXCEPT ![mine[t][1]] = u]
    BY <1>5 DEF OwnerMoves
  <2> DEFINE r == [ask[t] EXCEPT !.url = u]
  <2>2. /\ ask' = [ask EXCEPT ![t] = r] /\ r \in [url : Urls, stage : Stages]
        /\ r.url = u
    BY <1>0, <2>1
  <2> HIDE DEF r
  <2> QED
    BY <1>2, <2>1, <2>2
<1>6. ASSUME NEW t \in Tasks, Pool(Step(t)) \/ Pool(Cancel(t)) PROVE AskInv'
  BY <1>6, PoolAsk
<1>7. ASSUME Pool(Age) PROVE AskInv'
  <2>1. CASE Tasks = {}
    <3>1. ask' \in [{} -> [url : Urls, stage : Stages]]
      BY <1>0, <1>7, <2>1 DEF Pool
    <3>2. at' \in [Live' -> Urls]
      BY <1>0, <1>7, HomeAssumption DEF Pool
    <3> QED
      BY <2>1, <3>1, <3>2 DEF AskInv, AtUrlAskedFor
  <2>2. CASE Tasks # {}
    BY <1>7, <2>2, PoolAsk
  <2> QED
    BY <2>1, <2>2
<1>8. ASSUME UNCHANGED keyedVars PROVE AskInv'
  BY <1>8 DEF keyedVars, vars, AskInv, AtUrlAskedFor, Live, InIdle, Holds
<1> QED
  BY <1>1, <1>4, <1>5, <1>6, <1>7, <1>8 DEF KeyedNext, KeyedStep

\* What the tasks have asked for and where the sessions are, throughout.
LEMMA AskInvariant == KeyedSpec => []AskInv
<1>1. KeyedInit => AskInv
  <2> SUFFICES ASSUME KeyedInit PROVE AskInv
    OBVIOUS
  <2>1. Live = {} /\ {t \in Tasks : pc[t] # "out"} = {}
    BY DEF KeyedInit, Init, Live, InIdle, Holds
  <2> QED
    BY <2>1 DEF KeyedInit, Init, AskInv, AtUrlAskedFor
<1>2. PermitInv /\ OwnInv /\ AskInv /\ PermitInv' /\ OwnInv' /\ [KeyedNext]_keyedVars => AskInv'
  BY AskStep
<1> QED
  BY <1>1, <1>2, KeyedIsPool, PermitInvariant, OwnInvariant, PTL DEF KeyedSpec

\* A session that is handed out is at the URL that was asked for, whatever others
\* have done with it, and without health checks it has not expired: nobody
\* pops an entry that was over its time when the pop began.
THEOREM KeyedFitForUse == HealthCheck = "None" => (KeyedSpec => FitForUse)
<1> SUFFICES ASSUME HealthCheck = "None" PROVE KeyedSpec => FitForUse
  OBVIOUS
<1>1. PermitInv /\ AgeInv /\ AskInv' /\ [KeyedNext]_keyedVars => NothingExpired /\ AtUrlAskedFor'
  BY FreshStep, KeyedStepIsPoolStep DEF AskInv
<1>2. PermitInv /\ AgeInv /\ AskInv' /\ [KeyedNext]_keyedVars
        => [NothingExpired /\ AtUrlAskedFor']_keyedVars
  BY <1>1
<1> QED
  BY <1>2, AskInvariant, AgeInvariant, PermitInvariant, KeyedIsPool, PTL DEF KeyedSpec, FitForUse

\* Where a session is does not depend on times or checks.
THEOREM KeyedAtUrl == KeyedSpec => []AtUrlAskedFor
<1>1. AskInv => AtUrlAskedFor
  BY DEF AskInv
<1> QED
  BY <1>1, AskInvariant, PTL

\* Nor does a pool by key own more than max_sessions connections when nobody warms
\* the pools up.
THEOREM KeyedConnectionsBounded == WarmTargets = {} => (KeyedSpec => []ConnectionBound)
BY KeyedIsPool, ConnectionsBounded, PTL

==============================================================================
