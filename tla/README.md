# Verification of the `svn` crate

TLA+ models, TLC runs and TLAPS proofs for `svn`, an asynchronous client for the
`ra_svn` protocol in Rust. Paths below are relative to the crate's `src/` directory
(`client/session.rs` is `src/client/session.rs` of the repository). `PROJECT.json` lists
components, runs, mutants, findings, hazards and theorems, and maps every definition that
models code to the lines it models.

1. [The system](#1-the-system)
2. [Modules and code](#2-modules-and-code)
3. [Runs](#3-runs)
4. [Fairness](#4-fairness)
5. [Proofs](#5-proofs)
6. [Disagreements](#6-disagreements)
7. [What is not modelled](#7-what-is-not-modelled)
8. [Plan](#8-plan)

## 1. The system

The crate talks to `svnserve` over TCP, over an SSH tunnel, or over a stream its caller
provides. The protocol has no request identifiers: an answer belongs to a command because
it comes next. Most of what can go wrong is therefore about *where in the conversation* a
connection is after something unusual has happened.

| component | code | state | operations |
|---|---|---|---|
| connection | `rasvn/conn/io.rs`, `mod.rs` | read buffer and position, stream halves, timeouts | `send_command`, `call`, `read_item`, `read_command_response`, `skip_leading_garbage`, `data_available`, `write_cmd_failure_early` |
| handshake, authentication | `rasvn/conn/handshake.rs`, `auth.rs`, `rasvn/sasl.rs` | capabilities, server information, the security layer | `handshake`, `handle_auth_request` (EXTERNAL, CRAM-MD5, PLAIN, ANONYMOUS, Cyrus SASL) |
| session | `client/session.rs`, `client/connect.rs` | `conn: Option<..>`, `client.base_url`, `allow_reconnect` | `reconnect`, `ensure_connected`, `with_retry`, `reparent` |
| read operations | `client/meta.rs`, `list.rs`, `history.rs`, `client/data/` | none beyond the session | about twenty queries and streams |
| locks, revision properties | `client/locks.rs`, `client/data/revprops.rs` | none beyond the session | `lock`, `unlock`, `change_rev_prop(2)` |
| lists of locks | `client/locks.rs` | the vector of one call | `lock_many`, `unlock_many` |
| report and editor drives | `client/report/`, `rasvn/edit/` | locals of one method | `update`, `switch`, `diff`, `status`, `replay`, `replay_range` |
| commit drive | `client/commit_ops.rs` | batch, `since_poll`, `closed` | `commit`, `commit_drive` |
| commit builders | `commit/` | list of changes, plans per path, stack of open directories | `put_file`, `mkdir_p`, `delete`, `copy_*`, `move_path`, properties, `build_editor_commands`, `commit` |
| session pool | `pool/session.rs` | idle list (mutex), semaphore | `session`, `PooledSession::drop`, `warm_up_to` |
| pools by key | `pool/grouped.rs` | map of pools (mutex) | `pool`, `session`, each with or without a key |
| export | `export/` | token maps, pending files, counter for temporary names; the disk | `EditorEventHandler::on_event` of two editors |
| svndiff, text deltas | `svndiff.rs`, `textdelta/` | unread bytes, parsed header, last source view | both encoders, `SvndiffStream::push`, four appliers, `TextDeltaRecorder` |
| SSH | `ssh/` | none after the tunnel is open | open a tunnel |
| parsing, values | `rasvn/parse.rs`, `types.rs`, `url.rs`, `path.rs`, ... | none | conversions |

**How they interact.** A session owns at most one connection and is used through
`&mut self`, so its calls are serial; concurrency enters through the server at the other
end, through futures that are dropped at an `await`, and through the pool, which several
tasks share. A drive calls back into the caller's handler (`FsEditor` is one) between two
reads. A builder calls `check_path` on the session, then hands its commands to
`commit` or streams them through `commit_drive`.

**What is hard.** A lost connection between a command and its answer (was it executed?);
a timeout that is followed by a late answer; an error half-way through an answer; retry
rules that differ from method to method; a client that must write to a server which is
itself blocked writing; a server that refuses an edit while it is being uploaded; permits
and idle sessions that two locks protect separately; drives over a directory whose
contents are not what the server believes; a walk over paths whose order is that of bytes;
a command whose answers come one per target, with a fallback that acts on the targets
again; a security layer that goes on in the middle of what one read has brought; items,
windows and headers that any read may cut anywhere.

What makes each component correct:

* *Session.* Ok is returned for the answer to the call that was made. A command with an
  effect is executed at most once. Retries are bounded and none is given away.
  Between calls a kept connection is quiet and at the URL the session believes in.
* *Streams.* A caller's callback sees every entry at most once, in order, and all of them
  when the method returns Ok, across restarts of `log_each_retrying`.
* *Drives.* Events arrive in order; Ok means that all were accepted; a connection that is
  kept is at the start of a command; client and server never wait for each other.
* *Commit.* The server commits a whole edit or nothing, at most once; Ok means that it
  has; a refusal is noticed within one batch and is what the caller gets to see.
* *Builders.* A drive made from consistent changes is one the server accepts, and its
  result is what was asked for, in whatever order the changes were named.
* *Pool.* Never more sessions checked out, and (without warm-ups) never more connections,
  than `max_sessions`; no session in two hands; no permit lost or invented; no waiter
  forgotten.
* *Pools by key.* A session that is handed out is at the URL that was asked for.
* *Lists of locks.* No target is acted on twice; Ok has one entry per target, in order, and
  an entry that is Ok was done.
* *Handshake.* Of the built-in mechanisms, the password in the clear is tried after
  CRAM-MD5, and nobody becomes anonymous before every one by which the client can say who
  the user is was refused; nothing is read under the wrong layer; when it is over, both
  sides know it.
* *Wire and deltas.* An item is read as it was written, however it was cut; a delta gives
  its text or is refused, and where it was cut makes no difference.
* *Export.* A file has its old text or a text that was checked; what the server sent is on
  the disk at the end; nothing is written through a symbolic link; no temporary file is
  left by a drive that was closed or aborted.

## 2. Modules and code

```
RaOps <- RaSession <- MCRaSession      --implements-->  AtMostOnceCall
         RaSession <- RaSessionProofs
       CommitDrive <- MCCommitDrive    --implements-->  AtMostOnceCall
       CommitDrive <- CommitDriveProofs
          LockMany <- MCLockMany,  LockManyProofs
         Handshake <- MCHandshake, HandshakeProofs
         EditDrive <- MCEditDrive, EditDriveProofs
        CommitPlan <- MCCommitPlan, CommitPlanProofs
          FsEditor <- MCFsEditor, FsEditorProofs
SessionPool <- KeyedPool <- MCKeyedPool, SessionPoolProofs
SessionPool <- MCSessionPool
WireReader, Svndiff <- TextDelta <- MCTextDelta
```

An arrow means EXTENDS, but for `implements`, a refinement that is checked as a property and
proved. The modules named `..Proofs` hold the theorems.

**`RaOps`** describes every operation as a record: the read positions it passes after it
has written its command, whether it runs inside `with_retry`, whether it drops the
connection on an error, whether it hands entries to a callback and suppresses those
already seen. One definition per method of the source.

**`RaSession`** is one session, its connection, both directions of the wire and the
server. `StartCall` is the caller's; `AlreadyConnected`, `Reconnect`, `ReconnectFails`
are `ensure_connected`; `Send`, `ReadItem` (`Reject`, `Complete`, `Take`), `ReadEof` and
`ReadTimeout` are the body of the operation; `Fail` is the `match` of `with_retry`
(`StartOver`, or `GiveUp`) or the drop arm of methods that do not retry (`GiveUp`); `Cancel` drops the future. Items carry the number
of the call they answer: the client never looks at it, the properties do. A lost
connection delivers any prefix of what was under way to the client, and what was under
way to the server may be executed later (`LateRun`).

**`AtMostOnceCall`** is the abstract promise: calls are serial, the command of a writing
call runs at most once, it has run when the call returns Ok, and may run at any later time
when the call returned an error. `RaSession` and `CommitDrive` are shown to implement it.

**`LockMany`** runs `lock_many` and `unlock_many` from the list of targets to the vector of
results: the batch, its answers (`ReadSuccess`, `ReadFailure`), the response after `done`, and on a server that
does not know the command the single commands, each of which connects by itself. Items carry the
call and the target they answer; the client looks at neither. The server acts target by
target, may be cut off between two, and may act later on what was lost (`LateAct`).

**`Handshake`** is one connection from the greeting to two commands with auth-requests of
their own. A message carries the layer it was written under and each read of the socket takes
any number of messages, decoding them if the layer is on; `InStep` notices a message
decoded twice or not at all. The four built-in mechanisms are tried in the order of the
code, a refusal leads to the next one. With Cyrus SASL the library's own choice is left open
and the code around it is not: the library may be missing, may have no mechanism, may fail
to start, and may give up at a challenge, which leaves the server waiting for a reply.

**`WireReader`** has the encoder of items as an operator and the incremental reader as
actions: a read brings at most `Chunk` bytes, `read_item` parses what it can from the buffer
and waits for more. `skip_leading_garbage` and `data_available` share the buffer. Characters
are the classes that the reader tells apart, numbers have base two.

**`Svndiff`** has the two encoders of full texts and the parts of the decoder as operators.
**`TextDelta`** composes both: the strings that `read_item` returns are pushed into a
`SvndiffStream`, which hands a window to an applier over memory or over a file as soon as it
is complete. The asynchronous appliers do the same steps as the others. Bytes have four bits,
so that integers of two bytes and window lengths at their limit are small.

**`EditDrive`** has one action per read or write of `drive_editor`, `send_report`,
`write_cmd_failure_early`, `drain_until_abort_or_success` and of what `update`, `replay`
and `replay_range` do around them. Pipes are bounded in both directions; a failure takes
several writes, so that the server can be blocked on a full pipe at the same time.

**`CommitDrive`** covers `commit` and the streaming `commit_drive`: batches, the poll for
an early status before each batch, `abort-edit`, the final response.

**`CommitPlan`** covers both builders, from the list of changes over the plan per path to
the walk, and a server that applies the drive command by command to a transaction and
rejects the first command that makes no sense. A path is a sequence of names; names are
numbers in byte order. `LowStems` says which name continues another one with a byte below
`/` (`a.txt` after `a`). The tasks are sorted by choice, `Sorted`: the one list of them in the
order of the code. That there is one is proved.

**`FsEditor`** covers both file-system editors: token maps, pending text deltas,
temporary files, the steps of `close-file`, and the end of a drive. The disk may hold
something else than the server believes; a drive may break off between any two steps.

**`SessionPool`** interleaves tasks at every await, every section under the mutex and
every permit that is released. The tokio semaphore (external) is a counter with a FIFO
queue whose release hands the permit to the first waiter.

**`KeyedPool`** puts `SessionPools` in front of it: `Ask` is a client at one of several URLs
with the same key, every step of `SessionPool` is a step of the pool behind it, and a
session that is checked out is compared and, when it differs, moved by `reparent`
(`Reparent`, `ReparentFails`) before it is handed out. Owners may move a session and return
it where they left it (`OwnerMoves`).

Definitions whose comment begins with "Mutant" are faulty variants of the definition that
follows. No specification uses them; each is there to show that the property named in
`PROJECT.json` notices when the code is changed in that way.

Abstractions common to all: an error is its class (`eof` retryable, `timeout`, `protocol`,
`server`, `other`), since the code distinguishes no more; contents and parameters are
absent or members of a small set; a malformed item is an item of an unexpected shape.

## 3. Runs

All passing runs are exhaustive for their bounds. The times are for two workers.

| run | states | what it asks |
|---|---|---|
| `session_calls` | 296,320 (20 s) | Two calls, all faults together (lost connections, timeouts of reads and writes, refused connects, failing callbacks, limits, dropped futures): `AtMostOnce`, `BoundedSends`, `EntriesOnce`, `NoEarlyEof`, `KeptIsUsable`, the refinement of `AtMostOnceCall`, and that every method that is not dropped returns (`CallReturns`). |
| `session_timeout` | violation | `OwnAnswer` with timeouts, see section 6. |
| `pool_checkout` | 416,343 (102 s) | `KeyedPool`: three tasks, two permits, clients at two URLs, idle timeout, no warm-up, no health check: `ConnectionBound`, `FitForUse`, `CallEnds`. |
| `pool_warm` | 982,493 (54 s) | Three tasks, two permits, warm-ups, acquire and idle timeouts, health checks and dropped futures: `CheckedOutByPermit`, `NothingSharedOrLost`. Tasks and sessions are symmetric. |
| `edit_drive` | 7,621 (1 s) | All faults: `InSync`, `Delivery`, `ReportsDrainOnce`, `DriveReturns`. |
| `commit_drive` | 127,675 (13 s) | All faults: `InStep`, `PromptAbort`, `TrueOutcome`, refinement of `AtMostOnceCall`, `CommitReturns`. |
| `plan_build` | 239,080 (9 s) | Every sequence of up to three of sixteen changes on four trees, both builders: `DriveIsAccepted`, `BuildsTheTree`. |
| `plan_neighbours` | violation | `DriveIsAccepted` with neighbouring names, see section 6. |
| `export` | 2,405,385 (42 s) | Two drives on five disks: `CleanDriveIsAccepted`, `AsSent`, `TempsAccounted`, `DiskIsSound`. |
| `lock_batches` | 241,288 (20 s) | Two calls, each a lock or an unlock, servers that know the batch, do not, or say so before the auth-request: `OncePerTarget`, `EntriesHold`, `QuietAfterCall`, `CallReturns`. |
| `handshake` | 150,066 (8 s) | Every subset of five mechanisms against all eight clients, two commands: `WeakestLast`, `InStep`, `ExchangeEnds`. |
| `wire_delta` | 972,791 (59 s) | Eight streams of items, five banners, some forty deltas, cut into chunks and reads in every way: `ReadsBack`, `Arrives`, `WholeWindows`, `CutsDoNotMatter`. |

Some properties are conjunctions of named parts that concern one question: `KeptIsUsable`
is `QuietWhenIdle` and `SameUrl`; `FitForUse` is `NothingExpired` and `AtUrlAskedFor`;
`NothingSharedOrLost` is `Exclusive` and `PermitsConserved`; `Delivery` is `InOrder` and
`OkIsComplete`; `TrueOutcome` is `CommitsWholeEdit` and `RefusalIsReported`; `BuildsTheTree` is
`OpenedOnce` and `ResultIsAsAsked`; `DiskIsSound` is `VerifiedContent` and `StaysInside`;
`EntriesHold` is `EntryPerTarget` and `OkIsDone`; `WeakestLast` is `PasswordLast` and
`AnonymousLast`; `InStep` is `InSync` in `CommitDrive`, and `NeverMisread` and
`AtRestTogether` in `Handshake`.

Most modules have their `TypeOK` in one of these runs or in one of these conjunctions; in
`CommitPlan` and `FsEditor` it carries facts worth having (the stack is a path; token maps agree with what
the server has open).

**Why the bounds are enough.**

* *Calls* (2). The code keeps nothing between two calls but the connection, the URL and, in
  the model, orphaned commands. Two calls show what one leaves to the next.
* *Operations.* One of each class that `RaOps` distinguishes: retried query, the one that
  moves the URL, written once, streamed, streamed with suppression, `get_file`. The others
  differ in the shape of their response only.
* *Retries* (2): the counters of failed commands and of failed reconnects can be mixed.
* *Entries* (2): a restart can happen before, between and after them.
* *Pool.* Two permits and three tasks: there are waiters while both permits are held, and a
  warm-up can hold one permit and wait for the other. `pool_warm` has four identities of
  sessions, so up to twice as many connections as permits; a fifth, which warm-ups can open
  between them, is left out. Without warm-ups no more than `max_sessions` are
  ever alive, which is `ConnectionBound`, so `pool_checkout` has two. Two URLs: the one the pool
  was made for and another one; a session can be left at either.
* *Lists of locks.* No target, two, or two of which one does not validate: answers can be
  too few, right and too many, and a failure can come between two of them. Two calls: an
  answer left over by the first would meet the second.
* *Handshake.* Nothing is bounded but the number of commands; the second begins in whatever
  state the first has left.
* *Wire.* Reads of one or two bytes end between any two characters. Numbers go one past the
  maximum, lists to one below and beyond the depth, banners to the limit of garbage. Deltas come from both
  encoders (empty, one and two windows, below and above the least length that is
  compressed) and from a server (source views that move, overlap, slide back or lie outside;
  windows over the limit; sections of the wrong length), are cut into three chunks in every
  way, and end after any byte.
* *Drives.* Two events per drive, two revisions per range, a failure of two writes and
  pipes of one and two items: every pipe can be full in the middle of a failure.
* *Commits.* Batches of two, or of one when the command is large (`MAX_BATCH_BYTES`), edits of up to six commands (three batches), a pipe of one.
* *Plan.* Depth three: a directory can be left and entered at every level. Two names with
  the order of one continuing the other set apart in `plan_neighbours`. Three changes:
  one to shape the tree, one to be disturbed, one in between.
* *Export.* Two entries over two drives: a directory and a file in it, or the same file
  twice with token reuse. The disks hold what the report says, a changed file, a link in
  place of the directory, and a directory in place of a file.

`CHECK_DEADLOCK FALSE` appears where the system stops because the bound on calls, drives
or changes is reached. The pool has no such bound and deadlock is checked there.

## 4. Fairness

* *Session*: weak fairness of the actions that continue a method (`Progress`). tokio polls
  a task that is ready, and every read or write has a timeout, so a wait ends even when
  the server says nothing. The server is not assumed to answer.
* *Drives and commits*: weak fairness of the client and, separately, of the server, because
  the properties say that the two do not wait *for each other*: `DriveReturns` and
  `CommitReturns` must hold without the help of timeouts. `EditDrive` lets a timeout end
  waits that are in vain on both sides (after a handler has refused the last event, for
  one): nothing is under way and the server has nothing to say.
* *Pool*: weak fairness of each task's own steps. A task at an `await` of `open_session` or
  of the health check is woken by that call's timeouts; an owner drops its session at some
  time. `CallEnds` depends on the queue being FIFO, which tokio's semaphore documents.
  The fairness is stated with `KeyedSpec`, whose steps are those of the pool and of `session_inner`;
  that a task in `reparent` goes on is due to the timeouts of that call.
* *Lists of locks, handshake*: weak fairness of the client's steps, timeouts among them. The
  server need not answer, so `CallReturns` and `ExchangeEnds` say that the client has a way
  out of every wait and that its loops (over targets, over mechanisms) end.
* *Wire and deltas*: weak fairness of the reader as long as the socket has bytes, and of the
  applier. A read that has nothing to read waits, and may be given up.

## 5. Proofs

Eight modules hold theorems that TLAPS checks for every value of the constants: any sets of
tasks, URLs, operations, targets and paths, any numbers of calls, retries, entries, events and
permits, any size of batches and pipes, and all the faults that the module knows. They rest
on the named assumptions of the modules, which TLC evaluates in every run, and on the
standard theorems about sequences and finite sets. `PROJECT.json` lists the theorems.

All have the same plan: an inductive invariant whose parts are named, one lemma per action
(and under it one step per part that the action can disturb), a lemma about `Next`, and the
temporal step. The invariants were checked by TLC on the instances of section 3 before they
were proved. Why they are needed, module by module:

**`SessionPoolProofs`** (any finite sets of tasks and sessions, any `max_sessions` of at
least one, any configuration):

* `PermitSafety`: `CheckedOutByPermit`. It is not inductive: a step from `opening` to
  `holding` adds a session, so the proof has to know how many permits a task has in each
  place. `PermitInv` is `TypeOK` with `PlaceOK`, which ties the place of a task to its
  permits, sessions and target, and `QueueOK`: the queue holds waiting tasks, each once, and
  only while no permit is free. The critical step is `Release`, which changes two tasks at
  once (`ReleaseSafe`).
* `SharingSafety`: `NothingSharedOrLost`, with warm-ups, timeouts and dropped futures.
  `OwnInv` says who can have a session: the idle list has no repeats, and what is in it, in
  one hand or in another is disjoint. `ConserveInv` counts the permits in hand as the size
  of the set of tickets, to which a step adds one, or takes one away, or both.
* `ConnectionsBounded`: without warm-ups, `ConnectionBound`. `CountInv` says that a task has
  one permit or none depending on its place and that free and held permits add up to
  `max_sessions`. Each step changes the membership of one task in the sets of permit holders
  and of busy tasks (`OneTaskCounts`), or of two on a hand-over (`HandOverCounts`); a task
  that opens a connection has seen the idle list empty, and all busy tasks hold permits.
* `KeyedIsPool`: `KeyedSpec => Spec`. What is proved of one pool holds behind `SessionPools`,
  `KeyedConnectionsBounded` for one.
* `KeyedFitForUse` and `KeyedAtUrl`: what is handed out is at the URL asked for, and has not
  expired unless there are health checks (section 6 says what happens then). `AgeInv` says
  that a task which is about to pop knows every expired entry of the idle list; `AskInv` that
  only a task with its session in hand has compared the URLs.

**`RaSessionProofs`** (any operations of `RaOps`'s type, timeouts included):

* `OnceCorrect`: `AtMostOnce` speaks of executed commands only and is not inductive: a
  command may be on the wire, or lost and executed later. `OnceInv` is about all three
  (`Live`): each command with an effect comes from a call of its own, none from a call to
  come, and a call that is still to write its command has none. All steps but `StartCall`
  and `Sent` write nothing (`WritesNothing`), and a call goes back to writing only if its
  operation retries, which no operation with an effect does (`NoRetry`, read off the
  definitions of `RaOps`).
* `SendsCorrect` and `RetriesUsedUp` (`BoundedSends`, `NoEarlyEof`): an invariant that counts.
  A call has written its command once per attempt, less one while it is still to write it,
  and has attempts left exactly as long as it has not used its retries.
* `EntriesInOrder`: `EntriesOnce`. This and what follows is about the items under way to the
  client and the place in the script where it reads. `OrderInv` says what may follow what on
  the wire: entries without a gap, the end of a stream after all of them or before a failure.
  `GivenInv` joins this to what the caller has been given: the first so many entries (`CountInv`), none if a
  method without suppression is about to start over (`RestartInv`), all after Ok (`WholeInv`);
  and the next item is the next entry, or one that was given before `log_each_retrying` started
  over (`PlaceInv`).
* `KeptConnection`: `KeptIsUsable`. As long as only connections were lost and commands
  refused (`Undisturbed`), everything under way belongs to the call that runs and nothing is
  under way when none does (`TidyInv`).
* `Refinement`: every step of `RaSession` is a step of `AtMostOnceCall` or leaves its
  variables alone. A call that returns Ok has been executed (`Placed`, in `TidyInv`: the item
  that ends an answer comes from an execution); a command that is executed late is not one
  of a call that was told Ok (`DoneInv`). An Ok is mapped to an error when an earlier call was
  dropped, timed out or failed in its callback (`Disturbed`), since section 6 shows that the
  code promises nothing then.

**`CommitDriveProofs`** (any scripts, batch size, pipe):

* `Invariance`: `IInv` relates three places, each of which knows only a part: how far the
  loop of a commit is and how much it has in its batch (`LoopInv`), the commands in the
  pipe, and what the server has read of the edit (`EditInv`: at the edit, draining after a
  refusal, or back at rest). What the server has answered fits the place of the client
  (`AnswerInv`, `InfoInv`), `LateInv` counts what was written after an answer could be seen,
  and an edit left on a lost connection has not been completed or returned Ok (`OrphanInv`).
* `Agreement` (`InStep`), `AbortsPromptly` (`PromptAbort`) and `Truth` (`TrueOutcome`) follow:
  the server commits a script only after it has read all of it (`WholeEdits`), and a
  refusal that was read is what the caller gets (`RefusalsReported`).
* `Refinement`: a commit is an `AtMostOnceCall`.

**`LockManyProofs`** (any lists of targets, servers of all three kinds):

* `Invariance`: an item has no name, so the invariant gives each unread item the place of
  the target it answers (`Place`) and says what may be there: an answer to that target, the
  end of the batch, or the one answer too many of a server that sends it (`WireInv`). A target
  with a success under way has been acted on; one that a request under way or left behind
  still asks for has not (`ServerInv`, `ActsInv`).
* `ActsOnce` (`OncePerTarget`), `EntriesAreTrue` (`EntriesHold`), `LeavesQuiet`
  (`QuietAfterCall`) follow from its parts. The fallback is the critical step: the single
  commands may be written because a server that does not know the batch has acted on nothing.

**`HandshakeProofs`** (any lists of mechanisms a server may offer, all clients):

* `Agreement`: `InStep`. `StepInv` lists the places that client and server can be in together,
  with what is under way between them (one disjunct per stage of the conversation, from
  `NotGreeted` to `Resting`). The interesting one is the security layer, which goes on at
  different times at the two ends while messages are read ahead: a message in the buffer
  has been decoded or not (`View`), and `LayerInv` says when the layer can be on.
  Only a server that has said something out of turn makes the client give up with a protocol
  error (`OddInv`).
* `StrongestFirst`: `WeakestLast`, over all requests of a connection. `TriedInv` says that what
  stands before the mechanism that is tried has been refused, and `FairInv` says of the mechanism that is
  under way why it may be. It is a theorem about the built-in mechanisms, `NamesTheUser`:
  DIGEST-MD5 belongs to SASL, and section 6 has the case in which it is passed over.
* `LayerOfAUser`: `LayerInv` itself.

**`EditDriveProofs`** (any methods, numbers of events and revisions, size of pipes):

* `Invariance`: the conversation of a call is a walk over spots (`Spots`: before revision r,
  amid it after n events, broken, ended, ...). The client stands at one, the server at another,
  and the items under way are the steps between them (`Path`, `Emits`). A failure that the
  client writes against the drive crosses what is on its way: `Waits` says what a server can
  be doing that has not heard of it, `Hears` one that is reading it.
  Around this are `LinkInv` (a lost connection has nothing under way), `CallInv`, `RestInv`
  (a call that kept its connection left both ends at rest) and `TurnInv`.
* `NeverOutOfStep` (`InSync`), `DeliversInOrder` (`Delivery`) and `DrainsOnce`
  (`ReportsDrainOnce`) follow. Delivery is where the walk pays: the events given to the handler
  are the steps it has taken.

**`FsEditorProofs`** (any set of paths closed under prefixes, any contents, any tree on the
disk and in the report, any number of drives, files and failures):

* `Invariance`: the invariant follows a file from its opening to the last step of its
  `close-file`. `TokenInv` says that editor and server agree on every token and how far its
  text delta is; `ClosingInv` (`StepOK`) what each step of `close-file` has found or left at the
  place of the file. `OpenInv` is what the checks against links rest on: the directories
  above whatever is open are `Firm`, there on the disk *and* for the server, so a step that
  comes after other events still writes below directories and not through a link that was
  there before. `CleanInv` carries a drive that began on the tree of its report through every
  event: disk and view agree but for the file that is being closed, a base is the text the
  server meant, and the executable bit is the one it has spoken of.
* `DiskStaysSound` (`DiskIsSound`), `NoTempIsLost` (`TempsAccounted`), `NoCleanDriveIsRefused`
  (`CleanDriveIsAccepted`) and `ExportsWhatWasSent` (`AsSent`) follow from its parts.
* The proof corrected `TempsAccounted`. It used to say that the files of the drive are the
  temporary files without those an earlier export has left; that fails with more entries
  than the run has, when a delete removes such a leftover and a new text delta takes its
  name. Now it says that the drive's files are there and that all others are leftovers.

**`CommitPlanProofs`** (any names, any pairs of neighbouring names, any depth, trees and
changes, both builders):

* `PlanInvariant`: the invariant follows the builder. While it folds, the operations per path
  are those the changes ask for, no matter in which order they came (`Gathered`). `Checked`
  says what each of the checks has ruled out once it is passed, `Untouched` that the
  transaction is the base until the drive begins. Then there is the walk (`InWalk`) and the
  rest of its drive (`InDrive`).
* The walk is the critical part. The stack leads to a path that comes before or at every task
  that is left (`WalkShape`); what is inside a directory is together in the order of the paths
  (`LessContiguous`), so that a directory which was closed is not needed again
  (`WalkOnce`). That is where it matters that the order is right: the theorems suppose
  `NoNeighbours`, that no change is about what lies inside a name (`a/x`) while another is
  about that name continued by a byte below `/` (`a.txt`), or what lies in there. It leaves out
  the case that `plan_neighbours` shows to fail (section 6), where `a` is a task of its own, and
  the one where it is not and the order does no harm. Without it the order of strings is not
  one of sequences of names, and the lemma fails.
* `WalkDrive` says that the server accepts what the drive says so far, and is then at
  `TreeOf`: the base with the directories that were opened and the tasks that were walked.
  For that, consistent changes must not disturb each other (`Apart`): what a task
  needs to find in the tree is there whichever of the other tasks came before it.
* `DriveAccepted` (`DriveIsAccepted`) and `TreeBuilt` (`BuildsTheTree`) follow: at the end of
  the walk `TreeOf` is the tree that was asked for. TLC has checked the parts of the invariant
  but `WalkDrive`, which asks for functions of the states in between that it cannot enumerate;
  the server of the run says the same step by step.
* Two lemmas stand for the recursion a reader would expect. `SortedEnumeration`: a finite set
  with a strict total order can be listed in it (by counting what is below each member), so
  `Sorted` is what it says. `AcceptsThen`: a drive that is accepted and continued by one that
  is accepted from there is accepted.

What TLC alone checks:

* *Liveness*: `CallEnds`, `CallReturns`, `DriveReturns`, `CommitReturns`, `ExchangeEnds`,
  `Arrives`. The prover has no rules for fairness and ENABLED.
* *`WireReader`, `Svndiff`, `TextDelta`*: decoding is recursion over data (`RECURSIVE`
  operators), and the induction that `ReadsBack`, `WholeWindows` and `CutsDoNotMatter` need is
  out of the prover's reach.

## 6. Disagreements

Two runs show what the code does against what its documents say. Each finding in
`PROJECT.json` quotes the line.

1. `session_timeout`: `with_retry` returns a timeout without `conn = None`
   (`client/session.rs:157`), although `should_drop_connection` counts timeouts. The
   answer arrives later, and the next call takes it for its own.
2. `plan_neighbours`: tasks are sorted by the bytes of their paths
   (`commit/builder/build.rs:280`), and `a.txt` sorts between `a` and `a/x`. The walk
   closes `a` and adds it a second time, which the server rejects.

Met while modelling, and not shown by a run of their own. First, the conversation on a
connection that is kept:

* `warm_up_to` waits for a permit while it holds those of its earlier turns
  (`pool/session.rs:98`). Without `acquire_timeout`, two warm-ups wait for ever: with warm-ups,
  `CallEnds` does not hold.
* A report path that does not validate leaves `send_report` half-way
  (`rasvn/edit/report.rs:15`), and the error does not drop the connection. The server takes
  the next command for a part of the report. `AlwaysInSync` in `EditDrive` says that this does
  not happen and does not hold; `InSync` leaves the state out.
* Authentication for a command that ends in `AuthFailed` keeps the session
  (`rasvn/conn/auth.rs:139`, `client/session.rs:180`), while the server waits for another
  mechanism, or for the reply that SASL could not give (`rasvn/conn/auth.rs:224`), and takes
  the next command for it. `InStep` of `Handshake` leaves such sessions out.
* A client with SASL and credentials that is offered DIGEST-MD5 and ANONYMOUS, and no
  CRAM-MD5 or PLAIN, becomes anonymous although nothing was refused: `select_mechs` has
  ANONYMOUS on its list (`rasvn/conn/auth.rs:310`), and SASL, which alone has DIGEST-MD5, is
  asked afterwards and only for ANONYMOUS (`rasvn/conn/auth.rs:148`). `Handshake` has these
  behaviours; `WeakestLast` speaks of the built-in mechanisms and says nothing of them.
* `lock_many` takes its fallback only when the unknown command is answered after an
  auth-request (`client/locks.rs:133`). A server that answers at once makes the call fail.
* In the fallback a lost connection becomes an entry of the vector (`client/locks.rs:222`),
  where the outer result is said to be for transport failures (`client/locks.rs:91`).
* An error in the middle of an answer that is not an I/O or protocol error leaves the rest
  unread on a connection that is kept: a callback that fails, a dropped future.
* `get_file_with_options`: every `?` and `return Err` leaves the function, so neither its
  retry arm nor its drop arm can be reached (`client/data/file.rs:169`; `CHANGELOG.md:92`
  announces the retry). A file over `max_bytes` leaves its remaining chunks unread.
* `list_recursive` asks for the server's `list` capability before it connects, so a new
  session always walks; without a revision each directory is listed at the head of its
  moment.

And elsewhere:

* A pool by key opens its sessions at the URL of the client that came first. A client of
  another repository on the same host has the same key, and each of its checkouts opens or takes
  a session that `reparent` cannot move. `pool(client)` returns that pool as well, whose
  `session()` hands out sessions at whatever URL they were left.
* `with_window_size` accepts sizes over `DELTA_WINDOW_MAX`, which makes windows that the crate's
  own decoder refuses (`textdelta/decode.rs:247`).
* `checked_shl` fails when the shift is too wide, not when bits are lost, so an integer
  that overflows is wrapped and the error for it never comes (`textdelta/decode.rs:288`).
* Integers with leading zero digits are accepted, and whether they make a header too long
  depends on the chunk it came in.
* `warm_up_to` reads the length of the idle list before its awaits: two of them, or one
  beside a checkout, can own more than `max_sessions` connections.
* `now` is taken once in `session()`. After a slow health check that fails, the next entry
  may have expired and is handed out; `NothingExpired` is checked without health checks.
* A handler that refuses late in a replay can make the drain read the response itself;
  `ReportsDrainOnce` is stated for methods whose drive only `abort-edit` can end. A
  refusal of `FinishReplay` is written to a server that has finished. `EditDrive` has both
  and ends a behaviour with the second (`Spoilt`).
* A report that ends with `AbortReport` is refused, which `client/report/update.rs:6`
  allows.
* Export: the name of a temporary file starts from zero in each editor and must not exist,
  so an export that was broken off makes the next one fail at the same file. A text delta
  without `svn:executable` takes the bit from an executable file. The old file is removed
  before the new one is renamed into place. The editor is not reset after a refused drive.
* The builders do not refuse a file and a directory at one path, changes below a file, or
  a delete inside a deleted directory; the server does. `Consistent` in `CommitPlan` leaves
  these out.

## 7. What is not modelled

* *Value parsing* (`rasvn/parse.rs`): pure conversion of items to values, without state. The
  models treat a response as of the expected shape or not; `WireReader` has the items.
* *Recorded deltas and buffers* (`TextDeltaRecorder`, `client/data/buffer.rs`), *and
  `get_file_revs_with_contents`*: a map from tokens to the chunks seen so far, a vector that
  grows up to a limit, and a loop over `TextDelta`'s applier with a map of contents.
* *`list_recursive`*: a loop over `list_dir`.
* *Cyrus SASL and the hash of CRAM-MD5*: `Handshake` has the code around them and leaves
  what they answer open; the binding in `rasvn/sasl.rs` is covered as far as its exchange.
* *zlib and lz4*: a compressed section is taken to give back what was put in, or an error.
* *SSH*: a transport that opens or does not. *Addresses, options, values*: data. Path
  validation in `FsEditor`, `strip_prefix` and Windows reparse points. The wording of errors,
  logging, metrics.
* *Parts of steps.* In `RaSession` a write that times out, and a future dropped before
  the write, leave nothing of the command behind: half a command on a kept connection, which the
  next one would complete, is left out, and so is a failing `sasl.encode`. A callback fails
  with an error of its own or one that drops the connection, not with one of those that
  `log_each_retrying` takes for a lost connection (history.rs:295-319): it would start again and
  pass over the entry that the callback refused. In `EditDrive` a report is one token, with
  the flushes at 64 KB (report.rs:16) in one. In `CommitPlan` a source of a copy is looked up in the
  base whatever its revision (build.rs:175), and an empty source path, which is refused before
  anything else, is not among the changes. In `Handshake` messages are of the
  expected shape or not at all: a token that is missing where one must be (auth.rs:217), and
  a failure of `client_step` or of decoding once the server has said success, are left out.
* *TCP, svnserve, tokio, the file system* are external and modelled from how the code uses
  them, with every outcome that matters left open.

## 8. Plan

Written so far, in this order: the session with its operations, the pool, drives, the
commit drive, the builders, export; lists of locks, the handshake, the wire with text deltas,
pools by key; the proofs about everything but the wire.

Next, the model: `get_file_revs_with_contents` and `TextDeltaRecorder` on top of `TextDelta`;
`list_recursive` beside commits of others; the validation of paths, with what it means
for `StaysInside`.

Liveness, ENABLED and facts about recursive definitions stay with TLC: the prover cannot
express the first two and cannot instantiate the induction the third needs.
