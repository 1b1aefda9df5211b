-------------------------- MODULE CommitDriveProofs --------------------------
(***************************************************************************)
(* Proofs about CommitDrive, for any commands callers try to send, any     *)
(* batch size, any capacity of the pipe and any number of commits, and     *)
(* whatever goes wrong.  The inductive invariant relates three places: how *)
(* far the loop of commit() is, what is in the batch and in the pipe, and  *)
(* what the server has read of the edit.                                   *)
(***************************************************************************)
EXTENDS CommitDrive, SequenceTheorems, TLAPS

-----------------------------------------------------------------------------
(* The inductive invariant.                                                *)

\* Where the loop of a commit is: nothing of it is on the connection; no
\* command has been taken from the script; commands are written; the edit has
\* been accepted.
Resting == call.pc \in {"idle", "check", "command"}
Unstarted == call.pc \in {"check", "command", "auth", "reply"}
Editing == call.pc \in {"next", "flush", "abort", "early", "end", "final"}
Closing == call.pc \in {"auth2", "info"}

\* How many commands are in the batch, and how many the server has read.
Held == Len(call.batch)
Got == Len(srv.got)

\* The outcome of a commit is open exactly while it is in progress.
CallInv ==
    /\ call.pc # "idle" => call.no \in CallIds
    /\ \A c \in CallIds : outcome[c] = "open" <=> c = call.no /\ call.pc # "idle"
    /\ \A c \in CallIds : c > call.no => outcome[c] = "none" /\ commits[c] = 0

\* A transport that works belongs to a connection that is kept.  Before the
\* commit command is written nothing is under way: the session left the
\* connection at the start of a command.
LinkInv ==
    /\ up => kept
    /\ ~up => out = <<>> /\ srv = NoEdit
    /\ Resting => out = <<>> /\ in = <<>> /\ srv = NoEdit

\* The batch holds the commands of the script just before position i; nothing
\* follows close-edit, and the session knows whether it has been sent.
LoopInv ==
    /\ Unstarted => /\ call.i = 1 /\ call.batch = <<>>
                    /\ call.sincePoll = 0 /\ ~call.closed
    /\ call.pc \notin {"idle", "check"} /\ ~call.streamed => WellFormed(call.script)
    /\ Editing \/ Closing =>
          /\ call.i \in 1 .. Len(call.script) + 1 /\ Held < call.i
          /\ \A k \in 1 .. Held :
                call.batch[k] = call.script[call.i - 1 - Held + k]
          /\ \A k \in 1 .. call.i - 1 :
                /\ call.script[k] # "abort-edit"
                /\ call.script[k] = "close-edit" => k = call.i - 1 /\ call.closed
          /\ call.closed => call.i > 1 /\ call.script[call.i - 1] = "close-edit"
    /\ call.pc \in {"abort", "early"} => ~call.closed
    /\ Closing \/ call.pc = "final" => call.closed
    /\ Closing \/ call.pc \in {"abort", "early", "end"} => call.batch = <<>>
    /\ call.pc = "next" => call.sincePoll = Held /\ call.sincePoll < BatchSize

\* An answer that is there to be seen is seen before the next batch: commands
\* written after it are those of the batch in hand.
LateInv ==
    /\ late <= BatchSize + 1
    /\ Unstarted => late = 0
    /\ up /\ in = <<>> /\ Editing => late = 0
    /\ call.pc = "next" => late <= BatchSize /\ (call.sincePoll > 0 => late = 0)
    /\ call.pc \in {"flush", "final"} => late + Held <= BatchSize
    /\ call.pc \in {"end", "abort"} => late <= BatchSize

\* The server has accepted a commit command and read nothing of the edit.
Fresh == [NoEdit EXCEPT !.at = "edit"]

\* What may be on the wire while commit() waits for the answer to its command.
AnswerInv ==
    /\ up /\ call.pc = "auth" =>
         \/ out = <<"commit">> /\ in = <<>> /\ srv = NoEdit
         \/ out = <<>> /\ in = <<"auth", "success">> /\ srv = Fresh
         \/ out = <<>> /\ in \in {<<"auth", "failure">>, <<"failure">>} /\ srv = NoEdit
    /\ up /\ call.pc = "reply" =>
         \/ out = <<>> /\ in = <<"success">> /\ srv = Fresh
         \/ out = <<>> /\ in = <<"failure">> /\ srv = NoEdit
    /\ call.pc \in {"auth", "reply"} => \A k \in 1 .. Len(in) : in[k] # "info"

\* The abort-edit of check_for_edit_status, which is not in the script.
AbortSent == IF call.pc = "early" THEN 1 ELSE 0

\* A server that reads the edit has read a prefix of the script; the pipe holds
\* what follows, up to the batch; and it has answered nothing but rogue successes.
AtEdit ==
    /\ commits[call.no] = 0
    /\ Got + Len(out) = call.i - 1 - Held + AbortSent
    /\ \A k \in 1 .. Got : srv.got[k] = call.script[k]
    /\ \A k \in 1 .. Len(out) :
         out[k] = IF k = Len(out) /\ call.pc = "early" THEN "abort-edit"
                  ELSE call.script[Got + k]
    /\ call.pc = "early" => out # <<>>
    /\ \A k \in 1 .. Len(in) : in[k] = "success"

\* A server that has failed still reads: abort-edit comes last.
AtDrain ==
    \A k \in 1 .. Len(out) : out[k] = "abort-edit" => k = Len(out) /\ call.pc = "early"

\* A server that is done with the edit has read all that the client wrote.
AtIdle == out = <<>> /\ (call.pc = "early" \/ (call.closed /\ call.batch = <<>>))

\* How the two ends agree, for each place of the server.
EditInv ==
    up /\ (Editing \/ Closing) =>
        /\ srv.at = "edit" => AtEdit
        /\ srv.at = "drain" => AtDrain
        /\ srv.at = "idle" => AtIdle

\* Commit information is the last item of an answer, and the revision it
\* names exists; the edit of a commit that still runs has not been completed.
InfoInv ==
    /\ \A k \in 1 .. Len(in) : in[k] = "info" =>
         /\ k = Len(in) /\ commits[call.no] = 1 /\ call.no \notin orphans /\ srv = NoEdit
    /\ call.pc \in {"check", "command"}
         \/ (up /\ call.pc \in {"auth", "reply"}) \/ srv.at = "edit"
         => commits[call.no] = 0 /\ call.no \notin orphans

\* An edit left on a lost connection has not been completed, its commit has not
\* returned Ok, and the connection it was on is gone.
OrphanInv ==
    \A c \in orphans :
       /\ c <= call.no /\ commits[c] = 0 /\ outcome[c] \notin {"none", "ok"}
       /\ outcome[c] = "open" => ~up

IInv ==
    /\ TypeOK /\ CallInv /\ LinkInv /\ LoopInv /\ LateInv
    /\ AnswerInv /\ EditInv /\ InfoInv /\ OrphanInv

\* The locals of a commit.
CallType ==
    [no : 0 .. MaxCalls,
     pc : {"idle", "check", "command", "auth", "reply", "next", "flush",
           "abort", "early", "end", "final", "auth2", "info"},
     script : Seq(EditorCommands), streamed : BOOLEAN, i : Nat,
     batch : Seq(EditorCommands), sincePoll : 0 .. BatchSize, closed : BOOLEAN]

-----------------------------------------------------------------------------
(* Steps of the client.                                                   *)

\* The invariant holds before the first commit.
LEMMA InitStep == Init => IInv
<1> SUFFICES ASSUME Init PROVE IInv
  OBVIOUS
<1> USE DEF Init, Idle, NoEdit
<1>1. TypeOK
  BY SizeAssumption DEF TypeOK, CallIds
<1>2. CallInv /\ LinkInv /\ OrphanInv
  BY SizeAssumption DEF CallInv, LinkInv, CallIds, Resting, OrphanInv
<1>3. LoopInv /\ LateInv
  BY SizeAssumption DEF LoopInv, LateInv, Unstarted, Editing, Closing
<1>4. AnswerInv /\ EditInv /\ InfoInv
  BY DEF AnswerInv, EditInv, InfoInv, Editing, Closing
<1> QED
  BY <1>1, <1>2, <1>3, <1>4 DEF IInv

\* An error at any place drops the connection and leaves the invariant.
LEMMA FailStep ==
    ASSUME IInv, call.pc # "idle", NEW err \in Errors, Fail(err)
    PROVE  IInv'
<1>1. /\ call' = [call EXCEPT !.pc = "idle"]
      /\ outcome' = [outcome EXCEPT ![call.no] = err]
      /\ kept' = FALSE /\ up' = FALSE /\ out' = <<>> /\ in' = <<>> /\ srv' = NoEdit
      /\ orphans' = orphans \cup Orphaned
      /\ commits' = commits /\ late' = late
  BY Zenon DEF Fail
<1>2. TypeOK /\ call.no \in CallIds
  BY DEF IInv, CallInv
<1>3. Orphaned \subseteq {call.no} /\ (Orphaned # {} => srv.at = "edit")
  BY DEF Orphaned
<1>4. /\ call'.no = call.no /\ call'.pc = "idle" /\ call'.script = call.script
      /\ call'.streamed = call.streamed /\ call'.i = call.i /\ call'.batch = call.batch
      /\ call'.sincePoll = call.sincePoll /\ call'.closed = call.closed
  BY <1>1, <1>2 DEF TypeOK
<1>5. TypeOK'
  <2>1. call' \in [no : 0 .. MaxCalls,
                 pc : {"idle", "check", "command", "auth", "reply", "next", "flush",
                       "abort", "early", "end", "final", "auth2", "info"},
                 script : Seq(EditorCommands), streamed : BOOLEAN, i : Nat,
                 batch : Seq(EditorCommands), sincePoll : 0 .. BatchSize,
                 closed : BOOLEAN]
    BY <1>1, <1>2 DEF TypeOK
  <2>2. outcome' \in [CallIds -> Errors \cup {"none", "open", "ok"}]
    BY <1>1, <1>2 DEF TypeOK
  <2> QED
    <3>1. srv' \in [at : {"idle", "edit", "drain"}, got : Seq(EditorCommands)]
      BY <1>1 DEF NoEdit
    <3>2. orphans' \subseteq CallIds
      BY <1>1, <1>2, <1>3 DEF TypeOK
    <3> QED
      <4>1. out' \in Seq(EditorCommands \cup {"commit"})
        BY <1>1
      <4>2. in' \in Seq({"auth", "success", "failure", "info"})
        BY <1>1
      <4>3. kept' \in BOOLEAN /\ up' \in BOOLEAN /\ late' \in Nat /\ commits' \in [CallIds -> Nat]
        BY <1>1, <1>2 DEF TypeOK
      <4> QED
        BY <2>1, <2>2, <3>1, <3>2, <4>1, <4>2, <4>3, Zenon DEF TypeOK
<1>6. CallInv'
  BY <1>1, <1>2, <1>4 DEF IInv, CallInv, TypeOK, Errors
<1>7. LinkInv' /\ LoopInv' /\ LateInv'
  BY <1>1, <1>4 DEF IInv, LinkInv, LoopInv, LateInv, Unstarted, Editing, Closing
<1>8. AnswerInv' /\ EditInv'
  BY <1>1, <1>4 DEF AnswerInv, EditInv
<1>9. InfoInv'
  BY <1>1, <1>4 DEF InfoInv, NoEdit
<1>10. OrphanInv'
  BY <1>1, <1>2, <1>3, <1>4 DEF IInv, OrphanInv, InfoInv, TypeOK, CallIds, Errors
<1> QED
  BY <1>5, <1>6, <1>7, <1>8, <1>9, <1>10 DEF IInv

\* A commit begins: nothing is on the connection the last one left.
LEMMA StartStep ==
    ASSUME IInv, NEW script \in Scripts, NEW streamed \in BOOLEAN, Start(script, streamed)
    PROVE  IInv'
<1>1. /\ call.pc = "idle" /\ call.no < MaxCalls
      /\ call' = [Idle EXCEPT !.no = call.no + 1, !.script = script,
                              !.streamed = streamed, !.pc = "check"]
      /\ outcome' = [outcome EXCEPT ![call.no + 1] = "open"]
      /\ late' = 0
      /\ UNCHANGED <<kept, up, out, in, srv, orphans, commits>>
  BY Zenon DEF Start
<1>2. TypeOK /\ call.no + 1 \in CallIds
  BY <1>1, SizeAssumption DEF IInv, TypeOK, CallIds
<1>3. /\ call'.no = call.no + 1 /\ call'.pc = "check" /\ call'.i = 1 /\ call'.batch = <<>>
      /\ call'.sincePoll = 0 /\ call'.closed = FALSE
  BY <1>1 DEF Idle
<1>4. TypeOK'
  <2>1. script \in Seq(EditorCommands)
    BY ScriptAssumption
  <2>2. call' \in CallType
    <3>1. call' = [no |-> call.no + 1, pc |-> "check", script |-> script,
                   streamed |-> streamed, i |-> 1, batch |-> <<>>, sincePoll |-> 0,
                   closed |-> FALSE]
      BY <1>1 DEF Idle
    <3>2. call.no + 1 \in 0 .. MaxCalls /\ 0 \in 0 .. BatchSize
      BY <1>2, SizeAssumption DEF CallIds
    <3> QED
      BY <2>1, <3>1, <3>2 DEF CallType
  <2>3. outcome' \in [CallIds -> Errors \cup {"none", "open", "ok"}]
    BY <1>1, <1>2 DEF TypeOK
  <2> QED
    BY <1>1, <1>2, <2>2, <2>3 DEF TypeOK, CallType
<1>5. CallInv'
  BY <1>1, <1>2, <1>3 DEF IInv, CallInv, TypeOK, CallIds
<1>6. LinkInv' /\ LoopInv' /\ LateInv'
  BY <1>1, <1>3, SizeAssumption
     DEF IInv, LinkInv, LoopInv, LateInv, Resting, Unstarted, Editing, Closing
<1>7. AnswerInv' /\ EditInv'
  BY <1>3 DEF AnswerInv, EditInv, Editing, Closing
<1>8. call.no + 1 \notin orphans /\ commits[call.no + 1] = 0
  BY <1>1, <1>2 DEF IInv, OrphanInv, CallInv, TypeOK
<1>9. InfoInv'
  <2>1. in = <<>> /\ srv.at # "edit"
    BY <1>1 DEF IInv, LinkInv, Resting, NoEdit
  <2> QED
    BY <1>1, <1>3, <1>8, <2>1 DEF InfoInv
<1>10. OrphanInv'
  BY <1>1, <1>2, <1>3, <1>8 DEF IInv, OrphanInv, CallInv, TypeOK, CallIds
<1> QED
  BY <1>4, <1>5, <1>6, <1>7, <1>9, <1>10 DEF IInv

\* commit() refuses a list of commands, or ensure_connected gives a connection.
LEMMA CheckStep ==
    ASSUME IInv, Check
    PROVE  IInv'
<1>1. /\ call.pc = "check" /\ UNCHANGED <<out, in, srv, orphans, commits, late>>
      /\ \/ /\ call' = [call EXCEPT !.pc = "idle"]
            /\ outcome' = [outcome EXCEPT ![call.no] = "protocol"]
            /\ kept' = kept /\ up' = up
         \/ /\ call.streamed \/ WellFormed(call.script)
            /\ call' = [call EXCEPT !.pc = "command"]
            /\ kept' = TRUE /\ up' = IF kept THEN up ELSE TRUE
            /\ outcome' = outcome
  BY Zenon DEF Check
<1>2. TypeOK /\ call.no \in CallIds
  BY <1>1 DEF IInv, CallInv
<1>3. /\ call'.no = call.no /\ call'.pc \in {"idle", "command"} /\ call'.script = call.script
      /\ call'.streamed = call.streamed /\ call'.i = call.i /\ call'.batch = call.batch
      /\ call'.sincePoll = call.sincePoll /\ call'.closed = call.closed
      /\ call'.pc = "command" => call.streamed \/ WellFormed(call.script)
  BY <1>1, <1>2 DEF TypeOK
<1>4. TypeOK'
  <2>1. call' \in CallType
    BY <1>1, <1>2 DEF TypeOK, CallType
  <2>2. outcome' \in [CallIds -> Errors \cup {"none", "open", "ok"}]
    BY <1>1, <1>2 DEF TypeOK, Errors
  <2> QED
    BY <1>1, <1>2, <2>1, <2>2 DEF TypeOK, CallType
<1>5. CallInv'
  <2>1. /\ \A c \in CallIds : outcome[c] = "open" <=> c = call.no
        /\ \A c \in CallIds : c > call.no => outcome[c] = "none" /\ commits[c] = 0
    BY <1>1 DEF IInv, CallInv
  <2>2. CASE /\ call'.pc = "idle" /\ call'.no = call.no /\ commits' = commits
             /\ outcome' = [outcome EXCEPT ![call.no] = "protocol"]
    <3>1. outcome'[call.no] = "protocol" /\ \A c \in CallIds \ {call.no} : outcome'[c] = outcome[c]
      BY <1>2, <2>2 DEF TypeOK
    <3>2. call.no \in Nat /\ ~(call.no > call.no)
      BY <1>2 DEF CallIds
    <3> QED
      BY <2>1, <2>2, <3>1, <3>2 DEF CallInv
  <2>3. CASE /\ call'.pc = "command" /\ call'.no = call.no /\ commits' = commits
             /\ outcome' = outcome
    BY <1>2, <2>1, <2>3 DEF CallInv
  <2>4. \/ call'.pc = "idle" /\ outcome' = [outcome EXCEPT ![call.no] = "protocol"]
        \/ call'.pc = "command" /\ outcome' = outcome
    BY <1>1, <1>2 DEF TypeOK
  <2> QED
    BY <1>1, <1>3, <2>2, <2>3, <2>4
<1>6. LinkInv' /\ LoopInv' /\ LateInv'
  <2>1. LinkInv'
    <3>1. up => kept
      BY DEF IInv, LinkInv
    <3>2. (kept' = kept /\ up' = up) \/ kept' = TRUE
      BY DEF Check
    <3>4. up' => kept'
      <4>1. CASE kept' = TRUE
        BY <4>1, Zenon
      <4>2. CASE kept' = kept /\ up' = up
        BY <3>1, <4>2, Zenon
      <4> QED
        BY <3>2, <4>1, <4>2
    <3>3. out = <<>> /\ in = <<>> /\ srv = NoEdit
      BY <1>1 DEF IInv, LinkInv, Resting
    <3> QED
      BY <1>1, <3>4, <3>3, Zenon DEF LinkInv, NoEdit
  <2>2. LoopInv'
    BY <1>1, <1>3 DEF IInv, LoopInv, Unstarted, Editing, Closing
  <2>3. LateInv'
    BY <1>1, <1>3, SizeAssumption DEF IInv, LateInv, Unstarted, Editing, Closing
  <2> QED
    BY <2>1, <2>2, <2>3
<1>7. AnswerInv' /\ EditInv'
  BY <1>3 DEF AnswerInv, EditInv, Editing, Closing
<1>8. InfoInv'
  BY <1>1, <1>3 DEF IInv, InfoInv, LinkInv, Resting, NoEdit
<1>9. OrphanInv'
  <2>1. call.no \notin orphans
    BY <1>1 DEF IInv, InfoInv
  <2>2. \A c \in orphans : outcome'[c] = outcome[c] /\ outcome[c] # "open"
    BY <1>1, <1>2, <2>1 DEF IInv, CallInv, TypeOK
  <2> QED
    BY <1>1, <1>3, <2>2 DEF IInv, OrphanInv
<1> QED
  BY <1>4, <1>5, <1>6, <1>7, <1>8, <1>9 DEF IInv

\* The commit command is written.
LEMMA SendCommitStep ==
    ASSUME IInv, SendCommit
    PROVE  IInv'
<1>1. \/ Fail("eof")
      \/ /\ up /\ out' = Append(out, "commit")
         /\ call' = [call EXCEPT !.pc = "auth"]
         /\ late' = IF in = <<>> THEN late ELSE late + 1
         /\ UNCHANGED <<kept, up, in, srv, outcome, orphans, commits>>
  BY Zenon DEF SendCommit, Write
<1>2. call.pc = "command"
  BY DEF SendCommit
<1>3. CASE Fail("eof")
  BY <1>2, <1>3, FailStep DEF Errors
<1>4. CASE up /\ out' = Append(out, "commit")
         /\ call' = [call EXCEPT !.pc = "auth"]
         /\ late' = (IF in = <<>> THEN late ELSE late + 1)
         /\ UNCHANGED <<kept, up, in, srv, outcome, orphans, commits>>
  <2>1. TypeOK /\ call.no \in CallIds /\ out = <<>> /\ in = <<>> /\ srv = NoEdit
    BY <1>2 DEF IInv, CallInv, LinkInv, Resting
  <2>2. out' = <<"commit">> /\ late' = late
    BY <1>4, <2>1
  <2>3. /\ call'.no = call.no /\ call'.pc = "auth" /\ call'.script = call.script
        /\ call'.streamed = call.streamed /\ call'.i = call.i /\ call'.batch = call.batch
        /\ call'.sincePoll = call.sincePoll /\ call'.closed = call.closed
    BY <1>4, <2>1 DEF TypeOK
  <2>4. TypeOK'
    <3>1. call' \in CallType
      BY <1>4, <2>1 DEF TypeOK, CallType
    <3>2. out' \in Seq(EditorCommands \cup {"commit"})
      BY <2>2
    <3> QED
      BY <1>4, <2>1, <2>2, <3>1, <3>2 DEF TypeOK, CallType
  <2>5. CallInv' /\ LinkInv' /\ LoopInv' /\ LateInv'
    BY <1>2, <1>4, <2>1, <2>2, <2>3
       DEF IInv, CallInv, LinkInv, LoopInv, LateInv, Resting, Unstarted, Editing, Closing
  <2>6. AnswerInv' /\ EditInv' /\ InfoInv'
    BY <1>2, <1>4, <2>1, <2>2, <2>3
       DEF IInv, AnswerInv, EditInv, Editing, Closing, InfoInv, NoEdit
  <2>7. OrphanInv'
    BY <1>2, <1>4, <2>1, <2>3 DEF IInv, OrphanInv
  <2> QED
    BY <2>4, <2>5, <2>6, <2>7 DEF IInv
<1> QED
  BY <1>1, <1>3, <1>4

\* What a step that only reads an item or changes its place leaves as it was.
LEMMA GoOnFacts ==
    ASSUME TypeOK, NEW rest \in Seq({"auth", "success", "failure", "info"}),
           NEW place \in {"reply", "next", "abort", "final", "auth2", "info"},
           GoOn(place, rest)
    PROVE  /\ TypeOK'
           /\ call'.no = call.no /\ call'.pc = place /\ call'.script = call.script
           /\ call'.streamed = call.streamed /\ call'.i = call.i /\ call'.batch = call.batch
           /\ call'.sincePoll = call.sincePoll /\ call'.closed = call.closed
           /\ in' = rest
           /\ UNCHANGED <<kept, up, out, srv, outcome, orphans, commits, late>>
<1>1. /\ call' = [call EXCEPT !.pc = place] /\ in' = rest
      /\ UNCHANGED <<kept, up, out, srv, outcome, orphans, commits, late>>
  BY Zenon DEF GoOn
<1>2. call' \in CallType
  BY <1>1 DEF TypeOK, CallType
<1>3. /\ call'.no = call.no /\ call'.pc = place /\ call'.script = call.script
      /\ call'.streamed = call.streamed /\ call'.i = call.i /\ call'.batch = call.batch
      /\ call'.sincePoll = call.sincePoll /\ call'.closed = call.closed
  BY <1>1 DEF TypeOK
<1> QED
  BY <1>1, <1>2, <1>3 DEF TypeOK, CallType

\* The items after the one that is read.
LEMMA RestOfIn ==
    ASSUME TypeOK, in # <<>>
    PROVE  /\ Tail(in) \in Seq({"auth", "success", "failure", "info"})
           /\ Len(in) \in Nat /\ Len(in) > 0 /\ Len(Tail(in)) = Len(in) - 1
           /\ \A k \in 1 .. Len(Tail(in)) : Tail(in)[k] = in[k + 1]
           /\ Head(in) = in[1]
BY DEF TypeOK

\* The numbers of the state are numbers.
LEMMA Sizes ==
    ASSUME TypeOK
    PROVE  /\ call.i \in Nat /\ call.script \in Seq(EditorCommands) /\ Len(call.script) \in Nat
           /\ call.batch \in Seq(EditorCommands) /\ Held \in Nat
           /\ call.sincePoll \in Nat /\ late \in Nat /\ BatchSize \in Nat /\ BatchSize > 0
           /\ Len(out) \in Nat /\ Len(in) \in Nat /\ Got \in Nat
           /\ call.closed \in BOOLEAN /\ call.streamed \in BOOLEAN
BY SizeAssumption DEF TypeOK, Held, Got

\* The request for authentication before the edit, or before the revision.
LEMMA ReadAuthStep ==
    ASSUME IInv, ReadAuth
    PROVE  IInv'
<1>1. call.pc \in {"auth", "auth2"} /\ in # <<>>
  BY DEF ReadAuth
<1>2. CASE Fail("server")
  BY <1>1, <1>2, FailStep DEF Errors
<1>3. CASE call.pc = "auth" /\ Head(in) = "auth" /\ GoOn("reply", Tail(in))
  <2>1. TypeOK /\ Tail(in) \in Seq({"auth", "success", "failure", "info"})
    BY <1>1, RestOfIn DEF IInv
  <2>2. /\ TypeOK'
        /\ call'.no = call.no /\ call'.pc = "reply" /\ call'.script = call.script
        /\ call'.streamed = call.streamed /\ call'.i = call.i /\ call'.batch = call.batch
        /\ call'.sincePoll = call.sincePoll /\ call'.closed = call.closed
        /\ in' = Tail(in)
        /\ UNCHANGED <<kept, up, out, srv, outcome, orphans, commits, late>>
    BY <1>3, <2>1, GoOnFacts
  <2>3. CallInv' /\ LinkInv' /\ LoopInv' /\ LateInv' /\ OrphanInv'
    BY <1>3, <2>2
       DEF IInv, CallInv, LinkInv, LoopInv, LateInv, OrphanInv, Resting, Unstarted,
           Editing, Closing, NoEdit
  <2>4. up => \/ out = <<>> /\ Tail(in) = <<"success">> /\ srv = Fresh
              \/ out = <<>> /\ Tail(in) = <<"failure">> /\ srv = NoEdit
    <3>1. /\ Tail(<<"auth", "success">>) = <<"success">>
          /\ Tail(<<"auth", "failure">>) = <<"failure">>
      OBVIOUS
    <3>2. <<"failure">>[1] # "auth" /\ in[1] = "auth"
      BY <1>1, <1>3, <2>1, RestOfIn
    <3>3. up => \/ in = <<"auth", "success">> /\ out = <<>> /\ srv = Fresh
                \/ in = <<"auth", "failure">> /\ out = <<>> /\ srv = NoEdit
      BY <1>1, <1>3, <3>2 DEF IInv, AnswerInv
    <3>4. in = <<"auth", "success">> => Tail(in) = <<"success">>
      BY <3>1
    <3>5. in = <<"auth", "failure">> => Tail(in) = <<"failure">>
      BY <3>1
    <3> QED
      BY <3>3, <3>4, <3>5, Zenon
  <2>5. \A k \in 1 .. Len(in') : in'[k] # "info"
    BY <1>1, <1>3, <2>1, <2>2, RestOfIn DEF IInv, AnswerInv
  <2>6. AnswerInv' /\ EditInv' /\ InfoInv'
    BY <1>3, <2>2, <2>4, <2>5
       DEF IInv, AnswerInv, EditInv, Editing, Closing, InfoInv, NoEdit, Fresh
  <2> QED
    BY <2>2, <2>3, <2>6 DEF IInv
<1>4. CASE call.pc = "auth2" /\ Head(in) = "auth" /\ GoOn("info", Tail(in))
  <2>1. TypeOK /\ Tail(in) \in Seq({"auth", "success", "failure", "info"})
    BY <1>1, RestOfIn DEF IInv
  <2>2. /\ TypeOK'
        /\ call'.no = call.no /\ call'.pc = "info" /\ call'.script = call.script
        /\ call'.streamed = call.streamed /\ call'.i = call.i /\ call'.batch = call.batch
        /\ call'.sincePoll = call.sincePoll /\ call'.closed = call.closed
        /\ in' = Tail(in)
        /\ UNCHANGED <<kept, up, out, srv, outcome, orphans, commits, late>>
    BY <1>4, <2>1, GoOnFacts
  <2>3. CallInv' /\ LinkInv' /\ LoopInv' /\ LateInv' /\ OrphanInv'
    BY <1>4, <2>2
       DEF IInv, CallInv, LinkInv, LoopInv, LateInv, OrphanInv, Resting, Unstarted,
           Editing, Closing, NoEdit, Held, Got
  <2>4. AnswerInv'
    BY <2>2 DEF AnswerInv
  <2>5. /\ Len(in) > 0 /\ Len(in') = Len(in) - 1
        /\ \A k \in 1 .. Len(in') : in'[k] = in[k + 1]
    BY <1>1, <2>1, <2>2, RestOfIn
  <2>6. EditInv'
    <3>1. up => srv.at # "edit"
      BY <1>4, <2>1, RestOfIn DEF IInv, EditInv, Closing, AtEdit
    <3> QED
      BY <1>4, <2>2, <3>1 DEF IInv, EditInv, Editing, Closing, AtDrain, AtIdle
  <2>7. InfoInv'
    <3>1. \A k \in 1 .. Len(in') : in'[k] = "info" =>
             k + 1 \in 1 .. Len(in) /\ in[k + 1] = "info" /\ (k + 1 = Len(in) => k = Len(in'))
      BY <1>1, <2>1, <2>2, <2>5, RestOfIn
    <3>2. \A k \in 1 .. Len(in') : in'[k] = "info" =>
             k = Len(in') /\ commits[call.no] = 1 /\ call.no \notin orphans /\ srv = NoEdit
      BY <3>1 DEF IInv, InfoInv
    <3> QED
      BY <1>4, <2>2, <3>2 DEF IInv, InfoInv, NoEdit
  <2> QED
    BY <2>2, <2>3, <2>4, <2>6, <2>7 DEF IInv
<1> QED
  BY <1>2, <1>3, <1>4 DEF ReadAuth

\* The server takes or refuses the commit command.
LEMMA ReadReplyStep ==
    ASSUME IInv, ReadReply
    PROVE  IInv'
<1>1. call.pc = "reply" /\ in # <<>>
  BY DEF ReadReply
<1>2. CASE Fail("server")
  BY <1>1, <1>2, FailStep DEF Errors
<1>3. CASE Head(in) = "success" /\ GoOn("next", Tail(in))
  <2>1. TypeOK /\ Tail(in) \in Seq({"auth", "success", "failure", "info"})
    BY <1>1, RestOfIn DEF IInv
  <2>2. /\ TypeOK'
        /\ call'.no = call.no /\ call'.pc = "next" /\ call'.script = call.script
        /\ call'.streamed = call.streamed /\ call'.i = call.i /\ call'.batch = call.batch
        /\ call'.sincePoll = call.sincePoll /\ call'.closed = call.closed
        /\ in' = Tail(in)
        /\ UNCHANGED <<kept, up, out, srv, outcome, orphans, commits, late>>
    BY <1>3, <2>1, GoOnFacts
  <2>3. call.i = 1 /\ call.batch = <<>> /\ call.sincePoll = 0 /\ ~call.closed /\ late = 0
    BY <1>1 DEF IInv, LoopInv, LateInv, Unstarted
  <2>4. CallInv' /\ LinkInv' /\ LateInv' /\ OrphanInv'
    BY <1>1, <2>2, <2>3, SizeAssumption
       DEF IInv, CallInv, LinkInv, LateInv, OrphanInv, Resting, Unstarted,
           Editing, Closing, NoEdit
  <2>5. LoopInv'
    BY <1>1, <2>1, <2>2, <2>3, SizeAssumption
       DEF IInv, LoopInv, Unstarted, Editing, Closing, TypeOK, Held, Got
  <2>6. up => in' = <<>> /\ out = <<>> /\ srv = Fresh
    BY <1>1, <1>3, <2>1, <2>2 DEF IInv, AnswerInv
  <2>7. \A k \in 1 .. Len(in') : in'[k] # "info"
    BY <1>1, <2>1, <2>2, RestOfIn DEF IInv, AnswerInv
  <2>8. EditInv'
    <3>1. SUFFICES ASSUME up PROVE AtEdit' /\ srv.at = "edit"
      BY <2>2 DEF EditInv
    <3>2. commits[call.no] = 0
      BY <1>1, <3>1 DEF IInv, InfoInv
    <3>3. in' = <<>> /\ out' = <<>> /\ srv' = [at |-> "edit", got |-> <<>>]
      BY <2>2, <2>6, <3>1 DEF Fresh, NoEdit
    <3> QED
      <4>1. Got' = 0 /\ Len(out') = 0 /\ Len(in') = 0 /\ Held' = 0
        <5>1. Len(<<>>) = 0 /\ srv'.got = <<>> /\ call'.batch = <<>>
          BY <2>2, <2>3, <3>3
        <5> QED
          BY <3>3, <5>1 DEF Held, Got
      <4>2. call'.i = 1 /\ AbortSent' = 0
        BY <2>2, <2>3 DEF AbortSent
      <4>3. commits'[call'.no] = 0 /\ call'.pc # "early" /\ srv.at = "edit"
        BY <2>2, <3>2, <3>3
      <4> QED
        BY <4>1, <4>2, <4>3 DEF AtEdit
  <2>9. AnswerInv' /\ InfoInv'
    BY <1>1, <2>2, <2>6, <2>7 DEF IInv, AnswerInv, InfoInv, NoEdit, LinkInv
  <2> QED
    BY <2>2, <2>4, <2>5, <2>8, <2>9 DEF IInv
<1> QED
  BY <1>2, <1>3 DEF ReadReply

\* The loop takes a command, or finds an answer, or refuses what it is given.
LEMMA NextCommandStep ==
    ASSUME IInv, NextCommand
    PROVE  IInv'
<1>1. call.pc = "next" /\ call.i <= Len(call.script) /\ TypeOK
  BY DEF NextCommand, IInv
<1>2. \/ \E err \in Errors : Fail(err)
      \/ Sendable /\ PollDue /\ in # <<>> /\ GoOn("abort", in)
      \/ /\ Sendable /\ (PollDue => in = <<>> /\ up)
         /\ \E large \in BOOLEAN : call' = Batched(large)
         /\ UNCHANGED <<kept, up, out, in, srv, outcome, orphans, commits, late>>
  BY Zenon DEF NextCommand, Errors
<1>3. CASE \E err \in Errors : Fail(err)
  BY <1>1, <1>3, FailStep
\* What has been sent is refused a successor.
<1>4. Sendable => ~call.closed /\ call.script[call.i] # "abort-edit"
  <2>1. SUFFICES ASSUME ~call.streamed PROVE ~call.closed /\ call.script[call.i] # "abort-edit"
    BY DEF Sendable
  <2>2. WellFormed(call.script) /\ (call.closed => call.i > 1 /\ call.script[call.i - 1] = "close-edit")
    BY <1>1, <2>1 DEF IInv, LoopInv, Editing
  <2> QED
    <3>1. call.i \in 1 .. Len(call.script)
      BY <1>1, Sizes DEF IInv, LoopInv, Editing
    <3>2. /\ call.script[Len(call.script)] = "close-edit"
          /\ \A k \in 1 .. Len(call.script) - 1 : call.script[k] \notin {"close-edit", "abort-edit"}
      BY <2>2 DEF WellFormed
    <3>3. call.closed => call.i - 1 \in 1 .. Len(call.script) - 1
      BY <1>1, <2>2, <3>1, Sizes
    <3>4. ~call.closed
      BY <2>2, <3>2, <3>3
    <3>5. call.script[call.i] # "abort-edit"
      <4>1. CASE call.i = Len(call.script)
        BY <3>2, <4>1
      <4>2. CASE call.i \in 1 .. Len(call.script) - 1
        BY <3>2, <4>2
      <4> QED
        BY <1>1, <3>1, <4>1, <4>2, Sizes
    <3> QED
      BY <3>4, <3>5
<1>5. CASE Sendable /\ PollDue /\ in # <<>> /\ GoOn("abort", in)
  <2>1. in \in Seq({"auth", "success", "failure", "info"})
    BY <1>1 DEF TypeOK
  <2>2. /\ TypeOK'
        /\ call'.no = call.no /\ call'.pc = "abort" /\ call'.script = call.script
        /\ call'.streamed = call.streamed /\ call'.i = call.i /\ call'.batch = call.batch
        /\ call'.sincePoll = call.sincePoll /\ call'.closed = call.closed
        /\ in' = in
        /\ UNCHANGED <<kept, up, out, srv, outcome, orphans, commits, late>>
    BY <1>1, <1>5, <2>1, GoOnFacts
  <2>3. ~call.closed /\ call.batch = <<>> /\ late <= BatchSize
    BY <1>1, <1>4, <1>5 DEF PollDue, IInv, LoopInv, LateInv, TypeOK, Held, Got
  <2>4. CallInv' /\ LinkInv' /\ LateInv' /\ OrphanInv'
    BY <1>1, <1>5, <2>2, <2>3
       DEF IInv, CallInv, LinkInv, LateInv, OrphanInv, Resting, Unstarted, Editing,
           Closing, NoEdit
  <2>5. LoopInv'
    BY <1>1, <2>2, <2>3 DEF IInv, LoopInv, Unstarted, Editing, Closing, Held, Got
  <2>6. AnswerInv' /\ InfoInv'
    BY <1>1, <2>2 DEF IInv, AnswerInv, InfoInv, NoEdit
  <2>7. EditInv'
    BY <1>1, <2>2, <2>3
       DEF IInv, EditInv, Editing, Closing, AtEdit, AtDrain, AtIdle, AbortSent, Held, Got
  <2> QED
    BY <2>2, <2>4, <2>5, <2>6, <2>7 DEF IInv
<1>6. CASE /\ Sendable /\ (PollDue => in = <<>> /\ up)
           /\ \E large \in BOOLEAN : call' = Batched(large)
           /\ UNCHANGED <<kept, up, out, in, srv, outcome, orphans, commits, late>>
  <2>0. PICK large \in BOOLEAN : call' = Batched(large)
    BY <1>6
  <2>1. /\ call'.no = call.no /\ call'.script = call.script /\ call'.streamed = call.streamed
        /\ call'.i = call.i + 1 /\ call'.batch = Append(call.batch, call.script[call.i])
        /\ call'.sincePoll = call.sincePoll + 1
        /\ call'.closed = (call.script[call.i] = "close-edit")
        /\ call'.pc = (IF large \/ call.sincePoll + 1 >= BatchSize THEN "flush" ELSE "next")
    BY <1>1, <2>0 DEF Batched, TypeOK
  <2>2. call.sincePoll = Held /\ call.sincePoll < BatchSize
    BY <1>1 DEF IInv, LoopInv
  <2>3. TypeOK'
    <3>1. call.script[call.i] \in EditorCommands /\ call.i + 1 \in Nat
      <4>1. call.i \in 1 .. Len(call.script)
        BY <1>1 DEF IInv, LoopInv, Editing, TypeOK
      <4> QED
        BY <1>1, <4>1 DEF TypeOK
    <3>2. call.sincePoll + 1 \in 0 .. BatchSize
      BY <1>1, <2>2, SizeAssumption DEF TypeOK
    <3>3. Append(call.batch, call.script[call.i]) \in Seq(EditorCommands)
      BY <1>1, <3>1 DEF TypeOK
    <3>4. call' = [call EXCEPT !.batch = Append(call.batch, call.script[call.i]),
                 !.i = call.i + 1, !.sincePoll = call.sincePoll + 1,
                 !.closed = (call.script[call.i] = "close-edit"),
                 !.pc = IF large \/ call.sincePoll + 1 >= BatchSize THEN "flush" ELSE "next"]
      BY <1>1, <2>0 DEF Batched, TypeOK
    <3>5. call' \in CallType
      BY <1>1, <3>1, <3>2, <3>3, <3>4 DEF TypeOK, CallType
    <3> QED
      BY <1>1, <1>6, <3>5 DEF TypeOK, CallType
  <2>4. CallInv' /\ LinkInv' /\ OrphanInv' /\ AnswerInv'
    BY <1>1, <1>6, <2>1 DEF IInv, CallInv, LinkInv, OrphanInv, Resting, NoEdit, AnswerInv
  <2>5. LoopInv'
    <3>1. /\ call.i \in 1 .. Len(call.script) /\ Held < call.i
          /\ \A k \in 1 .. Held :
                call.batch[k] = call.script[call.i - 1 - Held + k]
          /\ \A k \in 1 .. call.i - 1 :
                /\ call.script[k] # "abort-edit"
                /\ call.script[k] = "close-edit" => k = call.i - 1 /\ call.closed
      BY <1>1 DEF IInv, LoopInv, Editing, TypeOK
    <3>2. ~call.closed /\ call.script[call.i] # "abort-edit"
      BY <1>4, <1>6
    <3>3. /\ call'.i \in 1 .. Len(call'.script) + 1 /\ Held' < call'.i
          /\ \A k \in 1 .. Held' :
                call'.batch[k] = call'.script[call'.i - 1 - Held' + k]
      <4>1. /\ Held' = Held + 1 /\ call'.batch[Held + 1] = call.script[call.i]
            /\ \A k \in 1 .. Held : call'.batch[k] = call.batch[k]
        BY <1>1, <2>1, Sizes DEF Held
      <4>2. call'.i - 1 - Held' = call.i - 1 - Held /\ call'.i \in 1 .. Len(call'.script) + 1
        <5>1. call.i \in Nat /\ Held \in Nat /\ call'.i = call.i + 1 /\ Held' = Held + 1
          BY <1>1, <2>1, <4>1, Sizes
        <5>2. call'.i - 1 - Held' = call.i - 1 - Held
          BY <5>1
        <5>3. call'.i \in 1 .. Len(call'.script) + 1
          BY <2>1, <3>1
        <5> QED
          BY <5>2, <5>3
      <4>3. Held' < call'.i
        BY <1>1, <2>1, <3>1, <4>1, Sizes
      <4>4. \A k \in 1 .. Held' : k \in 1 .. Held \/ k = Held + 1
        BY <1>1, <4>1, Sizes
      <4>5. call.i - 1 - Held + (Held + 1) = call.i
        <5>1. call.i \in Nat /\ Held \in Nat
          BY <1>1, Sizes
        <5> QED
          BY <5>1
      <4> QED
        BY <2>1, <3>1, <4>1, <4>2, <4>3, <4>4, <4>5
    <3>4. \A k \in 1 .. call'.i - 1 :
                /\ call'.script[k] # "abort-edit"
                /\ call'.script[k] = "close-edit" => k = call'.i - 1 /\ call'.closed
      <4>1. \A k \in 1 .. call.i : k = call.i \/ k \in 1 .. call.i - 1
        BY <3>1
      <4>2. call'.i - 1 = call.i
        <5>1. call'.i = call.i + 1 /\ call.i \in Nat
          BY <2>1, <3>1
        <5> QED
          BY <5>1
      <4>3. \A k \in 1 .. call.i - 1 : call.script[k] \notin {"abort-edit", "close-edit"}
        BY <3>1, <3>2
      <4> QED
        BY <2>1, <3>2, <4>1, <4>2, <4>3
    <3>5. call'.closed => call'.i > 1 /\ call'.script[call'.i - 1] = "close-edit"
      <4>1. call'.i = call.i + 1 /\ call.i \in Nat /\ call.i >= 1
        BY <2>1, <3>1
      <4>2. call'.i - 1 = call.i /\ call'.i > 1
        BY <4>1
      <4> QED
        BY <2>1, <4>2
    <3>6. call'.pc = "next" => call'.sincePoll = Held' /\ call'.sincePoll < BatchSize
      BY <1>1, <2>1, <2>2, SizeAssumption DEF TypeOK, Held, Got
    <3>7. call'.pc \in {"flush", "next"}
          /\ (~call'.streamed => WellFormed(call'.script))
      BY <1>1, <2>1 DEF IInv, LoopInv
    <3> QED
      BY <3>3, <3>4, <3>5, <3>6, <3>7 DEF LoopInv, Unstarted, Closing
  <2>6. LateInv'
    <3>1. late = 0
      <4>1. (call.sincePoll > 0 => late = 0) /\ (up /\ in = <<>> => late = 0)
        BY <1>1 DEF IInv, LateInv, Editing
      <4>2. call.sincePoll > 0 \/ PollDue
        BY <1>1, Sizes DEF PollDue
      <4> QED
        BY <1>6, <4>1, <4>2, Zenon
    <3> QED
      BY <1>1, <1>6, <2>1, <2>2, <3>1, SizeAssumption DEF LateInv, Unstarted, Closing, TypeOK, Held, Got
  <2>7. InfoInv'
    BY <1>1, <1>6, <2>1 DEF IInv, InfoInv, NoEdit
  <2>8. EditInv'
    <3>1. call'.i - 1 - Held' = call.i - 1 - Held
      <4>1. Held' = Held + 1
        BY <1>1, <2>1, Sizes DEF Held, Got
      <4> QED
        <5>1. call.i \in Nat /\ Held \in Nat
          BY <1>1, Sizes
        <5>2. call'.i = call.i + 1
          BY <2>1
        <5> QED
          BY <4>1, <5>1, <5>2
    <3>2. ~call.closed /\ call.pc # "early" /\ call'.pc # "early"
      BY <1>1, <1>4, <1>6, <2>1
    <3> QED
      BY <1>1, <1>6, <2>1, <3>1, <3>2
         DEF IInv, EditInv, Editing, Closing, AtEdit, AtDrain, AtIdle, AbortSent, Held, Got
  <2> QED
    BY <2>3, <2>4, <2>5, <2>6, <2>7, <2>8 DEF IInv
<1> QED
  BY <1>2, <1>3, <1>5, <1>6

\* One command of the batch is written, in the loop or at its end.
WritePiece ==
    /\ call.pc \in {"flush", "final"} /\ call.batch # <<>>
    /\ Write(Head(call.batch), [call EXCEPT !.batch = Tail(@)])

\* A command moves from the batch to the pipe: the sum stays.
LEMMA WritePieceStep ==
    ASSUME IInv, WritePiece
    PROVE  IInv'
<1>1. TypeOK /\ call.pc \in {"flush", "final"} /\ call.batch # <<>>
  BY DEF IInv, WritePiece
<1>2. \/ Fail("eof")
      \/ /\ up /\ out' = Append(out, Head(call.batch))
         /\ call' = [call EXCEPT !.batch = Tail(call.batch)]
         /\ late' = IF in = <<>> THEN late ELSE late + 1
         /\ UNCHANGED <<kept, up, in, srv, outcome, orphans, commits>>
  BY Zenon DEF WritePiece, Write
<1>3. CASE Fail("eof")
  BY <1>1, <1>3, FailStep DEF Errors
<1>4. CASE up /\ out' = Append(out, Head(call.batch))
         /\ call' = [call EXCEPT !.batch = Tail(call.batch)]
         /\ late' = (IF in = <<>> THEN late ELSE late + 1)
         /\ UNCHANGED <<kept, up, in, srv, outcome, orphans, commits>>
  <2>1. /\ call'.no = call.no /\ call'.script = call.script /\ call'.streamed = call.streamed
        /\ call'.i = call.i /\ call'.batch = Tail(call.batch)
        /\ call'.sincePoll = call.sincePoll /\ call'.closed = call.closed
        /\ call'.pc = call.pc
    BY <1>1, <1>4 DEF TypeOK
  <2>2. /\ Tail(call.batch) \in Seq(EditorCommands) /\ Head(call.batch) = call.batch[1]
        /\ Held \in Nat \ {0} /\ Len(Tail(call.batch)) = Held - 1
        /\ \A k \in 1 .. Held - 1 : Tail(call.batch)[k] = call.batch[k + 1]
        /\ call.batch[1] \in EditorCommands
    BY <1>1 DEF TypeOK, Held, Got
  <2>3. TypeOK'
    <3>1. call' \in CallType
      BY <1>1, <1>4, <2>2 DEF TypeOK, CallType
    <3>2. out' \in Seq(EditorCommands \cup {"commit"})
      BY <1>1, <1>4, <2>2 DEF TypeOK
    <3>3. late' \in Nat
      BY <1>1, <1>4 DEF TypeOK
    <3> QED
      BY <1>1, <1>4, <3>1, <3>2, <3>3 DEF TypeOK, CallType
  <2>4. CallInv' /\ LinkInv' /\ OrphanInv' /\ AnswerInv'
    BY <1>1, <1>4, <2>1 DEF IInv, CallInv, LinkInv, OrphanInv, Resting, NoEdit, AnswerInv
  <2>5. /\ call.i \in 1 .. Len(call.script) + 1 /\ Held < call.i
        /\ \A k \in 1 .. Held :
              call.batch[k] = call.script[call.i - 1 - Held + k]
        /\ \A k \in 1 .. call.i - 1 :
              /\ call.script[k] # "abort-edit"
              /\ call.script[k] = "close-edit" => k = call.i - 1 /\ call.closed
    BY <1>1 DEF IInv, LoopInv, Editing
  <2>6. LoopInv'
    <3>1. /\ call'.i \in 1 .. Len(call'.script) + 1 /\ Held' < call'.i
          /\ \A k \in 1 .. Held' :
                call'.batch[k] = call'.script[call'.i - 1 - Held' + k]
      <4>1. Held' = Held - 1 /\ call'.i \in 1 .. Len(call'.script) + 1
        BY <2>1, <2>2, <2>5 DEF Held, Got
      <4>2. ASSUME NEW k \in 1 .. Held'
            PROVE  call'.batch[k] = call'.script[call'.i - 1 - Held' + k]
        <5>1. k \in 1 .. Held - 1 /\ k + 1 \in 1 .. Held
          BY <1>1, <4>1, Sizes
        <5>2. call'.batch[k] = call.batch[k + 1]
          BY <2>1, <2>2, <5>1
        <5>3. call.batch[k + 1] = call.script[call.i - 1 - Held + (k + 1)]
          BY <2>5, <5>1
        <5>4. call.i - 1 - Held + (k + 1) = call'.i - 1 - Held' + k
          <6>1. call.i \in Nat /\ Held \in Nat /\ k \in Nat
            BY <1>1, Sizes
          <6>2. call'.i = call.i /\ Held' = Held - 1
            BY <2>1, <4>1
          <6> QED
            BY <6>1, <6>2
        <5> QED
          BY <2>1, <5>2, <5>3, <5>4
      <4> QED
        BY <1>1, <2>1, <2>5, <4>1, <4>2, Sizes DEF Held, Got
    <3>2. \A k \in 1 .. call'.i - 1 :
              /\ call'.script[k] # "abort-edit"
              /\ call'.script[k] = "close-edit" => k = call'.i - 1 /\ call'.closed
      BY <2>1, <2>5
    <3> QED
      BY <1>1, <2>1, <3>1, <3>2 DEF IInv, LoopInv, Unstarted, Editing, Closing
  <2>7. LateInv'
    <3>1. late + Held <= BatchSize /\ (in = <<>> => late = 0)
      BY <1>1, <1>4 DEF IInv, LateInv, Editing
    <3> QED
      <4>1. /\ late' = late \/ (late' = late + 1 /\ in # <<>>)
            /\ Held' = Held - 1
        BY <1>4, <2>1, <2>2 DEF Held, Got
      <4>2. late' + Held' <= BatchSize /\ late' <= BatchSize + 1
        BY <1>1, <2>2, <3>1, <4>1, Sizes
      <4>3. in' = in /\ (in = <<>> => late' = 0)
        BY <1>4, <3>1
      <4> QED
        BY <1>1, <2>1, <4>2, <4>3 DEF LateInv, Unstarted
  <2>8. InfoInv'
    BY <1>4, <2>1 DEF IInv, InfoInv, NoEdit
  <2>9. EditInv'
    <3>1. Head(call.batch) # "abort-edit"
      <4>1. call.batch[1] = call.script[call.i - 1 - Held + 1]
        BY <2>2, <2>5
      <4>2. call.i - 1 - Held + 1 \in 1 .. call.i - 1
        <5>1. call.i \in Nat /\ Held \in Nat
          BY <1>1, Sizes
        <5>2. Held >= 1 /\ Held < call.i
          BY <2>2, <2>5, <5>1
        <5> QED
          BY <5>1, <5>2
      <4> QED
        BY <2>2, <2>5, <4>1, <4>2
    <3>2. srv.at # "idle"
      BY <1>1, <1>4 DEF IInv, EditInv, AtIdle, Editing
    <3>3. CASE srv.at = "edit"
      <4>1. AtEdit /\ AbortSent = 0 /\ AbortSent' = 0
        BY <1>1, <1>4, <2>1, <3>3 DEF IInv, EditInv, Editing, AbortSent
      <4>2. /\ Len(out) \in Nat /\ Got \in Nat /\ Len(out') = Len(out) + 1
            /\ \A k \in 1 .. Len(out) : out'[k] = out[k]
            /\ out'[Len(out) + 1] = Head(call.batch)
        BY <1>1, <1>4 DEF TypeOK, Held, Got
      <4>3. Got + Len(out) + Held = call.i - 1
        <5>1. Got + Len(out) = call.i - 1 - Held + 0
          BY <4>1 DEF AtEdit
        <5> QED
          <6>1. /\ call.i \in Nat /\ Held \in Nat
                /\ Len(out) \in Nat /\ Got \in Nat
            BY <1>1, Sizes
          <6> QED
            BY <5>1, <6>1
      <4>4. Head(call.batch) = call.script[Got + Len(out) + 1]
        <5>1. call.batch[1] = call.script[call.i - 1 - Held + 1]
          BY <2>2, <2>5
        <5>2. call.i - 1 - Held + 1 = Got + Len(out) + 1
          <6>1. /\ call.i \in Nat /\ Held \in Nat
                /\ Len(out) \in Nat /\ Got \in Nat
            BY <1>1, Sizes
          <6> QED
            BY <4>3, <6>1
        <5> QED
          BY <2>2, <5>1, <5>2
      <4>5. \A k \in 1 .. Len(out') : out'[k] = call.script[Got + k]
        <5>1. \A k \in 1 .. Len(out) : out[k] = call.script[Got + k]
          BY <1>1, <4>1 DEF AtEdit
        <5>2. \A k \in 1 .. Len(out') : k \in 1 .. Len(out) \/ k = Len(out) + 1
          BY <4>2
        <5>3. Got + Len(out) + 1 = Got + (Len(out) + 1)
          <6>1. Len(out) \in Nat /\ Got \in Nat
            BY <4>2
          <6> QED
            BY <6>1
        <5> QED
          BY <4>2, <4>4, <5>1, <5>2, <5>3
      <4>6. Got + Len(out') = call.i - 1 - Held'
        BY <1>1, <2>1, <2>2, <4>2, <4>3 DEF TypeOK, Held, Got
      <4>7. AtEdit'
        <5>1. /\ call'.pc # "early" /\ srv' = srv /\ in' = in /\ commits'[call'.no] = 0
              /\ \A k \in 1 .. Got : srv.got[k] = call.script[k]
              /\ \A k \in 1 .. Len(in) : in[k] = "success"
          BY <1>1, <1>4, <2>1, <4>1 DEF AtEdit
        <5>2. Got' + Len(out') = call'.i - 1 - Held' + AbortSent'
          BY <1>1, <2>1, <2>2, <4>1, <4>6, <5>1, Sizes DEF Held, Got
        <5> QED
          BY <2>1, <4>5, <5>1, <5>2 DEF AtEdit, Held, Got
      <4> QED
        BY <1>4, <3>3, <4>7 DEF EditInv
    <3>4. CASE srv.at = "drain"
      <4>1. AtDrain
        BY <1>1, <1>4, <3>4 DEF IInv, EditInv, Editing
      <4>2. AtDrain'
        BY <1>1, <1>4, <2>1, <3>1, <4>1, SMTT(30) DEF AtDrain, TypeOK
      <4> QED
        BY <1>4, <3>4, <4>2 DEF EditInv
    <3> QED
      BY <1>1, <3>2, <3>3, <3>4 DEF TypeOK
  <2> QED
    BY <2>3, <2>4, <2>6, <2>7, <2>8, <2>9 DEF IInv
<1> QED
  BY <1>2, <1>3, <1>4

\* A full batch is written, and the next one begins.
LEMMA FlushStep ==
    ASSUME IInv, Flush
    PROVE  IInv'
<1>1. TypeOK /\ call.pc = "flush"
  BY DEF Flush, IInv
<1>2. CASE call.batch # <<>>
  <2>1. WritePiece
    BY <1>1, <1>2, Zenon DEF Flush, WritePiece
  <2> QED
    BY <2>1, WritePieceStep
<1>3. CASE call.batch = <<>>
  <2>1. /\ call' = [call EXCEPT !.sincePoll = 0,
                       !.pc = IF call.i > Len(call.script) THEN "end" ELSE "next"]
        /\ UNCHANGED <<kept, up, out, in, srv, outcome, orphans, commits, late>>
    BY <1>3, Zenon DEF Flush, SincePollReset
  <2>2. /\ call'.no = call.no /\ call'.script = call.script /\ call'.streamed = call.streamed
        /\ call'.i = call.i /\ call'.batch = call.batch
        /\ call'.sincePoll = 0 /\ call'.closed = call.closed
        /\ call'.pc \in {"end", "next"}
    BY <1>1, <2>1 DEF TypeOK
  <2>3. TypeOK'
    <3>1. call' \in CallType
      <4> DEFINE place == IF call.i > Len(call.script) THEN "end" ELSE "next"
      <4>2. call' = [call EXCEPT !.sincePoll = 0, !.pc = place]
        BY <2>1
      <4>3. place \in {"end", "next"} /\ 0 \in 0 .. BatchSize
        BY SizeAssumption
      <4> HIDE DEF place
      <4> QED
        BY <1>1, <4>2, <4>3 DEF TypeOK, CallType
    <3> QED
      BY <1>1, <2>1, <3>1 DEF TypeOK, CallType
  <2>4. Held = 0 /\ Held' = 0
    BY <1>3, <2>2 DEF Held
  <2>5. CallInv' /\ LinkInv' /\ OrphanInv' /\ AnswerInv' /\ InfoInv'
    BY <1>1, <2>1, <2>2
       DEF IInv, CallInv, LinkInv, OrphanInv, Resting, NoEdit, AnswerInv, InfoInv
  <2>6. LoopInv'
    BY <1>1, <1>3, <2>2, <2>4, Sizes, SMTT(30) DEF IInv, LoopInv, Unstarted, Editing, Closing
  <2>7. LateInv'
    BY <1>1, <2>1, <2>2, <2>4, Sizes DEF IInv, LateInv, Unstarted, Editing
  <2>8. EditInv'
    BY <1>1, <2>1, <2>2, <2>4
       DEF IInv, EditInv, Editing, Closing, AtEdit, AtDrain, AtIdle, AbortSent, Got
  <2> QED
    BY <2>3, <2>5, <2>6, <2>7, <2>8 DEF IInv
<1> QED
  BY <1>2, <1>3

\* The rest of the batch is written.
LEMMA FinalFlushStep ==
    ASSUME IInv, FinalFlush
    PROVE  IInv'
<1>1. WritePiece
  BY Zenon DEF FinalFlush, WritePiece
<1> QED
  BY <1>1, WritePieceStep

\* The client has seen an answer and gives up the edit.
LEMMA SendAbortStep ==
    ASSUME IInv, SendAbort
    PROVE  IInv'
<1>1. TypeOK /\ call.pc = "abort"
  BY DEF SendAbort, IInv
<1>2. \/ Fail("eof")
      \/ /\ up /\ out' = Append(out, "abort-edit")
         /\ call' = [call EXCEPT !.pc = "early"]
         /\ late' = IF in = <<>> THEN late ELSE late + 1
         /\ UNCHANGED <<kept, up, in, srv, outcome, orphans, commits>>
  BY Zenon DEF SendAbort, Write
<1>3. CASE Fail("eof")
  BY <1>1, <1>3, FailStep DEF Errors
<1>4. CASE up /\ out' = Append(out, "abort-edit")
         /\ call' = [call EXCEPT !.pc = "early"]
         /\ late' = (IF in = <<>> THEN late ELSE late + 1)
         /\ UNCHANGED <<kept, up, in, srv, outcome, orphans, commits>>
  <2>1. /\ call'.no = call.no /\ call'.script = call.script /\ call'.streamed = call.streamed
        /\ call'.i = call.i /\ call'.batch = call.batch
        /\ call'.sincePoll = call.sincePoll /\ call'.closed = call.closed
        /\ call'.pc = "early"
    BY <1>1, <1>4 DEF TypeOK
  <2>2. TypeOK'
    <3>1. call' \in CallType
      BY <1>1, <1>4 DEF TypeOK, CallType
    <3>2. out' \in Seq(EditorCommands \cup {"commit"})
      BY <1>1, <1>4 DEF TypeOK, EditorCommands
    <3>3. late' \in Nat
      BY <1>1, <1>4 DEF TypeOK
    <3> QED
      BY <1>1, <1>4, <3>1, <3>2, <3>3 DEF TypeOK, CallType
  <2>3. Held' = Held /\ Got' = Got
    BY <1>4, <2>1 DEF Held, Got
  <2>4. CallInv' /\ LinkInv' /\ OrphanInv' /\ AnswerInv' /\ InfoInv'
    BY <1>1, <1>4, <2>1
       DEF IInv, CallInv, LinkInv, OrphanInv, Resting, NoEdit, AnswerInv, InfoInv
  <2>5. LoopInv'
    BY <1>1, <2>1, <2>3 DEF IInv, LoopInv, Unstarted, Editing, Closing
  <2>6. LateInv'
    <3>1. late <= BatchSize /\ (in = <<>> => late = 0)
      BY <1>1, <1>4 DEF IInv, LateInv, Editing
    <3> QED
      BY <1>1, <1>4, <2>1, <3>1, Sizes DEF LateInv, Unstarted
  <2>7. EditInv'
    <3>1. srv.at # "idle"
      BY <1>1, <1>4 DEF IInv, EditInv, AtIdle, Editing, LoopInv
    <3>2. /\ Len(out) \in Nat /\ Len(out') = Len(out) + 1
          /\ \A k \in 1 .. Len(out) : out'[k] = out[k]
          /\ out'[Len(out) + 1] = "abort-edit"
          /\ \A k \in 1 .. Len(out') : k \in 1 .. Len(out) \/ k = Len(out')
      BY <1>1, <1>4, Sizes, SMTT(30) DEF TypeOK
    <3>3. CASE srv.at = "edit"
      <4>1. AtEdit /\ AbortSent = 0 /\ AbortSent' = 1
        BY <1>1, <1>4, <2>1, <3>3 DEF IInv, EditInv, Editing, AbortSent
      <4>2. Got' + Len(out') = call'.i - 1 - Held' + AbortSent'
        BY <1>1, <2>1, <2>3, <3>2, <4>1, Sizes DEF AtEdit
      <4>3. \A k \in 1 .. Len(out') :
              out'[k] = IF k = Len(out') THEN "abort-edit" ELSE call.script[Got + k]
        BY <1>1, <3>2, <4>1, Sizes DEF AtEdit
      <4>4. out' # <<>> /\ srv' = srv /\ in' = in /\ commits'[call'.no] = 0
        BY <1>4, <2>1, <3>2, <4>1 DEF AtEdit
      <4>5. AtEdit'
        BY <2>1, <2>3, <4>1, <4>2, <4>3, <4>4 DEF AtEdit
      <4> QED
        BY <1>4, <3>3, <4>5 DEF EditInv
    <3>4. CASE srv.at = "drain"
      <4>1. AtDrain
        BY <1>1, <1>4, <3>4 DEF IInv, EditInv, Editing
      <4>2. AtDrain'
        BY <1>1, <2>1, <3>2, <4>1 DEF AtDrain
      <4> QED
        BY <1>4, <3>4, <4>2 DEF EditInv
    <3> QED
      BY <1>1, <3>1, <3>3, <3>4 DEF TypeOK
  <2> QED
    BY <2>2, <2>4, <2>5, <2>6, <2>7 DEF IInv
<1> QED
  BY <1>2, <1>3, <1>4

\* The commands are at an end.
LEMMA FinishStep ==
    ASSUME IInv, Finish
    PROVE  IInv'
<1>1. TypeOK /\ call.pc \in {"next", "end"}
  BY DEF Finish, IInv
<1>2. CASE Fail("protocol")
  BY <1>1, <1>2, FailStep DEF Errors
<1>3. CASE EndAllowed /\ GoOn("final", in)
  <2>1. in \in Seq({"auth", "success", "failure", "info"})
    BY <1>1 DEF TypeOK
  <2>2. /\ TypeOK'
        /\ call'.no = call.no /\ call'.pc = "final" /\ call'.script = call.script
        /\ call'.streamed = call.streamed /\ call'.i = call.i /\ call'.batch = call.batch
        /\ call'.sincePoll = call.sincePoll /\ call'.closed = call.closed
        /\ in' = in
        /\ UNCHANGED <<kept, up, out, srv, outcome, orphans, commits, late>>
    BY <1>1, <1>3, <2>1, GoOnFacts
  <2>3. Held' = Held /\ Got' = Got /\ call.closed
    BY <1>3, <2>2 DEF Held, Got, EndAllowed
  <2>4. CallInv' /\ LinkInv' /\ OrphanInv' /\ AnswerInv' /\ InfoInv'
    BY <1>1, <2>2
       DEF IInv, CallInv, LinkInv, OrphanInv, Resting, NoEdit, AnswerInv, InfoInv
  <2>5. LoopInv'
    BY <1>1, <2>2, <2>3 DEF IInv, LoopInv, Unstarted, Editing, Closing
  <2>6. LateInv'
    <3>1. late + Held <= BatchSize /\ (up /\ in = <<>> => late = 0)
      <4>1. CASE call.pc = "next"
        BY <1>1, <4>1, Sizes DEF IInv, LateInv, LoopInv, Editing
      <4>2. CASE call.pc = "end"
        BY <1>1, <4>2, Sizes DEF IInv, LateInv, LoopInv, Editing, Held
      <4> QED
        BY <1>1, <4>1, <4>2
    <3> QED
      BY <1>1, <2>2, <2>3, <3>1, Sizes DEF IInv, LateInv, Unstarted
  <2>7. EditInv'
    BY <1>1, <2>2, <2>3
       DEF IInv, EditInv, Editing, Closing, AtEdit, AtDrain, AtIdle, AbortSent
  <2> QED
    BY <2>2, <2>4, <2>5, <2>6, <2>7 DEF IInv
<1> QED
  BY <1>2, <1>3 DEF Finish

\* The edit is accepted.
LEMMA ReadStatusStep ==
    ASSUME IInv, ReadStatus
    PROVE  IInv'
<1>1. TypeOK /\ call.pc = "final" /\ call.batch = <<>> /\ in # <<>>
  BY DEF ReadStatus, IInv
<1>2. CASE Fail("server")
  BY <1>1, <1>2, FailStep DEF Errors
<1>3. CASE Head(in) = "success" /\ GoOn("auth2", Tail(in))
  <2>1. /\ Tail(in) \in Seq({"auth", "success", "failure", "info"})
        /\ Len(in) \in Nat /\ Len(Tail(in)) = Len(in) - 1
        /\ \A k \in 1 .. Len(Tail(in)) : Tail(in)[k] = in[k + 1]
    BY <1>1, RestOfIn
  <2>2. /\ TypeOK'
        /\ call'.no = call.no /\ call'.pc = "auth2" /\ call'.script = call.script
        /\ call'.streamed = call.streamed /\ call'.i = call.i /\ call'.batch = call.batch
        /\ call'.sincePoll = call.sincePoll /\ call'.closed = call.closed
        /\ in' = Tail(in)
        /\ UNCHANGED <<kept, up, out, srv, outcome, orphans, commits, late>>
    BY <1>1, <1>3, <2>1, GoOnFacts
  <2>3. Held' = Held /\ Got' = Got /\ call.closed
    BY <1>1, <2>2 DEF Held, Got, IInv, LoopInv
  <2>4. CallInv' /\ LinkInv' /\ LateInv' /\ OrphanInv' /\ AnswerInv'
    BY <1>1, <2>2
       DEF IInv, CallInv, LinkInv, LateInv, OrphanInv, AnswerInv, Resting, Unstarted,
           Editing, NoEdit
  <2>5. LoopInv'
    BY <1>1, <2>2, <2>3 DEF IInv, LoopInv, Unstarted, Editing, Closing
  <2>6. \A k \in 1 .. Len(in') :
           k + 1 \in 1 .. Len(in) /\ in'[k] = in[k + 1] /\ (k + 1 = Len(in) => k = Len(in'))
    <3>1. /\ Len(in) \in Nat /\ Len(in') = Len(in) - 1
          /\ \A k \in 1 .. Len(in) - 1 : in'[k] = in[k + 1]
      BY <2>1, <2>2
    <3> QED
      BY <3>1
  <2>7. InfoInv'
    BY <1>1, <2>2, <2>6 DEF IInv, InfoInv, NoEdit
  <2>8. EditInv'
    BY <1>1, <2>2, <2>3, <2>6
       DEF IInv, EditInv, Editing, Closing, AtEdit, AtDrain, AtIdle, AbortSent
  <2> QED
    BY <2>2, <2>4, <2>5, <2>7, <2>8 DEF IInv
<1> QED
  BY <1>2, <1>3 DEF ReadStatus

\* The new revision is read, and the connection kept.
LEMMA ReadInfoStep ==
    ASSUME IInv, ReadInfo
    PROVE  IInv'
<1>1. TypeOK /\ call.pc = "info" /\ in # <<>> /\ call.no \in CallIds
  BY DEF ReadInfo, IInv, CallInv
<1>2. CASE Fail("protocol")
  BY <1>1, <1>2, FailStep DEF Errors
<1>3. CASE Head(in) = "info" /\ call' = [call EXCEPT !.pc = "idle"] /\ in' = Tail(in)
           /\ outcome' = [outcome EXCEPT ![call.no] = "ok"]
           /\ UNCHANGED <<kept, up, out, srv, orphans, commits, late>>
  <2>1. /\ Len(in) = 1 /\ call.no \notin orphans /\ srv = NoEdit
    <3>1. Len(in) \in Nat /\ Len(in) > 0 /\ in[1] = "info"
      BY <1>1, <1>3, RestOfIn
    <3> QED
      BY <3>1 DEF IInv, InfoInv
  <2>2. in' = <<>>
    <3>1. Tail(in) \in Seq({"auth", "success", "failure", "info"}) /\ Len(Tail(in)) = 0
      BY <1>1, <2>1, RestOfIn
    <3> QED
      BY <1>3, <3>1, EmptySeq
  <2>3. /\ call'.no = call.no /\ call'.pc = "idle" /\ call'.script = call.script
        /\ call'.streamed = call.streamed /\ call'.i = call.i /\ call'.batch = call.batch
        /\ call'.sincePoll = call.sincePoll /\ call'.closed = call.closed
    BY <1>1, <1>3 DEF TypeOK
  <2>4. TypeOK'
    <3>1. call' \in CallType
      BY <1>1, <1>3 DEF TypeOK, CallType
    <3>2. outcome' \in [CallIds -> Errors \cup {"none", "open", "ok"}]
      BY <1>1, <1>3 DEF TypeOK
    <3>3. in' \in Seq({"auth", "success", "failure", "info"})
      BY <2>2
    <3> QED
      BY <1>1, <1>3, <3>1, <3>2, <3>3 DEF TypeOK, CallType
  <2>5. out = <<>>
    BY <1>1, <2>1 DEF IInv, LinkInv, EditInv, Closing, AtIdle, NoEdit
  <2>6. CallInv' /\ LinkInv'
    BY <1>1, <1>3, <2>1, <2>2, <2>3, <2>5 DEF IInv, CallInv, LinkInv, NoEdit, TypeOK
  <2>7. LoopInv' /\ LateInv' /\ AnswerInv' /\ EditInv'
    BY <1>1, <1>3, <2>3
       DEF IInv, LoopInv, LateInv, AnswerInv, EditInv, Unstarted, Editing, Closing
  <2>8. InfoInv'
    BY <1>3, <2>1, <2>2, <2>3 DEF IInv, InfoInv, NoEdit
  <2>9. OrphanInv'
    BY <1>1, <1>3, <2>1, <2>3 DEF IInv, OrphanInv, TypeOK
  <2> QED
    BY <2>4, <2>6, <2>7, <2>8, <2>9 DEF IInv
<1> QED
  BY <1>2, <1>3, Zenon DEF ReadInfo

\* A method that ends with an error, whatever it was waiting for.
LEMMA FailingStep ==
    ASSUME IInv, RefuseOptions \/ ReadEarlyStatus \/ CallerFails \/ ReadEof \/ TimesOut
    PROVE  IInv'
<1>1. (\E err \in Errors : Fail(err)) /\ call.pc # "idle"
  BY Zenon DEF RefuseOptions, ReadEarlyStatus, CallerFails, ReadEof, TimesOut, Reading, Errors
<1> QED
  BY <1>1, FailStep

-----------------------------------------------------------------------------
(* Steps of the server.                                                    *)

\* The server takes a commit command, or refuses it.
LEMMA SrvCommitStep ==
    ASSUME IInv, SrvCommit
    PROVE  IInv'
<1>1. /\ srv.at = "idle" /\ out # <<>> /\ up /\ out' = Tail(out)
      /\ UNCHANGED <<call, kept, up, outcome, orphans, late, commits>>
      /\ \/ in' = in \o <<"auth", "success">> /\ srv' = [NoEdit EXCEPT !.at = "edit"]
         \/ in' = in \o <<"auth", "failure">> /\ srv' = NoEdit
         \/ in' = in \o <<"failure">> /\ srv' = NoEdit
  BY Zenon DEF SrvCommit, Serve
<1>2. TypeOK
  BY DEF IInv
<1>3. call.pc = "auth"
  BY <1>1, <1>2 DEF IInv, LinkInv, AnswerInv, EditInv, AtIdle, Resting, Editing, Closing, TypeOK
<1>4. out = <<"commit">> /\ in = <<>>
  BY <1>1, <1>3 DEF IInv, AnswerInv, Fresh, NoEdit
<1>5. /\ out' = <<>>
      /\ \/ in' = <<"auth", "success">> /\ srv' = Fresh
         \/ in' \in {<<"auth", "failure">>, <<"failure">>} /\ srv' = NoEdit
  <2>1. Tail(<<"commit">>) = <<>>
    OBVIOUS
  <2>2. /\ <<>> \o <<"auth", "success">> = <<"auth", "success">>
        /\ <<>> \o <<"auth", "failure">> = <<"auth", "failure">>
        /\ <<>> \o <<"failure">> = <<"failure">>
    OBVIOUS
  <2> QED
    BY <1>1, <1>4, <2>1, <2>2 DEF Fresh
<1>6. TypeOK'
  <2>1. srv' \in [at : {"idle", "edit", "drain"}, got : Seq(EditorCommands)]
    <3>1. NoEdit \in [at : {"idle", "edit", "drain"}, got : Seq(EditorCommands)]
      BY DEF NoEdit
    <3>2. Fresh \in [at : {"idle", "edit", "drain"}, got : Seq(EditorCommands)]
      <4>1. Fresh = [at |-> "edit", got |-> <<>>]
        BY DEF Fresh, NoEdit
      <4> QED
        BY <4>1
    <3> QED
      BY <1>5, <3>1, <3>2
  <2>2. in' \in Seq({"auth", "success", "failure", "info"})
    <3>1. /\ <<"auth", "success">> \in Seq({"auth", "success", "failure", "info"})
          /\ <<"auth", "failure">> \in Seq({"auth", "success", "failure", "info"})
          /\ <<"failure">> \in Seq({"auth", "success", "failure", "info"})
      OBVIOUS
    <3> QED
      BY <1>5, <3>1
  <2>3. out' \in Seq(EditorCommands \cup {"commit"})
    BY <1>5
  <2> QED
    BY <1>1, <1>2, <2>1, <2>2, <2>3 DEF TypeOK
<1>7. CallInv' /\ OrphanInv' /\ LinkInv' /\ LoopInv' /\ LateInv'
  BY <1>1, <1>3, <1>5
     DEF IInv, CallInv, OrphanInv, LinkInv, LoopInv, LateInv, Resting, Unstarted,
         Editing, Closing, Held
<1>8. AnswerInv' /\ EditInv'
  <2>1. \A k \in 1 .. Len(in') : in'[k] # "info"
    BY <1>5
  <2> QED
    BY <1>1, <1>3, <1>5, <2>1 DEF AnswerInv, EditInv, Editing, Closing
<1>9. InfoInv'
  <2>1. \A k \in 1 .. Len(in') : in'[k] # "info"
    BY <1>5
  <2>2. commits[call.no] = 0 /\ call.no \notin orphans
    BY <1>1, <1>3 DEF IInv, InfoInv
  <2> QED
    BY <1>1, <2>1, <2>2 DEF InfoInv
<1> QED
  BY <1>6, <1>7, <1>8, <1>9 DEF IInv

\* What is on its way to a server with an edit in hand.
LEMMA EditShape ==
    ASSUME IInv, up, srv.at = "edit", out # <<>>
    PROVE  /\ AtEdit /\ call.pc \notin {"idle", "check", "command", "auth", "reply"}
           /\ Len(out) \in Nat /\ Len(out) > 0 /\ Head(out) = out[1]
           /\ Len(Tail(out)) = Len(out) - 1
           /\ \A k \in 1 .. Len(out) - 1 : Tail(out)[k] = out[k + 1]
           /\ \A k \in 1 .. Len(out) : out[k] = "abort-edit" => k = Len(out) /\ call.pc = "early"
           /\ Head(out) = "close-edit" =>
                Len(out) = 1 /\ call.closed /\ call.batch = <<>> /\ call.i = Got + 2
<1>1. TypeOK
  BY DEF IInv
<1>2. call.pc \notin {"idle", "check", "command", "auth", "reply"}
  BY DEF IInv, LinkInv, AnswerInv, Resting, NoEdit
<1>3. Editing \/ Closing
  BY <1>1, <1>2 DEF Editing, Closing, TypeOK
<1>4. AtEdit
  BY <1>3 DEF IInv, EditInv
<1>5. /\ Len(out) \in Nat /\ Len(out) > 0 /\ Head(out) = out[1]
      /\ Len(Tail(out)) = Len(out) - 1
      /\ \A k \in 1 .. Len(out) - 1 : Tail(out)[k] = out[k + 1]
  BY <1>1 DEF TypeOK
<1>6. Got + Len(out) = call.i - 1 - Held + AbortSent
  BY <1>4 DEF AtEdit
<1>7. \A k \in 1 .. Len(out) :
        \/ k = Len(out) /\ call.pc = "early"
        \/ Got + k \in 1 .. call.i - 1 /\ out[k] = call.script[Got + k]
  <2> SUFFICES ASSUME NEW k \in 1 .. Len(out), ~(k = Len(out) /\ call.pc = "early")
               PROVE  Got + k \in 1 .. call.i - 1 /\ out[k] = call.script[Got + k]
    OBVIOUS
  <2>1. out[k] = call.script[Got + k]
    BY <1>4 DEF AtEdit
  <2>2. Got + k \in 1 .. call.i - 1
    <3>1. call.i \in Nat /\ Held \in Nat /\ Got \in Nat
      BY <1>1, Sizes
    <3>2. k + AbortSent <= Len(out) /\ AbortSent \in Nat
      <4>1. CASE call.pc = "early"
        <5>1. AbortSent = 1 /\ k # Len(out) /\ Len(out) \in Nat
          BY <1>5, <4>1 DEF AbortSent
        <5> QED
          BY <5>1
      <4>2. CASE call.pc # "early"
        <5>1. AbortSent = 0 /\ Len(out) \in Nat
          BY <1>5, <4>2 DEF AbortSent
        <5> QED
          BY <5>1
      <4> QED
        BY <4>1, <4>2
    <3>3. Got + k + AbortSent <= Got + Len(out)
      <4>2. Len(out) \in Nat
        BY <1>5
      <4>1. Len(out) \in Nat /\ k \in Nat
        BY <4>2
      <4> QED
        BY <3>1, <3>2, <4>1
    <3>4. Got + k <= call.i - 1 - Held
      <4>2. Len(out) \in Nat
        BY <1>5
      <4>1. Len(out) \in Nat /\ k \in Nat
        BY <4>2
      <4> QED
        BY <1>6, <3>1, <3>2, <3>3, <4>1
    <3> QED
      BY <3>1, <3>4
  <2> QED
    BY <2>1, <2>2
<1>8. \A k \in 1 .. call.i - 1 :
        /\ call.script[k] # "abort-edit"
        /\ call.script[k] = "close-edit" => k = call.i - 1 /\ call.closed
  BY <1>3 DEF IInv, LoopInv
<1>9. \A k \in 1 .. Len(out) : out[k] = "abort-edit" => k = Len(out) /\ call.pc = "early"
  BY <1>7, <1>8
<1>10. ASSUME Head(out) = "close-edit"
       PROVE  Len(out) = 1 /\ call.closed /\ call.batch = <<>> /\ call.i = Got + 2
  <2>1. ~(1 = Len(out) /\ call.pc = "early")
    <3>1. 1 = Len(out) /\ call.pc = "early" => out[1] = "abort-edit"
      <4>1. \A k \in 1 .. Len(out) : k = Len(out) /\ call.pc = "early" => out[k] = "abort-edit"
        BY <1>4 DEF AtEdit
      <4>2. 1 \in 1 .. Len(out)
        BY <1>5
      <4> QED
        BY <4>1, <4>2
    <3> QED
      BY <1>5, <1>10, <3>1
  <2>2. Got + 1 = call.i - 1 /\ call.closed
    <3>1. 1 \in 1 .. Len(out) /\ out[1] = "close-edit"
      BY <1>5, <1>10
    <3>2. Got + 1 \in 1 .. call.i - 1 /\ call.script[Got + 1] = "close-edit"
      BY <1>7, <2>1, <3>1
    <3> QED
      BY <1>8, <3>2
  <2>3. call.pc # "early"
    BY <2>2 DEF IInv, LoopInv
  <2>4. Len(out) = 1 /\ Held = 0
    <3>1. call.i \in Nat /\ Held \in Nat /\ Got \in Nat
      BY <1>1, Sizes
    <3>2. AbortSent = 0
      BY <2>3 DEF AbortSent
    <3> QED
      BY <1>5, <1>6, <2>2, <3>1, <3>2
  <2>5. call.batch = <<>>
    BY <1>1, <2>4, EmptySeq DEF Held, TypeOK
  <2>6. call.i = Got + 2
    <3>1. call.i \in Nat /\ Got \in Nat
      BY <1>1, Sizes
    <3> QED
      BY <2>2, <3>1
  <2> QED
    BY <2>2, <2>4, <2>5, <2>6
<1> QED
  BY <1>2, <1>4, <1>5, <1>9, <1>10

\* What a step of the server on an edit leaves as it was.
LEMMA ServeKeeps ==
    ASSUME IInv, up, call.pc \notin {"idle", "check", "command", "auth", "reply"},
           UNCHANGED <<call, kept, up, outcome, orphans, late>>, in' = <<>> => in = <<>>
    PROVE  LinkInv' /\ LoopInv' /\ LateInv' /\ AnswerInv'
<1>1. LinkInv'
  BY DEF IInv, LinkInv, Resting
<1>2. LoopInv'
  BY DEF IInv, LoopInv, Unstarted, Editing, Closing, Held
<1>3. LateInv'
  BY DEF IInv, LateInv, Unstarted, Editing, Closing, Held
<1>4. AnswerInv'
  BY DEF AnswerInv
<1> QED
  BY <1>1, <1>2, <1>3, <1>4

\* The server takes a command of the edit, or fails.
LEMMA SrvCommandStep ==
    ASSUME IInv, SrvCommand
    PROVE  IInv'
<1>1. /\ srv.at = "edit" /\ out # <<>> /\ Head(out) = "open" /\ up /\ out' = Tail(out)
      /\ UNCHANGED <<call, kept, up, outcome, orphans, late, commits>>
      /\ \/ in' = in \o <<>> /\ srv' = [srv EXCEPT !.got = Append(srv.got, Head(out))]
         \/ in' = in \o <<"failure">> /\ srv' = [srv EXCEPT !.at = "drain"]
         \/ in' = in \o <<"success">> /\ srv' = [srv EXCEPT !.got = Append(srv.got, Head(out))]
  BY Zenon DEF SrvCommand, Serve
<1>2. TypeOK
  BY DEF IInv
<1>3. /\ AtEdit /\ call.pc \notin {"idle", "check", "command", "auth", "reply"}
      /\ Len(out) \in Nat /\ Len(out) > 0 /\ Head(out) = out[1]
      /\ Len(Tail(out)) = Len(out) - 1
      /\ \A k \in 1 .. Len(out) - 1 : Tail(out)[k] = out[k + 1]
      /\ \A k \in 1 .. Len(out) : out[k] = "abort-edit" => k = Len(out) /\ call.pc = "early"
  BY <1>1, <1>2, EditShape
<1>4. /\ Len(in) \in Nat
      /\ \/ in' = in
         \/ /\ in' \in {Append(in, "failure"), Append(in, "success")}
            /\ Len(in') = Len(in) + 1 /\ \A k \in 1 .. Len(in) : in'[k] = in[k]
            /\ in'[Len(in) + 1] \in {"failure", "success"}
            /\ (in' = Append(in, "success") => in'[Len(in) + 1] = "success")
  <2>1. in \in Seq({"auth", "success", "failure", "info"})
    BY <1>2 DEF TypeOK
  <2>2. in \o <<>> = in /\ in \o <<"failure">> = Append(in, "failure")
        /\ in \o <<"success">> = Append(in, "success")
    BY <2>1
  <2> QED
    BY <1>1, <2>1, <2>2
<1>5. TypeOK'
  <2>1. in' \in Seq({"auth", "success", "failure", "info"})
    <3>1. in \in Seq({"auth", "success", "failure", "info"})
      BY <1>2 DEF TypeOK
    <3>2. /\ Append(in, "failure") \in Seq({"auth", "success", "failure", "info"})
          /\ Append(in, "success") \in Seq({"auth", "success", "failure", "info"})
      BY <3>1
    <3> QED
      BY <1>4, <3>1, <3>2
  <2>2. Append(srv.got, Head(out)) \in Seq(EditorCommands)
    BY <1>1, <1>2 DEF TypeOK, EditorCommands
  <2>3. srv' \in [at : {"idle", "edit", "drain"}, got : Seq(EditorCommands)]
    BY <1>1, <1>2, <2>2 DEF TypeOK
  <2>4. out' \in Seq(EditorCommands \cup {"commit"})
    BY <1>1, <1>2 DEF TypeOK
  <2> QED
    BY <1>1, <1>2, <2>1, <2>3, <2>4 DEF TypeOK
<1>6. LinkInv' /\ LoopInv' /\ LateInv' /\ AnswerInv'
  BY <1>1, <1>3, <1>4, ServeKeeps
<1>7. CallInv' /\ OrphanInv'
  BY <1>1 DEF IInv, CallInv, OrphanInv
<1>8. InfoInv'
  <2>1. \A k \in 1 .. Len(in') : in'[k] # "info"
    <3>1. \A k \in 1 .. Len(in) : in[k] = "success"
      BY <1>3 DEF AtEdit
    <3>2. CASE in' = in
      BY <3>1, <3>2
    <3>3. CASE in' # in
      <4>1. \A k \in 1 .. Len(in') : k \in 1 .. Len(in) \/ k = Len(in) + 1
        BY <1>4, <3>3
      <4> QED
        BY <1>4, <3>1, <3>3, <4>1
    <3> QED
      BY <3>2, <3>3
  <2>2. commits[call.no] = 0 /\ call.no \notin orphans
    BY <1>1 DEF IInv, InfoInv
  <2> QED
    BY <1>1, <2>1, <2>2 DEF InfoInv
<1>9. EditInv'
  <2>1. CASE srv'.at = "drain"
    <3>1. AtDrain'
      BY <1>1, <1>3 DEF AtDrain
    <3> QED
      BY <2>1, <3>1 DEF EditInv
  <2>2. CASE srv' = [srv EXCEPT !.got = Append(srv.got, Head(out))]
             /\ in' \in {in, Append(in, "success")}
    <3>1. /\ srv'.at = "edit" /\ Got' = Got + 1 /\ srv'.got[Got + 1] = Head(out)
          /\ \A k \in 1 .. Got : srv'.got[k] = srv.got[k]
      <4>1. srv.got \in Seq(EditorCommands) /\ srv.at = "edit"
        BY <1>1, <1>2 DEF TypeOK
      <4>2. srv'.got = Append(srv.got, Head(out)) /\ srv'.at = "edit"
        BY <1>1, <1>2, <2>2 DEF TypeOK
      <4> QED
        BY <4>1, <4>2 DEF Got
    <3>2. Got \in Nat /\ Held \in Nat /\ call.i \in Nat /\ AbortSent \in Nat
      BY <1>2, Sizes DEF AbortSent
    <3>3. Got' + Len(out') = call'.i - 1 - Held' + AbortSent'
      <4>1. Got + Len(out) = call.i - 1 - Held + AbortSent
        BY <1>3 DEF AtEdit
      <4>2. call'.i = call.i /\ Held' = Held /\ AbortSent' = AbortSent /\ Len(out') = Len(out) - 1
        BY <1>1, <1>3 DEF Held, AbortSent
      <4>3. Len(out) \in Nat
        BY <1>3
      <4> QED
        BY <3>1, <3>2, <4>1, <4>2, <4>3
    <3>4. ~(1 = Len(out) /\ call.pc = "early")
      <4>1. \A k \in 1 .. Len(out) : k = Len(out) /\ call.pc = "early" => out[k] = "abort-edit"
        BY <1>3 DEF AtEdit
      <4>2. 1 \in 1 .. Len(out) /\ out[1] = "open"
        BY <1>1, <1>3
      <4> QED
        BY <4>1, <4>2
    <3>5. \A k \in 1 .. Got' : srv'.got[k] = call.script[k]
      <4>1. out[1] = call.script[Got + 1]
        <5>1. 1 \in 1 .. Len(out)
          BY <1>3
        <5> QED
          BY <1>3, <3>4, <5>1 DEF AtEdit
      <4>2. \A k \in 1 .. Got' : k \in 1 .. Got \/ k = Got + 1
        BY <3>1, <3>2
      <4>3. \A k \in 1 .. Got : srv.got[k] = call.script[k]
        BY <1>3 DEF AtEdit
      <4> QED
        BY <1>3, <3>1, <4>1, <4>2, <4>3
    <3>6. \A k \in 1 .. Len(out') :
            out'[k] = IF k = Len(out') /\ call.pc = "early" THEN "abort-edit"
                      ELSE call.script[Got' + k]
      <4> SUFFICES ASSUME NEW k \in 1 .. Len(out')
                   PROVE  out'[k] = IF k = Len(out') /\ call.pc = "early" THEN "abort-edit"
                                    ELSE call.script[Got' + k]
        OBVIOUS
      <4>0. Len(out) \in Nat /\ Len(out') = Len(out) - 1
        BY <1>1, <1>3
      <4>1. k \in 1 .. Len(out) - 1 /\ k + 1 \in 1 .. Len(out) /\ (k + 1 = Len(out) <=> k = Len(out'))
        BY <4>0
      <4>2. out'[k] = out[k + 1]
        BY <1>1, <1>3, <4>1
      <4>3. out[k + 1] = IF k + 1 = Len(out) /\ call.pc = "early" THEN "abort-edit"
                         ELSE call.script[Got + (k + 1)]
        BY <1>3, <4>1 DEF AtEdit
      <4>4. Got + (k + 1) = Got' + k
        BY <3>1, <3>2
      <4> QED
        BY <4>1, <4>2, <4>3, <4>4
    <3>7. call.pc = "early" => out' # <<>>
      <4>1. call.pc = "early" => Len(out') > 0
        BY <1>1, <1>3, <3>4
      <4>2. Len(<<>>) = 0
        OBVIOUS
      <4> QED
        BY <4>1, <4>2
    <3>8. \A k \in 1 .. Len(in') : in'[k] = "success"
      <4>1. \A k \in 1 .. Len(in) : in[k] = "success"
        BY <1>3 DEF AtEdit
      <4>2. CASE in' = in
        BY <4>1, <4>2
      <4>3. CASE in' = Append(in, "success")
        BY <1>2, <4>1, <4>3 DEF TypeOK
      <4> QED
        BY <2>2, <4>2, <4>3
    <3>9. commits'[call'.no] = 0 /\ call' = call
      BY <1>1, <1>3 DEF AtEdit
    <3>10. AtEdit'
      BY <3>3, <3>5, <3>6, <3>7, <3>8, <3>9 DEF AtEdit
    <3> QED
      BY <3>1, <3>10 DEF EditInv
  <2>3. \/ srv'.at = "drain"
        \/ /\ srv' = [srv EXCEPT !.got = Append(srv.got, Head(out))]
           /\ in' \in {in, Append(in, "success")}
    <3>1. in \in Seq({"auth", "success", "failure", "info"})
      BY <1>2 DEF TypeOK
    <3>2. in \o <<>> = in /\ in \o <<"success">> = Append(in, "success")
      BY <3>1
    <3> QED
      BY <1>1, <1>2, <3>2 DEF TypeOK
  <2> QED
    BY <2>1, <2>2, <2>3
<1> QED
  BY <1>5, <1>6, <1>7, <1>8, <1>9 DEF IInv

\* The server completes the edit, or fails at the end.
LEMMA SrvCloseStep ==
    ASSUME IInv, SrvClose
    PROVE  IInv'
<1>1. /\ srv.at = "edit" /\ out # <<>> /\ Head(out) = "close-edit" /\ up /\ out' = Tail(out)
      /\ UNCHANGED <<call, kept, up, outcome, orphans, late>>
      /\ \/ /\ in' = in \o <<"success", "auth", "info">> /\ srv' = NoEdit
            /\ commits' = [commits EXCEPT ![call.no] = @ + 1]
         \/ /\ in' = in \o <<"failure">> /\ srv' = [srv EXCEPT !.at = "drain"]
            /\ commits' = commits
  BY Zenon DEF SrvClose, Serve
<1>2. TypeOK
  BY DEF IInv
<1>3. /\ AtEdit /\ call.pc \notin {"idle", "check", "command", "auth", "reply"}
      /\ Len(out) = 1 /\ Len(Tail(out)) = Len(out) - 1 /\ call.closed /\ call.batch = <<>>
  BY <1>1, <1>2, EditShape
<1>4. Tail(out) = <<>> /\ call.no \in CallIds
  <2>1. Tail(out) \in Seq(EditorCommands \cup {"commit"}) /\ Len(Tail(out)) = 0
    BY <1>1, <1>2, <1>3 DEF TypeOK
  <2> QED
    BY <1>3, <2>1, EmptySeq DEF IInv, CallInv
<1>5. in \in Seq({"auth", "success", "failure", "info"}) /\ Len(in) \in Nat
  BY <1>2 DEF TypeOK
<1>6. TypeOK'
  <2>1. in' \in Seq({"auth", "success", "failure", "info"})
    <3>1. /\ <<"success", "auth", "info">> \in Seq({"auth", "success", "failure", "info"})
          /\ <<"failure">> \in Seq({"auth", "success", "failure", "info"})
      OBVIOUS
    <3> QED
      <4>1. /\ in \o <<"success", "auth", "info">>
               \in Seq({"auth", "success", "failure", "info"})
            /\ in \o <<"failure">> \in Seq({"auth", "success", "failure", "info"})
        BY <1>5, <3>1, ConcatProperties
      <4> QED
        BY <1>1, <4>1
  <2>2. srv' \in [at : {"idle", "edit", "drain"}, got : Seq(EditorCommands)]
    <3>1. NoEdit \in [at : {"idle", "edit", "drain"}, got : Seq(EditorCommands)]
      BY DEF NoEdit
    <3> QED
      BY <1>1, <1>2, <3>1 DEF TypeOK
  <2>3. commits' \in [CallIds -> Nat]
    <3>1. commits \in [CallIds -> Nat]
      BY <1>2 DEF TypeOK
    <3>2. [commits EXCEPT ![call.no] = @ + 1] \in [CallIds -> Nat]
      BY <1>4, <3>1
    <3> QED
      BY <1>1, <3>1, <3>2
  <2>4. out' \in Seq(EditorCommands \cup {"commit"})
    <3>1. out' = <<>>
      BY <1>1, <1>4
    <3> QED
      BY <3>1
  <2> QED
    BY <1>1, <1>2, <2>1, <2>2, <2>3, <2>4 DEF TypeOK
<1>7. LinkInv' /\ LoopInv' /\ LateInv' /\ AnswerInv'
  <2>1. in' # <<>>
    BY <1>1, <1>5
  <2> QED
    BY <1>1, <1>3, <2>1, ServeKeeps
<1>8. commits[call.no] = 0 /\ call.no \notin orphans
  BY <1>1 DEF IInv, InfoInv
<1>9. CallInv' /\ OrphanInv'
  <2>1. \A c \in CallIds : c # call.no => commits'[c] = commits[c]
    BY <1>1, <1>2 DEF TypeOK
  <2>2. /\ call.no \in Nat /\ orphans \subseteq CallIds
        /\ call.pc # "idle" => call.no \in CallIds
    BY <1>2, <1>4 DEF TypeOK, CallIds
  <2>3. CallInv'
    BY <1>1, <2>1, <2>2 DEF IInv, CallInv, CallIds
  <2>4. OrphanInv'
    BY <1>1, <1>8, <2>1, <2>2 DEF IInv, OrphanInv
  <2> QED
    BY <2>3, <2>4
<1>10. CASE /\ in' = in \o <<"success", "auth", "info">> /\ srv' = NoEdit
            /\ commits' = [commits EXCEPT ![call.no] = @ + 1]
  <2>1. commits'[call.no] = 1
    BY <1>2, <1>4, <1>8, <1>10 DEF TypeOK
  <2>2. \A k \in 1 .. Len(in) : in[k] = "success"
    BY <1>3 DEF AtEdit
  <2>3. \A k \in 1 .. Len(in') : in'[k] = "info" => k = Len(in')
    <3>1. Len(in') = Len(in) + 3 /\ in'[Len(in) + 1] = "success" /\ in'[Len(in) + 2] = "auth"
          /\ \A k \in 1 .. Len(in) : in'[k] = in[k]
      BY <1>5, <1>10
    <3>2. \A k \in 1 .. Len(in') :
            k \in 1 .. Len(in) \/ k \in {Len(in) + 1, Len(in) + 2} \/ k = Len(in')
      BY <1>5, <3>1
    <3> QED
      BY <2>2, <3>1, <3>2
  <2>4. InfoInv'
    BY <1>1, <1>3, <1>8, <1>10, <2>1, <2>3 DEF InfoInv, NoEdit
  <2>5. EditInv'
    BY <1>1, <1>3, <1>4, <1>10 DEF EditInv, AtIdle, NoEdit
  <2> QED
    BY <1>6, <1>7, <1>9, <2>4, <2>5 DEF IInv
<1>11. CASE /\ in' = in \o <<"failure">> /\ srv' = [srv EXCEPT !.at = "drain"]
            /\ commits' = commits
  <2>1. \A k \in 1 .. Len(in) : in[k] = "success"
    BY <1>3 DEF AtEdit
  <2>2. \A k \in 1 .. Len(in') : in'[k] # "info"
    BY <1>5, <1>11, <2>1
  <2>3. InfoInv'
    BY <1>1, <1>3, <1>8, <1>11, <2>2 DEF InfoInv
  <2>4. EditInv'
    <3>1. srv'.at = "drain" /\ AtDrain'
      BY <1>1, <1>2, <1>4, <1>11 DEF AtDrain, TypeOK
    <3> QED
      BY <3>1 DEF EditInv
  <2> QED
    BY <1>6, <1>7, <1>9, <2>3, <2>4 DEF IInv
<1> QED
  BY <1>1, <1>10, <1>11

\* The rest of what was on its way.
LEMMA TailOfOut ==
    ASSUME TypeOK, out # <<>>, out' = Tail(out)
    PROVE  /\ out' \in Seq(EditorCommands \cup {"commit"}) /\ Len(out) \in Nat
           /\ Len(out') = Len(out) - 1 /\ Head(out) = out[1]
           /\ \A k \in 1 .. Len(out') : k + 1 \in 1 .. Len(out) /\ out'[k] = out[k + 1]
           /\ Len(out) = 1 => out' = <<>>
<1>1. /\ out' \in Seq(EditorCommands \cup {"commit"}) /\ Len(out) \in Nat
      /\ Len(out') = Len(out) - 1 /\ Head(out) = out[1]
      /\ \A k \in 1 .. Len(out) - 1 : out'[k] = out[k + 1]
  BY DEF TypeOK
<1>2. Len(out) = 1 => out' = <<>>
  BY <1>1, EmptySeq
<1>3. \A k \in 1 .. Len(out') : k \in 1 .. Len(out) - 1 /\ k + 1 \in 1 .. Len(out)
  BY <1>1
<1> QED
  BY <1>1, <1>2, <1>3

\* The server is told to give up.
LEMMA SrvAbortStep ==
    ASSUME IInv, SrvAbort
    PROVE  IInv'
<1>1. /\ srv.at = "edit" /\ out # <<>> /\ Head(out) = "abort-edit" /\ up /\ out' = Tail(out)
      /\ UNCHANGED <<call, kept, up, outcome, orphans, late, commits>>
      /\ in' = in \o <<"success">> /\ srv' = NoEdit
  BY Zenon DEF SrvAbort, Serve
<1>2. TypeOK /\ in \in Seq({"auth", "success", "failure", "info"}) /\ Len(in) \in Nat
  BY DEF IInv, TypeOK
<1>3. /\ AtEdit /\ call.pc \notin {"idle", "check", "command", "auth", "reply"}
      /\ Len(out) = 1 /\ call.pc = "early"
  <2>1. /\ AtEdit /\ call.pc \notin {"idle", "check", "command", "auth", "reply"}
        /\ Len(out) \in Nat /\ Len(out) > 0 /\ Head(out) = out[1]
        /\ \A k \in 1 .. Len(out) : out[k] = "abort-edit" => k = Len(out) /\ call.pc = "early"
    BY <1>1, EditShape
  <2>2. 1 \in 1 .. Len(out) /\ out[1] = "abort-edit"
    BY <1>1, <2>1
  <2> QED
    BY <2>1, <2>2
<1>4. out' = <<>>
  BY <1>1, <1>2, <1>3, TailOfOut
<1>5. TypeOK'
  <2>1. in' \in Seq({"auth", "success", "failure", "info"})
    <3>1. <<"success">> \in Seq({"auth", "success", "failure", "info"})
      OBVIOUS
    <3> QED
      BY <1>1, <1>2, <3>1, ConcatProperties
  <2>2. srv' \in [at : {"idle", "edit", "drain"}, got : Seq(EditorCommands)]
    BY <1>1 DEF NoEdit
  <2>3. out' \in Seq(EditorCommands \cup {"commit"})
    BY <1>4
  <2> QED
    BY <1>1, <1>2, <2>1, <2>2, <2>3 DEF TypeOK
<1>6. LinkInv' /\ LoopInv' /\ LateInv' /\ AnswerInv'
  <2>1. in' # <<>>
    BY <1>1, <1>2
  <2> QED
    BY <1>1, <1>3, <2>1, ServeKeeps
<1>7. CallInv' /\ OrphanInv'
  BY <1>1 DEF IInv, CallInv, OrphanInv
<1>8. InfoInv'
  <2>1. \A k \in 1 .. Len(in) : in[k] = "success"
    BY <1>3 DEF AtEdit
  <2>2. \A k \in 1 .. Len(in') : in'[k] # "info"
    BY <1>1, <1>2, <2>1
  <2>3. commits[call.no] = 0 /\ call.no \notin orphans
    BY <1>1 DEF IInv, InfoInv
  <2> QED
    BY <1>1, <2>2, <2>3 DEF InfoInv
<1>9. EditInv'
  BY <1>1, <1>3, <1>4 DEF EditInv, AtIdle, NoEdit
<1> QED
  BY <1>5, <1>6, <1>7, <1>8, <1>9 DEF IInv

\* The server reads and forgets.
LEMMA SrvDrainStep ==
    ASSUME IInv, SrvDrain
    PROVE  IInv'
<1>1. /\ srv.at = "drain" /\ out # <<>> /\ up /\ out' = Tail(out)
      /\ UNCHANGED <<call, kept, up, outcome, orphans, late, commits>>
      /\ in' = in \o <<>> /\ srv' = IF Head(out) = "abort-edit" THEN NoEdit ELSE srv
  BY Zenon DEF SrvDrain, Serve
<1>2. TypeOK /\ in' = in
  BY <1>1 DEF IInv, TypeOK
<1>3. call.pc \notin {"idle", "check", "command", "auth", "reply"}
  BY <1>1 DEF IInv, LinkInv, AnswerInv, Resting, NoEdit, Fresh
<1>4. AtDrain
  BY <1>1, <1>2, <1>3 DEF IInv, EditInv, Editing, Closing, TypeOK
<1>5. /\ out' \in Seq(EditorCommands \cup {"commit"}) /\ Len(out) \in Nat
      /\ Len(out') = Len(out) - 1 /\ Head(out) = out[1]
      /\ \A k \in 1 .. Len(out') : k + 1 \in 1 .. Len(out) /\ out'[k] = out[k + 1]
      /\ Len(out) = 1 => out' = <<>>
  BY <1>1, <1>2, TailOfOut
<1>6. TypeOK'
  <2>1. NoEdit \in [at : {"idle", "edit", "drain"}, got : Seq(EditorCommands)]
    BY DEF NoEdit
  <2>2. srv' \in [at : {"idle", "edit", "drain"}, got : Seq(EditorCommands)]
    BY <1>1, <1>2, <2>1 DEF TypeOK
  <2> QED
    BY <1>1, <1>2, <1>5, <2>2 DEF TypeOK
<1>7. LinkInv' /\ LoopInv' /\ LateInv' /\ AnswerInv'
  BY <1>1, <1>2, <1>3, ServeKeeps
<1>8. CallInv' /\ OrphanInv'
  BY <1>1 DEF IInv, CallInv, OrphanInv
<1>9. InfoInv'
  <2>1. \A k \in 1 .. Len(in) : in[k] # "info"
    BY <1>1 DEF IInv, InfoInv, NoEdit
  <2>2. srv'.at # "edit"
    BY <1>1 DEF NoEdit
  <2> QED
    BY <1>1, <1>2, <1>3, <2>1, <2>2 DEF InfoInv
<1>10. EditInv'
  <2>1. CASE Head(out) = "abort-edit"
    <3>1. 1 \in 1 .. Len(out)
      BY <1>1, <1>2 DEF TypeOK
    <3>2. Len(out) = 1 /\ call.pc = "early"
      BY <1>4, <1>5, <2>1, <3>1 DEF AtDrain
    <3> QED
      BY <1>1, <1>5, <2>1, <3>2 DEF EditInv, AtIdle, NoEdit
  <2>2. CASE Head(out) # "abort-edit"
    <3>1. \A k \in 1 .. Len(out') : k + 1 = Len(out) => k = Len(out')
      BY <1>5
    <3>2. AtDrain'
      BY <1>1, <1>4, <1>5, <3>1 DEF AtDrain
    <3> QED
      BY <1>1, <2>2, <3>2 DEF EditInv
  <2> QED
    BY <2>1, <2>2
<1> QED
  BY <1>6, <1>7, <1>8, <1>9, <1>10 DEF IInv

-----------------------------------------------------------------------------
(* Losses.                                                                 *)

\* The connection is lost: a prefix of the answers arrives, and a whole edit may
\* be left behind.
LEMMA LoseStep ==
    ASSUME IInv, Lose
    PROVE  IInv'
<1>1. PICK n \in 0 .. Len(in) : in' = SubSeq(in, 1, n)
  BY DEF Lose
<1>2. /\ up /\ up' = FALSE /\ out' = <<>> /\ srv' = NoEdit
      /\ orphans' = IF call.pc # "idle" THEN orphans \cup Orphaned ELSE orphans
      /\ UNCHANGED <<call, kept, outcome, commits, late>>
  BY Zenon DEF Lose
<1>3. TypeOK /\ in \in Seq({"auth", "success", "failure", "info"}) /\ Len(in) \in Nat
  BY DEF IInv, TypeOK
<1>4. /\ in' \in Seq({"auth", "success", "failure", "info"}) /\ Len(in') = n
      /\ \A k \in 1 .. n : k \in 1 .. Len(in) /\ in'[k] = in[k]
  BY <1>1, <1>3
<1>5. Orphaned \subseteq {call.no} /\ (Orphaned # {} => srv.at = "edit")
  BY DEF Orphaned
<1>6. call.pc # "idle" => call.no \in CallIds
  BY DEF IInv, CallInv
<1>7. TypeOK'
  <2>1. srv' \in [at : {"idle", "edit", "drain"}, got : Seq(EditorCommands)]
    BY <1>2 DEF NoEdit
  <2>2. orphans' \subseteq CallIds
    BY <1>2, <1>3, <1>5, <1>6 DEF TypeOK
  <2>3. out' \in Seq(EditorCommands \cup {"commit"}) /\ up' \in BOOLEAN
    <3>1. out' \in Seq(EditorCommands \cup {"commit"})
      <4>1. out' = <<>>
        BY <1>2
      <4> QED
        BY <4>1
    <3>2. up' \in BOOLEAN
      BY <1>2, Zenon
    <3> QED
      BY <3>1, <3>2
  <2> QED
    BY <1>2, <1>3, <1>4, <2>1, <2>2, <2>3 DEF TypeOK
<1>8. CallInv' /\ LoopInv' /\ LateInv' /\ AnswerInv' /\ EditInv'
  <2>1. CallInv' /\ LoopInv'
    BY <1>2 DEF IInv, CallInv, LoopInv, Unstarted, Editing, Closing, Held
  <2>2. LateInv' /\ EditInv'
    BY <1>2 DEF IInv, LateInv, EditInv, Unstarted, Editing, Held
  <2>3. AnswerInv'
    BY <1>2, <1>4 DEF IInv, AnswerInv
  <2> QED
    BY <2>1, <2>2, <2>3
<1>9. LinkInv'
  <2>1. Resting => in' = <<>>
    <3>1. ASSUME Resting PROVE Len(in') = 0
      BY <1>1, <1>4, <3>1 DEF IInv, LinkInv
    <3> QED
      BY <1>4, <3>1, EmptySeq
  <2> QED
    BY <1>2, <2>1 DEF IInv, LinkInv, Resting
<1>10. InfoInv'
  <2>1. srv = NoEdit => orphans' = orphans
    BY <1>2, <1>5 DEF NoEdit
  <2>2. \A k \in 1 .. Len(in') : in'[k] = "info" =>
          k = Len(in') /\ commits[call.no] = 1 /\ call.no \notin orphans /\ srv = NoEdit
    <3>1. \A k \in 1 .. Len(in') : in'[k] = "info" =>
            k = Len(in) /\ commits[call.no] = 1 /\ call.no \notin orphans /\ srv = NoEdit
      BY <1>4 DEF IInv, InfoInv
    <3> QED
      BY <1>1, <1>3, <1>4, <3>1
  <2>3. call.pc \in {"check", "command"} => srv = NoEdit /\ commits[call.no] = 0 /\ call.no \notin orphans
    BY DEF IInv, InfoInv, LinkInv, Resting
  <2>4. ~up' /\ srv'.at = "idle"
    BY <1>2 DEF NoEdit
  <2> QED
    BY <1>2, <2>1, <2>2, <2>3, <2>4 DEF InfoInv
<1>11. OrphanInv'
  <2>1. \A c \in orphans : c <= call.no /\ commits[c] = 0 /\ outcome[c] \notin {"none", "ok"}
    BY DEF IInv, OrphanInv
  <2>2. \A c \in orphans' : c \in orphans \/ (c = call.no /\ call.pc # "idle" /\ srv.at = "edit")
    BY <1>2, <1>5
  <2>3. srv.at = "edit" => commits[call.no] = 0
    BY DEF IInv, InfoInv
  <2>4. call.pc # "idle" => outcome[call.no] = "open" /\ call.no <= call.no
    BY <1>3, <1>6 DEF IInv, CallInv, TypeOK
  <2> QED
    BY <1>2, <2>1, <2>2, <2>3, <2>4 DEF OrphanInv
<1> QED
  BY <1>7, <1>8, <1>9, <1>10, <1>11 DEF IInv

\* The edit of a lost connection is completed.
LEMMA LateCommitStep ==
    ASSUME IInv, LateCommit
    PROVE  IInv'
<1>1. PICK c \in orphans :
        /\ orphans' = orphans \ {c}
        /\ commits' = [commits EXCEPT ![c] = @ + 1]
        /\ UNCHANGED <<call, kept, up, out, in, srv, outcome, late>>
  BY Zenon DEF LateCommit
<1>2. TypeOK /\ c \in CallIds
  BY <1>1 DEF IInv, TypeOK
<1>3. /\ \A d \in CallIds : d # c => commits'[d] = commits[d]
      /\ \A d \in orphans' : d # c /\ d \in orphans /\ d \in CallIds
      /\ c <= call.no /\ call.no \in Nat
  BY <1>1, <1>2 DEF IInv, OrphanInv, TypeOK
<1>4. call.no \notin orphans => commits'[call.no] = commits[call.no] /\ call.no \notin orphans'
  BY <1>1, <1>2 DEF TypeOK
<1>5. TypeOK'
  <2>1. commits' \in [CallIds -> Nat]
    BY <1>1, <1>2 DEF TypeOK
  <2> QED
    BY <1>1, <1>2, <2>1 DEF TypeOK
<1>6. CallInv'
  BY <1>1, <1>3 DEF IInv, CallInv, CallIds
<1>7. LinkInv' /\ LoopInv' /\ LateInv' /\ AnswerInv'
  BY <1>1 DEF IInv, LinkInv, LoopInv, LateInv, AnswerInv, Resting, Unstarted, Editing, Closing, Held
<1>8. InfoInv'
  BY <1>1, <1>4 DEF IInv, InfoInv
<1>9. EditInv'
  <2>1. srv.at = "edit" => call.no \notin orphans
    BY DEF IInv, InfoInv
  <2> QED
    BY <1>1, <1>4, <2>1
       DEF IInv, EditInv, Editing, Closing, AtEdit, AtDrain, AtIdle, AbortSent, Got, Held
<1>10. OrphanInv'
  BY <1>1, <1>3 DEF IInv, OrphanInv
<1> QED
  BY <1>5, <1>6, <1>7, <1>8, <1>9, <1>10 DEF IInv

-----------------------------------------------------------------------------
(* The theorems.                                                           *)

\* Nothing happens.
LEMMA Stutter ==
    ASSUME IInv, UNCHANGED vars
    PROVE  IInv'
<1>1. /\ call' = call /\ kept' = kept /\ up' = up /\ out' = out /\ in' = in /\ srv' = srv
      /\ outcome' = outcome /\ orphans' = orphans /\ commits' = commits /\ late' = late
  BY DEF vars
<1>2. TypeOK' /\ CallInv' /\ LinkInv'
  BY <1>1 DEF IInv, TypeOK, CallInv, LinkInv, Resting
<1>3. LoopInv' /\ LateInv' /\ AnswerInv'
  BY <1>1 DEF IInv, LoopInv, LateInv, AnswerInv, Unstarted, Editing, Closing, Held
<1>4. EditInv' /\ InfoInv' /\ OrphanInv'
  BY <1>1 DEF IInv, EditInv, InfoInv, OrphanInv, Editing, Closing, AtEdit, AtDrain,
              AtIdle, AbortSent, Got, Held
<1> QED
  BY <1>2, <1>3, <1>4 DEF IInv

\* Every step leaves the invariant.
LEMMA Step ==
    ASSUME IInv, [Next]_vars
    PROVE  IInv'
<1>1. ASSUME NEW script \in Scripts, NEW streamed \in BOOLEAN, Start(script, streamed)
      PROVE  IInv'
  BY <1>1, StartStep
<1>2. CASE Check \/ SendCommit \/ ReadAuth \/ ReadReply \/ NextCommand
  BY <1>2, CheckStep, SendCommitStep, ReadAuthStep, ReadReplyStep, NextCommandStep
<1>3. CASE Flush \/ SendAbort \/ Finish \/ FinalFlush \/ ReadStatus \/ ReadInfo
  BY <1>3, FlushStep, SendAbortStep, FinishStep, FinalFlushStep, ReadStatusStep, ReadInfoStep
<1>4. CASE RefuseOptions \/ ReadEarlyStatus \/ CallerFails \/ ReadEof \/ TimesOut
  BY <1>4, FailingStep
<1>5. CASE SrvCommit \/ SrvCommand \/ SrvClose \/ SrvAbort \/ SrvDrain
  BY <1>5, SrvCommitStep, SrvCommandStep, SrvCloseStep, SrvAbortStep, SrvDrainStep
<1>6. CASE Lose \/ LateCommit
  BY <1>6, LoseStep, LateCommitStep
<1>7. CASE UNCHANGED vars
  BY <1>7, Stutter
<1> QED
  BY <1>1, <1>2, <1>3, <1>4, <1>5, <1>6, <1>7, Zenon DEF Next, Client, Server

\* The invariant holds in every state: the two ends of a commit agree on how far
\* it is, whatever is written, refused, lost or late (commit, commit_drive).
THEOREM Invariance == Spec => []IInv
BY InitStep, Step, PTL DEF Spec

\* The state has its shape, and a connection that a commit leaves behind is at
\* the start of a command at both ends: the next call does not read what belongs
\* to this one.
THEOREM Agreement == Spec => []InStep
<1>1. IInv => InStep
  BY DEF IInv, LinkInv, InStep, InSync, Resting, NoEdit
<1> QED
  BY <1>1, Invariance, PTL

\* check_for_edit_status before each batch is enough: once an answer is there,
\* at most the batch in hand and an abort-edit are still written, for every batch
\* size and every pipe.
THEOREM AbortsPromptly == Spec => []PromptAbort
<1>1. IInv => PromptAbort
  BY DEF IInv, LateInv, PromptAbort
<1> QED
  BY <1>1, Invariance, PTL

-----------------------------------------------------------------------------
(* What a step may do to what the owner of the session sees.               *)

\* The commit in progress returns an error; a commit begins; it returns Ok; the
\* server completes its edit; the server completes an edit of a lost connection.
Fails(err) ==
    /\ call.pc # "idle" /\ commits' = commits /\ call' = [call EXCEPT !.pc = "idle"]
    /\ outcome' = [outcome EXCEPT ![call.no] = err]

Begins ==
    /\ call.pc = "idle" /\ call.no < MaxCalls
    /\ outcome' = [outcome EXCEPT ![call.no + 1] = "open"] /\ commits' = commits

Succeeds ==
    /\ call.pc = "info" /\ in # <<>> /\ Head(in) = "info"
    /\ outcome' = [outcome EXCEPT ![call.no] = "ok"] /\ commits' = commits

Commits ==
    /\ srv.at = "edit" /\ up /\ out # <<>> /\ Head(out) = "close-edit"
    /\ commits' = [commits EXCEPT ![call.no] = @ + 1]
    /\ outcome' = outcome

CommitsLate ==
    \E c \in orphans : commits' = [commits EXCEPT ![c] = @ + 1] /\ outcome' = outcome

\* What a step does to the outcomes and to the revisions of the repository.
LEMMA Effects ==
    ASSUME [Next]_vars
    PROVE  \/ outcome' = outcome /\ commits' = commits
           \/ \E err \in Errors : Fails(err)
           \/ Begins \/ Succeeds \/ Commits \/ CommitsLate
<1>0. ASSUME NEW err \in Errors, Fail(err), call.pc # "idle"
      PROVE  Fails(err)
  BY <1>0, Zenon DEF Fail, Fails
<1>1. ASSUME NEW script, NEW streamed, Start(script, streamed) PROVE Begins
  BY <1>1, Zenon DEF Start, Begins
<1>2. CASE Check
  <2>1. "protocol" \in Errors /\ (call.pc = "check" => call.pc # "idle")
    BY DEF Errors
  <2> QED
    BY <1>2, <2>1, Zenon DEF Check, Fails
<1>3. CASE RefuseOptions \/ SendCommit \/ ReadAuth \/ ReadReply
  <2>1. call.pc # "idle"
    BY <1>3 DEF RefuseOptions, SendCommit, ReadAuth, ReadReply
  <2>2. (\E err \in Errors : Fail(err)) \/ (outcome' = outcome /\ commits' = commits)
    BY <1>3, Zenon DEF RefuseOptions, SendCommit, ReadAuth, ReadReply, Write, GoOn, Errors
  <2> QED
    BY <1>0, <2>1, <2>2
<1>4. CASE NextCommand \/ SendAbort \/ ReadEarlyStatus \/ CallerFails
  <2>1. call.pc # "idle"
    BY <1>4 DEF NextCommand, SendAbort, ReadEarlyStatus, CallerFails
  <2>2. (\E err \in Errors : Fail(err)) \/ (outcome' = outcome /\ commits' = commits)
    BY <1>4, Zenon DEF NextCommand, SendAbort, ReadEarlyStatus, CallerFails, Write, GoOn, Errors
  <2> QED
    BY <1>0, <2>1, <2>2
<1>5. CASE Flush \/ Finish \/ FinalFlush \/ ReadStatus
  <2>1. call.pc # "idle"
    BY <1>5 DEF Flush, Finish, FinalFlush, ReadStatus
  <2>2. (\E err \in Errors : Fail(err)) \/ (outcome' = outcome /\ commits' = commits)
    BY <1>5, Zenon DEF Flush, Finish, FinalFlush, ReadStatus, Write, GoOn, Errors
  <2> QED
    BY <1>0, <2>1, <2>2
<1>6. CASE ReadInfo
  <2>1. call.pc # "idle"
    BY <1>6 DEF ReadInfo
  <2>2. (\E err \in Errors : Fail(err)) \/ Succeeds
    BY <1>6, Zenon DEF ReadInfo, Succeeds, Errors
  <2> QED
    BY <1>0, <2>1, <2>2
<1>7. CASE ReadEof \/ TimesOut
  <2>1. call.pc # "idle"
    BY <1>7 DEF ReadEof, TimesOut, Reading
  <2>2. \E err \in Errors : Fail(err)
    BY <1>7, Zenon DEF ReadEof, TimesOut, Errors
  <2> QED
    BY <1>0, <2>1, <2>2
<1>8. CASE SrvClose
  BY <1>8, Zenon DEF SrvClose, Serve, Commits
<1>9. CASE SrvCommit \/ SrvCommand \/ SrvAbort \/ SrvDrain \/ Lose
  BY <1>9, Zenon DEF SrvCommit, SrvCommand, SrvAbort, SrvDrain, Serve, Lose
<1>10. CASE LateCommit
  BY <1>10, Zenon DEF LateCommit, CommitsLate
<1>11. CASE UNCHANGED vars
  BY <1>11 DEF vars
<1> QED
  BY <1>1, <1>2, <1>3, <1>4, <1>5, <1>6, <1>7, <1>8, <1>9, <1>10, <1>11, Zenon
     DEF Next, Client, Server

\* The server never completes part of an edit: when it does, it has read the
\* commands of the script up to and with close-edit, in their order, through
\* any split into batches.
THEOREM WholeEdits == Spec => CommitsWholeEdit
<1>1. ASSUME IInv, [Next]_vars,
             NEW c \in CallIds, commits'[c] # commits[c], c \notin orphans
      PROVE  /\ c = call.no
             /\ \E k \in DOMAIN call.script :
                  /\ call.script[k] = "close-edit"
                  /\ Append(srv.got, "close-edit") = SubSeq(call.script, 1, k)
  <2>1. commits \in [CallIds -> Nat] /\ TypeOK
    BY <1>1 DEF IInv, TypeOK
  <2>2. Commits
    <3>1. Commits \/ CommitsLate
      BY <1>1, Effects, Zenon DEF Fails, Begins, Succeeds
    <3>2. ~CommitsLate
      BY <1>1, <2>1 DEF CommitsLate
    <3> QED
      BY <3>1, <3>2
  <2>3. c = call.no
    BY <1>1, <2>1, <2>2 DEF Commits
  <2>4. /\ AtEdit /\ Len(out) \in Nat /\ Head(out) = out[1] /\ Len(out) = 1 /\ call.i = Got + 2
        /\ call.pc \notin {"idle", "check", "command", "auth", "reply"} /\ call.closed
    BY <1>1, <2>2, EditShape DEF Commits
  <2>5. /\ call.i \in 1 .. Len(call.script) + 1 /\ call.script[call.i - 1] = "close-edit"
    BY <1>1, <2>1, <2>4 DEF IInv, LoopInv, Editing, Closing, TypeOK
  <2>6. /\ Got \in Nat /\ srv.got \in Seq(EditorCommands) /\ call.script \in Seq(EditorCommands)
        /\ Len(call.script) \in Nat
    BY <2>1, Sizes DEF TypeOK
  <2>7. Got + 1 \in 1 .. Len(call.script) /\ call.script[Got + 1] = "close-edit"
    BY <2>4, <2>5, <2>6
  <2>8. Append(srv.got, "close-edit") = SubSeq(call.script, 1, Got + 1)
    <3>1. \A k \in 1 .. Got : srv.got[k] = call.script[k]
      BY <2>4 DEF AtEdit
    <3> DEFINE s == Append(srv.got, "close-edit")
    <3>2. s \in Seq(EditorCommands) /\ Len(s) = Got + 1 /\ s[Got + 1] = "close-edit"
          /\ \A k \in 1 .. Got : s[k] = srv.got[k]
      BY <2>6 DEF Got, EditorCommands
    <3> DEFINE t == SubSeq(call.script, 1, Got + 1)
    <3>3. t \in Seq(EditorCommands) /\ Len(t) = Got + 1
          /\ \A k \in 1 .. Got + 1 : t[k] = call.script[k]
      BY <2>6, <2>7
    <3> HIDE DEF s, t
    <3>4. \A k \in 1 .. Got + 1 : k \in 1 .. Got \/ k = Got + 1
      BY <2>6
    <3>5. \A k \in 1 .. Len(s) : s[k] = t[k]
      BY <2>7, <3>1, <3>2, <3>3, <3>4
    <3>6. s = t
      BY <3>2, <3>3, <3>5, SeqEqual
    <3> QED
      BY <3>6 DEF s, t
  <2>9. Got + 1 \in DOMAIN call.script
    BY <2>6, <2>7
  <2> QED
    BY <2>3, <2>7, <2>8, <2>9
<1>2. IInv /\ [Next]_vars => [CommitIsWhole]_vars
  BY <1>1, Zenon DEF CommitIsWhole
<1> QED
  BY <1>2, Invariance, PTL DEF Spec, CommitsWholeEdit

\* A commit that has seen the refusal of the server, or has sent everything,
\* ends with that refusal or a timeout, and not with an error that hides it.
THEOREM RefusalsReported == Spec => RefusalIsReported
<1>1. ASSUME IInv, [Next]_vars, NEW c \in CallIds,
             outcome[c] = "open", outcome'[c] \notin {"open", "timeout"},
             up, in # <<>>, Head(in) = "failure", call.pc \in {"abort", "early", "final"}
      PROVE  outcome'[c] = "server"
  <2>1. c = call.no /\ outcome \in [CallIds -> Errors \cup {"none", "open", "ok"}]
    BY <1>1 DEF IInv, CallInv, TypeOK
  <2>2. \/ Check \/ RefuseOptions \/ SendCommit \/ ReadAuth \/ ReadReply \/ NextCommand
        \/ Flush \/ SendAbort \/ ReadEarlyStatus \/ CallerFails \/ Finish
        \/ FinalFlush \/ ReadStatus \/ ReadInfo \/ ReadEof \/ TimesOut
        \/ Server \/ Lose \/ LateCommit \/ UNCHANGED vars
    BY <1>1, Zenon DEF Next, Client, Start
  <2>3. outcome' # outcome
    BY <1>1
  <2>4. ~Check /\ ~RefuseOptions /\ ~SendCommit /\ ~ReadAuth /\ ~ReadReply /\ ~NextCommand
    BY <1>1 DEF Check, RefuseOptions, SendCommit, ReadAuth, ReadReply, NextCommand
  <2>5. ~Flush /\ ~CallerFails /\ ~Finish /\ ~ReadInfo /\ ~ReadEof
    BY <1>1 DEF Flush, CallerFails, Finish, ReadInfo, ReadEof
  <2>6. ~SendAbort /\ ~FinalFlush
    BY <1>1, <2>3, Zenon DEF SendAbort, FinalFlush, Write
  <2>7. ~Server /\ ~Lose /\ ~LateCommit /\ ~UNCHANGED vars
    BY <2>3, Zenon DEF Server, SrvCommit, SrvCommand, SrvClose, SrvAbort, SrvDrain, Serve,
                       Lose, LateCommit, vars
  <2>8. ~TimesOut
    <3>1. TimesOut => outcome' = [outcome EXCEPT ![call.no] = "timeout"]
      BY Zenon DEF TimesOut, Fail
    <3> QED
      BY <1>1, <2>1, <3>1
  <2>9. CASE ReadEarlyStatus \/ ReadStatus
    <3>1. Fail("server")
      BY <1>1, <2>9 DEF ReadEarlyStatus, ReadStatus
    <3>2. outcome' = [outcome EXCEPT ![call.no] = "server"]
      BY <3>1, Zenon DEF Fail
    <3> QED
      BY <1>1, <2>1, <3>2
  <2> QED
    BY <2>2, <2>4, <2>5, <2>6, <2>7, <2>8, <2>9
<1>2. IInv /\ [Next]_vars => [RefusalIsTheResult]_vars
  BY <1>1, Zenon DEF RefusalIsTheResult
<1> QED
  BY <1>2, Invariance, PTL DEF Spec, RefusalIsReported

\* What the server does and what the caller hears are the same thing.
THEOREM Truth == Spec => TrueOutcome
BY WholeEdits, RefusalsReported, PTL DEF TrueOutcome

-----------------------------------------------------------------------------
(* A commit is what its owner relies on.                                   *)

\* The abstract phase of a commit.
LEMMA PhaseOf ==
    ASSUME NEW c \in CallIds
    PROVE  /\ outcome[c] = "none" => Phases[c] = "new"
           /\ outcome[c] = "open" => Phases[c] = "open"
           /\ outcome[c] = "ok" => Phases[c] = "ok"
           /\ outcome[c] \in Errors => Phases[c] = "err"
BY DEF Phases, Errors

\* The outcome of one call changes: the abstract state changes at that call.
LEMMA OutcomeMaps ==
    ASSUME outcome \in [CallIds -> Errors \cup {"none", "open", "ok"}],
           NEW c \in CallIds, NEW o \in Errors \cup {"open", "ok"},
           outcome' = [outcome EXCEPT ![c] = o]
    PROVE  /\ Phases' = [Phases EXCEPT ![c] = IF o \in Errors THEN "err" ELSE o]
           /\ Begun' = Begun \cup {c}
<1>1. o # "none" /\ outcome'[c] = o /\ \A d \in CallIds : d # c => outcome'[d] = outcome[d]
  BY DEF Errors
<1>2. Begun' = Begun \cup {c}
  BY <1>1, Zenon DEF Begun
<1>3. \A d \in CallIds : d # c => Phases'[d] = Phases[d]
  BY <1>1 DEF Phases
<1>4. Phases'[c] = IF o \in Errors THEN "err" ELSE o
  BY <1>1 DEF Phases, Errors
<1> QED
  BY <1>2, <1>3, <1>4, Zenon DEF Phases

\* Every step is a step of AtMostOnceCall, or changes nothing it speaks of.
LEMMA StepMaps ==
    ASSUME IInv, IInv', [Next]_vars
    PROVE  [Abstract!Next]_(Abstract!avars)
<1>1. /\ outcome \in [CallIds -> Errors \cup {"none", "open", "ok"}]
      /\ commits \in [CallIds -> Nat] /\ call.no \in 0 .. MaxCalls
      /\ MaxCalls \in Nat
  BY SizeAssumption DEF IInv, TypeOK
<1>2. ASSUME outcome' = outcome PROVE Phases' = Phases /\ Begun' = Begun
  BY <1>2, Zenon DEF Phases, Begun
<1>3. call.pc # "idle" => call.no \in CallIds /\ outcome[call.no] = "open"
  BY DEF IInv, CallInv
<1>4. CASE outcome' = outcome /\ commits' = commits
  BY <1>2, <1>4, Zenon DEF Abstract!avars
<1>5. ASSUME NEW err \in Errors, Fails(err) PROVE Abstract!Next
  <2>1. /\ call.no \in CallIds /\ outcome[call.no] = "open" /\ commits' = commits
        /\ outcome' = [outcome EXCEPT ![call.no] = err]
    BY <1>3, <1>5, Zenon DEF Fails
  <2>2. Phases' = [Phases EXCEPT ![call.no] = "err"] /\ Begun' = Begun
    BY <1>1, <2>1, OutcomeMaps DEF Begun, Errors
  <2>3. Phases[call.no] = "open"
    BY <2>1, PhaseOf
  <2>4. Abstract!ReturnErr(call.no)
    BY <2>1, <2>2, <2>3, Zenon DEF Abstract!ReturnErr
  <2> QED
    BY <2>1, <2>4, Zenon DEF Abstract!Next
<1>6. CASE Begins
  <2> DEFINE c == call.no + 1
  <2>1. /\ c \in CallIds /\ c > call.no /\ commits' = commits
        /\ outcome' = [outcome EXCEPT ![c] = "open"]
    BY <1>1, <1>6 DEF Begins, CallIds
  <2>2. outcome[c] = "none" /\ \A d \in CallIds : outcome[d] # "open"
    BY <1>6, <2>1 DEF IInv, CallInv, Begins
  <2> HIDE DEF c
  <2>3. Phases' = [Phases EXCEPT ![c] = "open"] /\ Begun' = Begun \cup {c}
    BY <1>1, <2>1, OutcomeMaps DEF Errors
  <2>4. Phases[c] = "new" /\ \A d \in CallIds : Phases[d] # "open"
    BY <1>1, <2>1, <2>2, PhaseOf
  <2>5. Abstract!Begin(c)
    BY <2>1, <2>3, <2>4, Zenon DEF Abstract!Begin
  <2> QED
    BY <2>1, <2>5, Zenon DEF Abstract!Next
<1>7. CASE Succeeds
  <2>1. /\ call.no \in CallIds /\ outcome[call.no] = "open" /\ commits' = commits
        /\ outcome' = [outcome EXCEPT ![call.no] = "ok"]
    BY <1>3, <1>7 DEF Succeeds
  <2>2. commits[call.no] = 1
    BY <1>7 DEF Succeeds, IInv, InfoInv, TypeOK
  <2>3. Phases' = [Phases EXCEPT ![call.no] = "ok"] /\ Begun' = Begun
    BY <1>1, <2>1, OutcomeMaps DEF Begun, Errors
  <2>4. Phases[call.no] = "open"
    BY <2>1, PhaseOf
  <2>5. Abstract!ReturnOk(call.no)
    BY <2>1, <2>2, <2>3, <2>4, Zenon DEF Abstract!ReturnOk
  <2> QED
    BY <2>1, <2>5, Zenon DEF Abstract!Next
<1>8. ASSUME NEW c \in CallIds, commits[c] = 0, outcome[c] \in Errors \cup {"open"},
             commits' = [commits EXCEPT ![c] = @ + 1], outcome' = outcome
      PROVE  Abstract!Next
  <2>1. commits' = [commits EXCEPT ![c] = 1]
    BY <1>1, <1>8
  <2>2. Phases[c] \in {"open", "err"} /\ c \in Begun
    BY <1>8, PhaseOf DEF Begun, Errors
  <2>3. Phases' = Phases /\ Begun' = Begun
    BY <1>2, <1>8
  <2>4. Abstract!Run(c)
    BY <1>8, <2>1, <2>2, <2>3, Zenon DEF Abstract!Run
  <2> QED
    BY <2>4, Zenon DEF Abstract!Next
<1>9. CASE Commits
  <2>1. /\ srv.at = "edit" /\ commits' = [commits EXCEPT ![call.no] = @ + 1]
        /\ outcome' = outcome /\ up /\ out # <<>>
    BY <1>9, Zenon DEF Commits
  <2>2. call.pc # "idle"
    BY <1>9, EditShape DEF Commits
  <2>3. commits[call.no] = 0
    BY <2>1 DEF IInv, InfoInv
  <2> QED
    BY <1>3, <1>8, <2>1, <2>2, <2>3
<1>10. CASE CommitsLate
  <2>1. PICK c \in orphans : commits' = [commits EXCEPT ![c] = @ + 1] /\ outcome' = outcome
    BY <1>10, Zenon DEF CommitsLate
  <2>2. c \in CallIds /\ commits[c] = 0 /\ outcome[c] \notin {"none", "ok"}
    BY DEF IInv, OrphanInv, TypeOK
  <2>3. outcome[c] \in Errors \cup {"open"}
    BY <1>1, <2>2
  <2> QED
    BY <1>8, <2>1, <2>2, <2>3
<1> QED
  BY <1>4, <1>5, <1>6, <1>7, <1>9, <1>10, Effects

\* To the owner of the session a commit is executed at most once, has been
\* executed when it returns Ok, and is never repeated: commit() has no retry.
THEOREM Refinement == Spec => ImplementsAtMostOnceCall
<1>1. Init => Abstract!Init
  BY DEF Init, Abstract!Init, Phases, Begun
<1>2. IInv /\ IInv' /\ [Next]_vars => [Abstract!Next]_(Abstract!avars)
  BY StepMaps
<1> QED
  BY <1>1, <1>2, Invariance, PTL DEF Spec, ImplementsAtMostOnceCall, Abstract!Spec
=============================================================================
