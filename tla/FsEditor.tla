------------------------------- MODULE FsEditor -------------------------------
(***************************************************************************)
(* FsEditor and TokioFsEditor (export/): the editor drive of an update, a  *)
(* switch or a replay becomes files and directories below a root.  A file  *)
(* with a text delta is written beside its place and moved there when its  *)
(* close-file has been checked.                                            *)
(*                                                                         *)
(* The two editors take the same steps; the asynchronous one may be        *)
(* dropped between any two of them.  The server (external) keeps the tree  *)
(* that the client has, as far as it knows, and sends drives that are      *)
(* well-formed on that tree; what is on the disk may be something else.    *)
(***************************************************************************)
EXTENDS Integers, Sequences, FiniteSets

CONSTANTS
    Paths,      \* the paths below the root, each a sequence of names
    Versions,   \* contents of files that the server has
    Disks,      \* what may be below the root at the beginning
    Views,      \* what the first report may say
    MaxDrives,  \* bound on the drives
    MaxEntries  \* bound on the directories and files that they open

Root == <<>>
Node(kind, content, exec) == [kind |-> kind, content |-> content, exec |-> exec]
Nothing == Node("none", "empty", "-")
Dir == Node("dir", "empty", "-")

\* "junk" is a content that no revision has, "part" a file written half-way.
Contents == Versions \cup {"empty", "junk", "part"}
Nodes == [kind : {"none", "file", "dir", "link"}, content : Contents, exec : {"x", "-", "any"}]

\* The paths are closed under prefixes, and a tree has nothing outside its
\* directories; the server keeps of a directory only that it is there.
Names == UNION {{p[i] : i \in DOMAIN p} : p \in Paths}
Prefixes(p) == {SubSeq(p, 1, i) : i \in 1 .. Len(p)}
IsTree(tree) ==
    \A p \in Paths : tree[p].kind # "none" =>
       \A q \in Prefixes(p) \ {p} : tree[q].kind = "dir"
IsPlain(tree) ==
    \A p \in Paths : /\ tree[p].kind = "none" => tree[p] = Nothing
                     /\ tree[p].kind = "dir" => tree[p] = Dir

ASSUME PathAssumption ==
    /\ Paths \subseteq Seq(Names)
    /\ \A p \in Paths : p # Root /\ Prefixes(p) \subseteq Paths
ASSUME TreeAssumption ==
    /\ Disks \subseteq [Paths -> Nodes] /\ Views \subseteq [Paths -> Nodes]
    /\ \A tree \in Disks \cup Views : IsTree(tree)
    /\ \A tree \in Views : IsPlain(tree)
ASSUME BoundAssumption == MaxDrives \in Nat /\ MaxEntries \in Nat

VARIABLES
    disk,     \* what is below the root
    temps,    \* the temporary files there
    outside,  \* something has been written through a symbolic link
    dirTok,   \* dir_tokens
    fileTok,  \* file_tokens, file_copy_from and file_added
    execTok,  \* exec_tokens
    pending,  \* pending_files
    nextTmp,  \* next_tmp_id
    closing,  \* the close-file that is being carried out
    pc,       \* where the editor is
    view,     \* the server: the tree that the client has or is to have
    sent,     \* the server: token -> the directory or file it has open
    issued,   \* the server: the tokens of this drive
    drives,   \* the drives so far
    entries,  \* the directories and files they have opened
    start,    \* what the disk and the temporary files were as the drive began
    clean,    \* whether that was what the report said, and no more
    unchecked \* the files of the drive that were closed without a checksum

editor == <<dirTok, fileTok, execTok, pending, nextTmp>>
files == <<disk, temps, outside>>
server == <<view, sent, issued, unchecked>>
drive == <<drives, entries, start, clean>>
vars == <<files, editor, closing, pc, server, drive>>

Set(f, x, v) == [y \in DOMAIN f \cup {x} |-> IF y = x THEN v ELSE f[y]]
Drop(f, x) == [y \in DOMAIN f \ {x} |-> f[y]]

Parent(p) == SubSeq(p, 1, Len(p) - 1)
Inside(p, d) == Len(p) > Len(d) /\ SubSeq(p, 1, Len(d)) = d
NodeAt(tree, p) == IF p = Root THEN Dir ELSE tree[p]
Kind(p) == NodeAt(disk, p).kind

-----------------------------------------------------------------------------
(* The file system, and the checks before it is written to.                *)

\* ensure_no_symlink_prefix: no link on the way; a file on the way is an error too.
NoLink(p) ==
    /\ \A q \in Prefixes(p) : Kind(q) # "link"
    /\ \A q \in Prefixes(p) \ {p} : Kind(q) # "file"

\* create_dir_all_no_symlink succeeds.
CanMake(d) == \A q \in Prefixes(d) : Kind(q) \in {"dir", "none"}
WithDirs(tree, d) == [p \in Paths |-> IF p \in Prefixes(d) THEN Dir ELSE tree[p]]

\* file_exists_no_symlink does not fail.
FileOrNone(p) == NoLink(p) /\ Kind(p) \in {"file", "none"}

\* A path that goes through a link, or is one.
Through(p) == \E q \in Prefixes(p) : Kind(q) = "link"

\* The tree with the entry removed, and everything in it.
Removed(tree, p) == [q \in Paths |-> IF q = p \/ Inside(q, p) THEN Nothing ELSE tree[q]]
TempsOutside(p) == {tmp \in temps : ~Inside(tmp.dest, p)}

-----------------------------------------------------------------------------
(* How a handler ends.                                                     *)

Idle == [step |-> "none"]

\* The handler returns an error: the drive is over, the editor stays as it is.
Refuse(place) == pc' = place /\ UNCHANGED <<editor, closing, server, drive>>

Unwritten == UNCHANGED files

\* The bookkeeping of the server for an accepted event.
Issue(token, entry) ==
    /\ issued' = issued + 1 /\ entries' = entries + 1
    /\ sent' = Set(sent, token, entry)

-----------------------------------------------------------------------------
(* The drive begins.                                                       *)

Between == {"fresh", "closed", "aborted"}
Agree(a, b) == /\ a.kind = b.kind /\ a.content = b.content
               /\ b.exec # "any" => a.exec = b.exec

\* open-root: an update to an empty report, or to what the client has.
OpenRoot ==
    /\ pc \in Between /\ drives < MaxDrives
    /\ \E reported \in {[p \in Paths |-> Nothing]} \cup (IF pc = "aborted" THEN {} ELSE {view}) :
          /\ view' = reported
          /\ clean' = (temps = {} /\ \A p \in Paths : Agree(disk[p], reported[p]))
    /\ drives' = drives + 1
    /\ start' = [disk |-> disk, temps |-> temps]
    /\ sent' = Set(<<>>, 0, [kind |-> "dir", path |-> Root])
    /\ issued' = 0 /\ unchecked' = {}
    /\ \/ 0 \in DOMAIN dirTok /\ pc' = "refused" /\ UNCHANGED editor
       \/ /\ 0 \notin DOMAIN dirTok
          /\ pc' = "driving"
          /\ dirTok' = Set(dirTok, 0, Root)
          /\ UNCHANGED <<fileTok, execTok, pending, nextTmp>>
    /\ UNCHANGED <<files, closing, entries>>

SentDirs == {t \in DOMAIN sent : sent[t].kind = "dir"}
SentFiles == {t \in DOMAIN sent : sent[t].kind = "file"}

\* Nothing is done twice at a path that is open.
NotOpen(p) == \A t \in DOMAIN sent : sent[t].path # p /\ ~Inside(sent[t].path, p)

\* Another directory or file may be opened inside the one of token t.
MayEnter(t, p) == pc = "driving" /\ Parent(p) = sent[t].path /\ entries < MaxEntries /\ NotOpen(p)

-----------------------------------------------------------------------------
(* Directories.                                                            *)

\* open_dir with the token the server has chosen.
EnterDir(t, p) ==
    LET token == issued + 1 IN
    \/ /\ ~(t \in DOMAIN dirTok /\ CanMake(p) /\ token \notin DOMAIN dirTok)
       /\ Refuse("refused") /\ Unwritten
    \/ /\ t \in DOMAIN dirTok /\ CanMake(p) /\ token \notin DOMAIN dirTok
       /\ disk' = WithDirs(disk, p) /\ outside' = (outside \/ Through(p))
       /\ dirTok' = Set(dirTok, token, p)
       /\ Issue(token, [kind |-> "dir", path |-> p])
       /\ view' = [view EXCEPT ![p] = Dir]
       /\ UNCHANGED <<temps, fileTok, execTok, pending, nextTmp, closing, pc, unchecked,
                      drives, start, clean>>

AddDir ==
    \E t \in SentDirs, p \in Paths :
       MayEnter(t, p) /\ view[p].kind = "none" /\ EnterDir(t, p)

\* A directory that is a copy is always refused.
CopyDir ==
    \E t \in SentDirs, p \in Paths :
       /\ MayEnter(t, p) /\ view[p].kind = "none"
       /\ \E q \in Paths : view[q].kind = "dir"
       /\ Refuse("copyRefused") /\ Unwritten

OpenDir ==
    \E t \in SentDirs, p \in Paths :
       MayEnter(t, p) /\ view[p].kind = "dir" /\ EnterDir(t, p)

\* Files may stay open when their directory is closed.
CloseDir ==
    \E t \in SentDirs :
       /\ pc = "driving"
       /\ \A u \in SentDirs : ~Inside(sent[u].path, sent[t].path)
       /\ \/ t \notin DOMAIN dirTok /\ Refuse("refused") /\ Unwritten
          \/ /\ t \in DOMAIN dirTok
             /\ dirTok' = Drop(dirTok, t)
             /\ sent' = Drop(sent, t)
             /\ UNCHANGED <<files, fileTok, execTok, pending, nextTmp, closing, pc, view,
                            issued, unchecked, drive>>

DeleteEntry ==
    \E t \in SentDirs, p \in Paths :
       /\ pc = "driving" /\ Parent(p) = sent[t].path /\ NotOpen(p) /\ view[p].kind # "none"
       /\ \/ ~(t \in DOMAIN dirTok /\ NoLink(Parent(p))) /\ Refuse("refused") /\ Unwritten
          \/ /\ t \in DOMAIN dirTok /\ NoLink(Parent(p))
             /\ disk' = Removed(disk, p) /\ outside' = (outside \/ Through(Parent(p)))
             /\ temps' = TempsOutside(p)
             /\ view' = Removed(view, p)
             /\ UNCHANGED <<editor, closing, pc, sent, issued, unchecked, drive>>

-----------------------------------------------------------------------------
(* Files.                                                                  *)

\* The source of a file that is no copy.
NoPath == Root

\* What the server keeps of a file: the text and the executable bit it has had so
\* far, where it was copied from, how far its text delta is.
FileEntry(p, node, from) ==
    [kind |-> "file", path |-> p, base |-> node.content, content |-> node.content,
     exec |-> node.exec, told |-> FALSE, from |-> from, delta |-> "none"]

\* track_file, after the directory of the file has been made.
EnterFile(t, p, from, added, node) ==
    LET token == issued + 1
        fine == /\ t \in DOMAIN dirTok /\ CanMake(Parent(p)) /\ token \notin DOMAIN fileTok
                /\ from # NoPath => NoLink(from) IN
    \/ ~fine /\ Refuse(IF from = NoPath THEN "refused" ELSE "copyRefused") /\ Unwritten
    \/ /\ fine
       /\ disk' = WithDirs(disk, Parent(p)) /\ outside' = (outside \/ Through(Parent(p)))
       /\ fileTok' = Set(fileTok, token, [dest |-> p, from |-> from, added |-> added])
       /\ Issue(token, FileEntry(p, node, from))
       /\ UNCHANGED <<temps, dirTok, execTok, pending, nextTmp, closing, pc, view,
                      unchecked, drives, start, clean>>

AddFile ==
    \E t \in SentDirs, p \in Paths :
       /\ MayEnter(t, p) /\ view[p].kind = "none"
       /\ EnterFile(t, p, NoPath, TRUE, Node("file", "empty", "-"))

\* The copied revision of a file may have another text than the file has now, and
\* another executable bit.
CopyFile ==
    \E t \in SentDirs, p, q \in Paths, v \in Versions :
       /\ MayEnter(t, p) /\ view[p].kind = "none" /\ view[q].kind = "file"
       /\ EnterFile(t, p, q, TRUE, Node("file", v, "any"))

OpenFile ==
    \E t \in SentDirs, p \in Paths :
       /\ MayEnter(t, p) /\ view[p].kind = "file"
       /\ EnterFile(t, p, NoPath, FALSE, view[p])

Tmp(dest, token, id) == [dest |-> dest, token |-> token, id |-> id]

\* The text that the delta will be applied to.
BaseOf(f) == IF f.from # NoPath \/ Kind(f.dest) # "file" THEN "empty" ELSE disk[f.dest].content

\* apply-textdelta, with the checksum of the base or without.
ApplyTextDelta ==
    \E t \in SentFiles, checked \in BOOLEAN :
       /\ pc = "driving" /\ sent[t].delta = "none"
       /\ LET f == fileTok[t]
              tmp == Tmp(f.dest, t, nextTmp + 1)
              fine == /\ t \in DOMAIN fileTok
                      /\ NoLink(f.dest)
                      /\ checked => /\ f.from = NoPath /\ Kind(f.dest) # "dir"
                                     /\ BaseOf(f) = sent[t].base
                      /\ tmp \notin temps /\ Kind(Parent(f.dest)) = "dir" IN
          \/ /\ ~fine
             /\ Refuse(IF sent[t].from = NoPath THEN "refused" ELSE "copyRefused") /\ Unwritten
          \/ /\ fine
             /\ temps' = temps \cup {tmp} /\ outside' = (outside \/ Through(f.dest))
             /\ pending' = Set(pending, t, [dest |-> f.dest, tmp |-> tmp, base |-> BaseOf(f),
                                             out |-> "empty", ended |-> FALSE])
             /\ nextTmp' = nextTmp + 1
             /\ sent' = [sent EXCEPT ![t].delta = "begun"]
             /\ UNCHANGED <<disk, dirTok, fileTok, execTok, closing, pc, view, issued,
                            unchecked, drive>>

\* The windows of a delta to text v, against the base or against nothing.  On
\* another base they yield junk, or refer to what is not there.
TextDeltaChunk ==
    \E t \in SentFiles, v \in Versions, full \in BOOLEAN :
       /\ pc = "driving" /\ sent[t].delta = "begun"
       /\ LET applies == full \/ pending[t].base = sent[t].base IN
          \/ /\ t \notin DOMAIN pending \/ ~applies
             /\ Refuse(IF sent[t].from = NoPath THEN "refused" ELSE "copyRefused") /\ Unwritten
          \/ /\ t \in DOMAIN pending
             /\ pending' = [pending EXCEPT ![t].out = IF applies THEN v ELSE "junk"]
             /\ sent' = [sent EXCEPT ![t].delta = "sent", ![t].content = v]
             /\ UNCHANGED <<files, dirTok, fileTok, execTok, nextTmp, closing, pc, view,
                            issued, unchecked, drive>>

\* A delta without a window leaves the base as it is.  One that is cut short fails in
\* TextDeltaApplierFileSync::finish, with nothing changed but the applier: see Break.
TextDeltaEnd ==
    \E t \in SentFiles :
       /\ pc = "driving" /\ sent[t].delta \in {"begun", "sent"}
       /\ pending' = [pending EXCEPT ![t].ended = TRUE,
                         ![t].out = IF sent[t].delta = "begun" THEN pending[t].base ELSE @]
       /\ sent' = [sent EXCEPT ![t].delta = "ended"]
       /\ UNCHANGED <<files, dirTok, fileTok, execTok, nextTmp, closing, pc, view, issued,
                      unchecked, drive>>

\* change-file-prop of svn:executable; the other properties are ignored.
ChangeFileProp ==
    \E t \in SentFiles, exec \in {"x", "-"} :
       /\ pc = "driving" /\ ~sent[t].told
       /\ \/ t \notin DOMAIN fileTok /\ Refuse("refused") /\ Unwritten
          \/ /\ t \in DOMAIN fileTok
             /\ execTok' = Set(execTok, t, exec)
             /\ sent' = [sent EXCEPT ![t].told = TRUE, ![t].exec = exec]
             /\ UNCHANGED <<files, dirTok, fileTok, pending, nextTmp, closing, pc, view,
                            issued, unchecked, drive>>

-----------------------------------------------------------------------------
(* close-file.                                                             *)

\* Mutant: the checksum is not looked at.
AlwaysVerified(content, checked, expected) == TRUE

\* verify_checksum, if there is one.
Verified(content, checked, expected) == checked => content = expected

Closes(t) == pc = "driving" /\ t \in SentFiles /\ sent[t].delta \in {"none", "ended"}
Refusal(t) == IF sent[t].from = NoPath THEN "refused" ELSE "copyRefused"

Carry(t, checked, step, content) ==
    /\ pc' = "closing"
    /\ closing' = [step |-> step, token |-> t, dest |-> fileTok[t].dest,
                   content |-> content, checked |-> checked]
    /\ unchecked' = IF checked THEN unchecked ELSE unchecked \cup {fileTok[t].dest}

\* With a text delta: the new text is checked and the old file removed.
CloseDelta ==
    \E t \in DOMAIN pending, checked \in BOOLEAN :
       /\ Closes(t)
       /\ LET d == pending[t]
              sound == NoLink(d.dest) /\ d.ended /\ (fileTok[t].from # NoPath => checked) IN
          \/ /\ ~sound /\ pc' = Refusal(t) /\ Unwritten
             /\ pending' = IF fileTok[t].from # NoPath /\ ~checked THEN pending
                           ELSE Drop(pending, t)
             /\ UNCHANGED <<closing, unchecked>>
          \/ /\ sound /\ ~Verified(d.out, checked, sent[t].content)
             /\ pc' = Refusal(t) /\ temps' = temps \ {d.tmp}
             /\ pending' = Drop(pending, t)
             /\ UNCHANGED <<disk, outside, closing, unchecked>>
          \/ /\ sound /\ Verified(d.out, checked, sent[t].content) /\ ~FileOrNone(d.dest)
             /\ pc' = Refusal(t) /\ Unwritten
             /\ pending' = Drop(pending, t)
             /\ UNCHANGED <<closing, unchecked>>
          \/ /\ sound /\ Verified(d.out, checked, sent[t].content) /\ FileOrNone(d.dest)
             /\ disk' = Removed(disk, d.dest)
             /\ pending' = Drop(pending, t)
             /\ Carry(t, checked, [do |-> "rename", tmp |-> d.tmp], d.out)
             /\ UNCHANGED <<temps, outside>>
       /\ UNCHANGED <<dirTok, fileTok, execTok, nextTmp, view, sent, issued, drive>>

\* The temporary file, which nobody may execute, takes the place of the old one.
Rename ==
    /\ pc = "closing" /\ closing.step.do = "rename"
    /\ disk' = [disk EXCEPT ![closing.dest] = Node("file", closing.content, "-")]
    /\ outside' = (outside \/ Through(Parent(closing.dest)))
    /\ temps' = temps \ {closing.step.tmp}
    /\ closing' = [closing EXCEPT !.step = [do |-> "exec"]]
    /\ UNCHANGED <<editor, pc, server, drive>>

\* Without one: a copy is checked against its source and written.
CloseCopy ==
    \E t \in SentFiles, checked \in BOOLEAN :
       /\ Closes(t) /\ t \in DOMAIN fileTok \ DOMAIN pending /\ fileTok[t].from # NoPath
       /\ LET f == fileTok[t]
              fine == /\ checked /\ NoLink(f.from) /\ Kind(f.from) = "file"
                      /\ Verified(disk[f.from].content, checked, sent[t].content)
                      /\ CanMake(Parent(f.dest)) /\ FileOrNone(f.dest) IN
          \/ ~fine /\ Refuse(Refusal(t)) /\ Unwritten
          \/ /\ fine
             /\ disk' = [WithDirs(disk, Parent(f.dest)) EXCEPT ![f.dest] =
                           Node("file", "part", disk[f.from].exec)]
             /\ outside' = (outside \/ Through(f.dest))
             /\ Carry(t, checked, [do |-> "copy"], disk[f.from].content)
             /\ UNCHANGED <<temps, editor, view, sent, issued, drive>>

Copied ==
    /\ pc = "closing" /\ closing.step.do = "copy"
    /\ disk' = [disk EXCEPT ![closing.dest].content = closing.content]
    /\ closing' = [closing EXCEPT !.step = [do |-> "exec"]]
    /\ UNCHANGED <<temps, outside, editor, pc, server, drive>>

\* A file that was added with no text is empty, one that was opened stays.
CloseUnchanged ==
    \E t \in SentFiles, checked \in BOOLEAN :
       /\ Closes(t) /\ t \in DOMAIN fileTok \ DOMAIN pending /\ fileTok[t].from = NoPath
       /\ LET f == fileTok[t]
              fine == IF f.added
                      THEN /\ Verified("empty", checked, sent[t].content)
                           /\ CanMake(Parent(f.dest)) /\ FileOrNone(f.dest)
                      ELSE NoLink(f.dest) /\ Kind(f.dest) = "file" IN
          \/ ~fine /\ Refuse(Refusal(t)) /\ Unwritten
          \/ /\ fine
             /\ disk' = IF f.added
                        THEN [WithDirs(disk, Parent(f.dest)) EXCEPT ![f.dest] =
                                Node("file", "empty", @.exec)]
                        ELSE disk
             /\ outside' = (outside \/ Through(f.dest))
             /\ Carry(t, checked, [do |-> "verify"], disk'[f.dest].content)
             /\ UNCHANGED <<temps, editor, view, sent, issued, drive>>

Verify ==
    /\ pc = "closing" /\ closing.step.do = "verify"
    /\ \/ /\ ~Verified(closing.content, closing.checked, sent[closing.token].content)
          /\ pc' = Refusal(closing.token) /\ UNCHANGED closing
       \/ /\ Verified(closing.content, closing.checked, sent[closing.token].content)
          /\ closing' = [closing EXCEPT !.step = [do |-> "exec"]]
          /\ UNCHANGED pc
    /\ UNCHANGED <<files, editor, server, drive>>

ClearFile(t) == fileTok' = Drop(fileTok, t) /\ execTok' = Drop(execTok, t)

\* Mutant: the executable bit of a file is never changed.
WithNoExec(node, t) == node

WithExec(node, t) == IF t \in DOMAIN execTok THEN [node EXCEPT !.exec = execTok[t]] ELSE node

\* What the server holds for said of the executable bit of a file that it closes:
\* a file that was moved into place has lost the one it had.
SaidExec(f) == IF ~f.told /\ f.delta = "ended" /\ f.exec = "x" THEN "any" ELSE f.exec

\* The executable bit, and the end of close-file.
Finish ==
    /\ pc = "closing" /\ closing.step.do = "exec"
    /\ LET t == closing.token IN
       /\ disk' = [disk EXCEPT ![closing.dest] = WithExec(@, t)]
       /\ ClearFile(t)
       /\ view' = [view EXCEPT ![sent[t].path] =
                     Node("file", sent[t].content, SaidExec(sent[t]))]
       /\ sent' = Drop(sent, t)
    /\ pc' = "driving" /\ closing' = Idle
    /\ UNCHANGED <<temps, outside, dirTok, pending, nextTmp, issued, unchecked, drive>>

-----------------------------------------------------------------------------
(* The drive ends.                                                         *)

\* Mutant: the directories are forgotten to be forgotten.
ResetFiles == fileTok' = <<>> /\ execTok' = <<>> /\ UNCHANGED dirTok

Reset == dirTok' = <<>> /\ fileTok' = <<>> /\ execTok' = <<>>

CloseEdit ==
    /\ pc = "driving" /\ sent = <<>>
    /\ \/ DOMAIN pending # {} /\ Refuse("refused") /\ Unwritten
       \/ /\ DOMAIN pending = {}
          /\ Reset
          /\ pc' = "closed"
          /\ UNCHANGED <<files, pending, nextTmp, closing, server, drive>>

\* Mutant: the temporary files are left where they are.
LeaveTemps == temps

WithoutPending == temps \ {pending[t].tmp : t \in DOMAIN pending}

\* The server may give up at any time.
AbortEdit ==
    /\ pc = "driving"
    /\ temps' = WithoutPending
    /\ pending' = <<>>
    /\ Reset
    /\ sent' = <<>>
    /\ pc' = "aborted"
    /\ UNCHANGED <<disk, outside, nextTmp, closing, view, issued, unchecked, drive>>

\* An input or output error, a delta that ends in the middle of a window, or the future
\* of the drive is dropped.
Break ==
    /\ pc \in {"driving", "closing"}
    /\ pc' = "broken"
    /\ UNCHANGED <<files, editor, closing, server, drive>>

\* A directory is removed entry by entry.
BreakDelete ==
    \E t \in SentDirs, p \in Paths :
       /\ pc = "driving" /\ Parent(p) = sent[t].path /\ NotOpen(p) /\ view[p].kind = "dir"
       /\ t \in DOMAIN dirTok /\ NoLink(Parent(p)) /\ Kind(p) = "dir"
       /\ \E q \in Paths : Inside(q, p) /\ disk[q] # Nothing /\ disk' = Removed(disk, q)
       /\ pc' = "broken"
       /\ UNCHANGED <<temps, outside, editor, closing, server, drive>>

\* The export is begun again with a new editor.
Again ==
    /\ pc \in {"refused", "copyRefused", "broken"} /\ drives < MaxDrives
    /\ dirTok' = <<>> /\ fileTok' = <<>> /\ execTok' = <<>> /\ pending' = <<>>
    /\ nextTmp' = 0
    /\ closing' = Idle /\ sent' = <<>>
    /\ start' = [disk |-> disk, temps |-> temps]
    /\ pc' = "aborted"
    /\ UNCHANGED <<files, view, issued, unchecked, drives, entries, clean>>

-----------------------------------------------------------------------------

Init ==
    /\ disk \in Disks /\ view \in Views
    /\ temps = {} /\ outside = FALSE
    /\ dirTok = <<>> /\ fileTok = <<>> /\ execTok = <<>> /\ pending = <<>> /\ nextTmp = 0
    /\ closing = Idle /\ pc = "fresh"
    /\ sent = <<>> /\ issued = 0 /\ unchecked = {}
    /\ drives = 0 /\ entries = 0 /\ start = [disk |-> disk, temps |-> {}] /\ clean = FALSE

Next ==
    \/ OpenRoot \/ AddDir \/ CopyDir \/ OpenDir \/ CloseDir \/ DeleteEntry
    \/ AddFile \/ CopyFile \/ OpenFile \/ ApplyTextDelta \/ TextDeltaChunk \/ TextDeltaEnd
    \/ ChangeFileProp \/ CloseDelta \/ Rename \/ CloseCopy \/ Copied \/ CloseUnchanged
    \/ Verify \/ Finish \/ CloseEdit \/ AbortEdit \/ Break \/ BreakDelete \/ Again

Spec == Init /\ [][Next]_vars

-----------------------------------------------------------------------------
(* Properties.                                                             *)

Places == Between \cup {"driving", "closing", "refused", "copyRefused", "broken"}

\* The shape of the state: no entry without its directory, and nothing kept of a
\* file that is not open.
TypeOK ==
    /\ disk \in [Paths -> Nodes] /\ view \in [Paths -> Nodes]
    /\ pc \in Places /\ outside \in BOOLEAN /\ clean \in BOOLEAN
    /\ \A p \in Paths : disk[p].kind # "none" => Kind(Parent(p)) = "dir"
    /\ DOMAIN pending \subseteq DOMAIN fileTok /\ DOMAIN execTok \subseteq DOMAIN fileTok
    /\ pc = "driving" => DOMAIN dirTok = SentDirs /\ DOMAIN fileTok = SentFiles
    /\ unchecked \subseteq Paths /\ nextTmp \in Nat /\ drives \in 0 .. MaxDrives

\* A drive over a tree that is what the report said, with no temporary file of an
\* export that was broken off, is accepted to its end, unless it copies
\* (FsEditor: `it materializes files and directories').  The drives before it,
\* closed or aborted, leave nothing in the editor that is in the way.
CleanDriveIsAccepted == pc = "refused" => ~clean

\* After such a drive every path is what the server made it, with the executable
\* bit the server has spoken of.
AsSent == pc = "closed" /\ clean => \A p \in Paths : Agree(disk[p], view[p])

\* Whatever was on the disk, however the drive ended: a file has the text it had,
\* or the text that the server meant it to have, unless its close-file came
\* without a checksum or was broken off (`before replacing file' in the tests).
VerifiedContent ==
    \A p \in Paths :
       disk[p].kind = "file" =>
          \/ disk[p].content \in {start.disk[p].content, view[p].content}
          \/ p \in unchecked
          \/ closing # Idle /\ closing.dest = p

\* The temporary files of the text deltas that are under way.
Own == {pending[t].tmp : t \in DOMAIN pending}
       \cup (IF closing # Idle /\ closing.step.do = "rename" THEN {closing.step.tmp} ELSE {})

\* Until something fails, there are the temporary files of the text deltas that
\* are under way and those an earlier export has left, no others: none is left
\* when the drive is closed or aborted.
TempsAccounted ==
    pc \in Between \cup {"driving", "closing"} =>
       Own \subseteq temps /\ temps \subseteq Own \cup start.temps

\* Nothing is written through a symbolic link (`Writes are refused beneath
\* symlinks').
StaysInside == ~outside

\* What is on the disk: nothing outside the root, and no text that was not
\* verified.
DiskIsSound == TypeOK /\ VerifiedContent /\ StaysInside
===============================================================================
