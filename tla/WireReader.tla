----------------------------- MODULE WireReader -----------------------------
(***************************************************************************)
(* Items on the wire: how the encoder writes them and how read_item reads  *)
(* them from a buffer that any read of the socket may end anywhere, the    *)
(* banner an SSH tunnel may put before the greeting, and the poll for data *)
(* between two items.                                                      *)
(*                                                                         *)
(* A byte is one of a few characters that the reader tells apart; numbers  *)
(* are written with the digits 0 and 1, so Base is 2 here and 10 there.    *)
(***************************************************************************)
EXTENDS Naturals, Sequences, SequencesExt

CONSTANTS
    Streams,    \* what a server may write: sequences of items
    Banners,    \* what a tunnel may print before it
    MaxNumber,  \* u64::MAX
    MaxDepth,   \* MAX_LIST_DEPTH
    MaxGarbage, \* MAX_GARBAGE
    Chunk,      \* the size of one read
    MaxTimeouts \* bound on the reads that time out

ASSUME BoundAssumption ==
    MaxNumber \in Nat /\ MaxDepth \in Nat /\ MaxGarbage \in Nat
    /\ Chunk \in Nat \ {0} /\ MaxTimeouts \in Nat

VARIABLES
    stream,  \* the items the server writes
    banner,  \* what comes before them
    net,     \* bytes that have not been read from the socket
    buf,     \* RaSvnConnection::buf from pos on
    read,    \* the call in progress and its locals
    got,     \* what the calls of read_item have returned
    timeouts, \* how many calls were given up
    spoiled  \* one of them had consumed part of an item

vars == <<stream, banner, net, buf, read, got, timeouts, spoiled>>

Base == 2
Space == {" ", "\n"}
Digits == {"0", "1"}
Value(ch) == IF ch = "0" THEN 0 ELSE 1

\* Items have distinct domains, so that TLC can compare them.
Word(w) == [word |-> w]
Number(n) == [number |-> n]
Text(bytes) == [string |-> bytes]
List(items) == [list |-> items]
Flag(b) == [flag |-> b]
Error(why) == [error |-> why]
Is(item, field) == field \in DOMAIN item

-----------------------------------------------------------------------------
(* wire.rs, item.rs.                                                       *)

RECURSIVE Decimal(_)
Decimal(n) ==
    IF n < Base THEN <<IF n = 0 THEN "0" ELSE "1">>
    ELSE Append(Decimal(n \div Base), IF n % Base = 0 THEN "0" ELSE "1")

LengthOf(bytes) == Decimal(Len(bytes))

RECURSIVE Encode(_)
Encode(item) ==
    IF Is(item, "word") THEN item.word \o <<" ">>
    ELSE IF Is(item, "number") THEN Decimal(item.number) \o <<" ">>
    ELSE IF Is(item, "flag") THEN (IF item.flag THEN <<"t", " ">> ELSE <<"f", " ">>)
    ELSE IF Is(item, "string") THEN LengthOf(item.string) \o <<":">> \o item.string \o <<" ">>
    ELSE <<"(", " ">> \o FlattenSeq([i \in DOMAIN item.list |-> Encode(item.list[i])])
                      \o <<")", " ">>

\* write_item.
Line(item) == Append(Encode(item), "\n")

-----------------------------------------------------------------------------
(* io.rs.                                                                  *)

Idle == [mode |-> "idle", stack |-> <<>>, n |-> 0, bytes |-> <<>>, need |-> 0]
Top == Len(read.stack)

Bytes(s) == UNCHANGED <<stream, banner, net, timeouts, spoiled>> /\ buf' = s
Goto(r) == read' = r /\ UNCHANGED got
Return(result) == read' = Idle /\ got' = Append(got, result)

\* A finished item goes to the list it is in, or to the caller.
Finish(item, stack) ==
    IF stack = <<>> THEN Return(item)
    ELSE Goto([Idle EXCEPT !.mode = "list",
                 !.stack = [stack EXCEPT ![Len(stack)] = Append(@, item)]])

\* A word that is `true' or `false' is a Bool.
WordItem(chars) ==
    IF chars = <<"t">> THEN Flag(TRUE) ELSE IF chars = <<"f">> THEN Flag(FALSE) ELSE Word(chars)

\* checked_mul, checked_add.
Grown(n, ch) == n * Base + Value(ch)

\* A nested list is refused when there are MAX_LIST_DEPTH open ones.
TooDeep == Top >= MaxDepth

\* The start of an item: at top level, or inside a list.
Begin(ch) ==
    \/ ch \in Space /\ Goto(read)
    \/ ch = "(" /\ (IF read.mode = "list" /\ TooDeep THEN Return(Error("depth"))
                    ELSE Goto([read EXCEPT !.mode = "open"]))
    \/ ch = ")" /\ read.mode = "list" /\ Goto([read EXCEPT !.mode = "close"])
    \/ ch \in Digits /\ Goto([read EXCEPT !.mode = "digits", !.n = Value(ch)])
    \/ /\ ch \notin Space \cup Digits \cup {"(", ")", ":"}
       /\ Goto([read EXCEPT !.mode = "word", !.bytes = <<ch>>])
    \/ /\ ch = ":" \/ (ch = ")" /\ read.mode = "start")
       /\ Return(Error("token"))

\* require_ws after a parenthesis.
Open(ch) ==
    IF ch \in Space THEN Goto([read EXCEPT !.mode = "list", !.stack = Append(@, <<>>)])
    ELSE Return(Error("space"))
Close(ch) ==
    IF ch \in Space THEN Finish(List(read.stack[Top]), SubSeq(read.stack, 1, Top - 1))
    ELSE Return(Error("space"))

\* parse_digits, and what the number turns out to be.
InDigits(ch) ==
    \/ ch \in Digits /\ (IF Grown(read.n, ch) > MaxNumber THEN Return(Error("overflow"))
                         ELSE Goto([read EXCEPT !.n = Grown(read.n, ch)]))
    \/ ch = ":" /\ Goto([read EXCEPT !.mode = IF read.n = 0 THEN "end" ELSE "bytes",
                                     !.need = read.n, !.bytes = <<>>])
    \/ ch \in Space /\ Finish(Number(read.n), read.stack)
    \/ ch \notin Space \cup Digits \cup {":"} /\ Return(Error("space"))

\* read_exact_vec, byte by byte; the bytes are not looked at.
InBytes(ch) ==
    Goto([read EXCEPT !.bytes = Append(@, ch), !.need = @ - 1,
                      !.mode = IF read.need = 1 THEN "end" ELSE "bytes"])
InEnd(ch) ==
    IF ch \in Space THEN Finish(Text(read.bytes), read.stack) ELSE Return(Error("space"))

\* parse_word.
InWord(ch) ==
    \/ ch \in Space /\ Finish(WordItem(read.bytes), read.stack)
    \/ ch \in {"(", ")", ":"} /\ Return(Error("token"))
    \/ ch \notin Space \cup {"(", ")", ":"} /\ Goto([read EXCEPT !.bytes = Append(@, ch)])

\* One byte of read_item.
Consume ==
    /\ read.mode \notin {"idle", "garbage"} /\ buf # <<>>
    /\ Bytes(Tail(buf))
    /\ LET ch == Head(buf) IN
       CASE read.mode \in {"start", "list"} -> Begin(ch)
         [] read.mode = "open" -> Open(ch)
         [] read.mode = "close" -> Close(ch)
         [] read.mode = "digits" -> InDigits(ch)
         [] read.mode = "bytes" -> InBytes(ch)
         [] read.mode = "end" -> InEnd(ch)
         [] read.mode = "word" -> InWord(ch)

Failed == \E i \in DOMAIN got : Is(got[i], "error")

StartRead ==
    /\ read.mode = "idle" /\ ~Failed /\ Len(got) < Len(stream)
    /\ Goto([Idle EXCEPT !.mode = "start"]) /\ Bytes(buf)

\* fill, or the read of skip_leading_garbage: one read of the socket.
Fill ==
    /\ read.mode # "idle" /\ buf = <<>> /\ net # <<>>
    /\ \E k \in 1 .. Chunk :
         /\ k <= Len(net)
         /\ net' = SubSeq(net, k + 1, Len(net))
         /\ IF read.mode = "garbage" /\ read.n + k > MaxGarbage
            THEN buf' = <<>> /\ Return(Error("garbage"))
            ELSE /\ buf' = SubSeq(net, 1, k)
                 /\ Goto(IF read.mode = "garbage" THEN [read EXCEPT !.n = @ + k] ELSE read)
    /\ UNCHANGED <<stream, banner, timeouts, spoiled>>

ReadEof ==
    /\ read.mode # "idle" /\ buf = <<>> /\ net = <<>>
    /\ Return(Error("eof")) /\ Bytes(buf)

\* tokio::time::timeout drops the call: what it has consumed is gone.
ReadTimeout ==
    /\ timeouts < MaxTimeouts /\ timeouts' = timeouts + 1
    /\ read.mode \notin {"idle", "garbage"} /\ buf = <<>>
    /\ Goto(Idle) /\ spoiled' = (spoiled \/ read.mode # "start")
    /\ UNCHANGED <<stream, banner, net, buf>>

\* data_available: blanks are dropped, then the socket is polled once.
SkipSpace(s) ==
    LET first == {i \in DOMAIN s : s[i] \notin Space}
    IN IF first = {} THEN <<>> ELSE SubSeq(s, CHOOSE i \in first : \A j \in first : i <= j, Len(s))

\* Mutant: the poll takes the byte it has looked at.
PeekTaken(s) == IF SkipSpace(s) = <<>> THEN <<>> ELSE Tail(SkipSpace(s))

Polled(s) == SkipSpace(s)

DataAvailable ==
    /\ read.mode = "idle" /\ UNCHANGED <<stream, banner, read, got, timeouts, spoiled>>
    /\ \/ SkipSpace(buf) # buf /\ buf' = SkipSpace(buf) /\ UNCHANGED net
       \/ /\ SkipSpace(buf) = <<>> /\ net # <<>>
          /\ \E k \in 1 .. Chunk :
               /\ k <= Len(net)
               /\ net' = SubSeq(net, k + 1, Len(net))
               /\ buf' = Polled(SubSeq(net, 1, k))

-----------------------------------------------------------------------------
(* handshake.rs, skip_leading_garbage.                                     *)

\* Mutant: a parenthesis at the end of a read is forgotten.
SawHere(ch) == IF ch = "(" /\ Len(buf) > 1 THEN 1 ELSE 0

\* saw_lparen is kept from one read to the next.
Saw(ch) == IF ch = "(" THEN 1 ELSE 0

\* One byte of the scan; the parenthesis is put back before the blank.
Scan ==
    /\ read.mode = "garbage" /\ buf # <<>>
    /\ LET ch == Head(buf) IN
       IF read.need = 1 /\ ch \in Space
       THEN Bytes(<<"(">> \o buf) /\ Goto(Idle)
       ELSE /\ Bytes(Tail(buf))
            /\ Goto([read EXCEPT !.need = Saw(ch)])

-----------------------------------------------------------------------------

\* The server has written a stream; only a greeting, which is a list, is looked
\* for behind a banner.
Connected ==
    /\ banner # <<>> => Is(stream[1], "list")
    /\ net = banner \o FlattenSeq([i \in DOMAIN stream |-> Line(stream[i])])
    /\ buf = <<>> /\ got = <<>> /\ timeouts = 0 /\ spoiled = FALSE
    /\ read = [Idle EXCEPT !.mode = IF banner = <<>> THEN "idle" ELSE "garbage"]

Init == stream \in Streams /\ banner \in Banners /\ Connected

Progress == StartRead \/ Consume \/ Fill \/ Scan \/ ReadEof

Next == Progress \/ ReadTimeout \/ DataAvailable

Spec == Init /\ [][Next]_vars /\ WF_vars(Progress)

-----------------------------------------------------------------------------
(* Properties.                                                             *)

RECURSIVE Depth(_)
Depth(item) ==
    IF ~Is(item, "list") THEN 0
    ELSE 1 + (CHOOSE d \in 0 .. 9 :
                /\ \A i \in DOMAIN item.list : Depth(item.list[i]) <= d
                /\ d = 0 \/ \E i \in DOMAIN item.list : Depth(item.list[i]) = d)

\* The shape of the state.
TypeOK ==
    /\ banner \in Banners
    /\ read.mode \in {"idle", "garbage", "start", "list", "open", "close", "digits",
                      "bytes", "end", "word"}
    /\ read.n <= MaxNumber \/ read.mode = "garbage"
    /\ Top <= MaxDepth /\ read.need \in Nat /\ timeouts <= MaxTimeouts

\* Whatever the reads of the socket bring, read_item returns the items that
\* were written, in order, each once; strings may hold anything.
ReadsWhatWasWritten ==
    ~spoiled => \A i \in DOMAIN got : Is(got[i], "error") \/ got[i] = stream[i]

\* An item that the encoder can write and the reader allows is never an error.
NoFalseError ==
    ~spoiled => \A i \in DOMAIN got :
        Is(got[i], "error") =>
            \/ got[i].error = "depth" /\ Depth(stream[i]) > MaxDepth
            \/ got[i].error = "overflow" /\ stream[i].number > MaxNumber
            \/ got[i].error = "garbage" /\ Len(banner) + Chunk >= MaxGarbage

\* A list deeper than the limit or a number beyond the type is not returned.
NothingBeyondLimits ==
    ~spoiled => \A i \in DOMAIN got :
        ~Is(got[i], "error") => /\ Depth(got[i]) <= MaxDepth
                                /\ Is(got[i], "number") => got[i].number <= MaxNumber

\* Between two items the buffer and the socket hold the rest of what was
\* written, blanks aside: nothing of the next item is consumed, and a poll
\* for data loses none of it.
RestIsIntact ==
    read.mode = "idle" /\ ~spoiled /\ ~Failed =>
        SkipSpace(buf \o net) =
          SkipSpace(FlattenSeq([i \in 1 .. Len(stream) - Len(got) |-> Line(stream[Len(got) + i])]))

\* What read_item returns is what was written, in order and each item once, and
\* what it leaves behind is the rest.
ReadsBack ==
    TypeOK /\ ReadsWhatWasWritten /\ NoFalseError /\ NothingBeyondLimits /\ RestIsIntact

Allowed(item) == Depth(item) <= MaxDepth /\ (Is(item, "number") => item.number <= MaxNumber)

\* All that was written is read, wherever the reads of the socket cut it, if the
\* banner is not too long, no item is beyond the limits, and no call is given up
\* in the middle of one.
AllRead ==
    /\ banner = <<>> \/ Len(banner) + Chunk < MaxGarbage
    /\ \A i \in DOMAIN stream : Allowed(stream[i])
    => <>(spoiled \/ (~Failed /\ Len(got) = Len(stream)))
=============================================================================
