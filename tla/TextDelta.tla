----------------------------- MODULE TextDelta -----------------------------
(***************************************************************************)
(* A text delta on its way from the wire into a file: the strings that     *)
(* read_item returns are pushed into a SvndiffStream, which hands a window *)
(* to the applier as soon as it is complete.  The delta may be cut into    *)
(* chunks anywhere, and a chunk by the reads of the socket anywhere.       *)
(***************************************************************************)
EXTENDS WireReader, Svndiff

CONSTANT
    Deltas \* what a server may send: DeltaType

VARIABLES
    delta,  \* the delta that is sent, or NoDelta for Streams of other items
    applier \* a TextDeltaApplier over memory or over a file

deltaVars == <<stream, banner, net, buf, read, got, timeouts, spoiled, delta, applier>>

\* The delta of a text, as bytes; what its windows are meant to give; whether
\* the bytes are all of it; whether a window after `targets' is wrong.
NoDelta == [base |-> <<>>, bytes |-> <<>>, targets |-> <<>>, whole |-> FALSE, wrong |-> FALSE]

\* The server sends no chunk or an empty one for an empty delta, and cuts any
\* other one into three, some of which may be empty.
Chunkings(bytes) ==
    IF bytes = <<>> THEN {<<>>, <<Text(<<>>)>>}
    ELSE UNION {{<<Text(SubSeq(bytes, 1, i)), Text(SubSeq(bytes, i + 1, j)), Text(After(bytes, j))>> :
                   i \in 0 .. j} : j \in 0 .. Len(bytes)}

-----------------------------------------------------------------------------
(* applier.rs.                                                             *)

Kinds == {"memory", "file"}
NoWindow == [is |-> "none"]
Before == [offset |-> 0, sview |-> 0]

\* SvndiffStream::default, and where the applier is in it.
New(kind) ==
    [kind |-> kind, at |-> "chunk", fed |-> 0, header |-> <<>>, buf |-> <<>>,
     any |-> FALSE, pending |-> NoWindow, last |-> Before, out |-> <<>>]
Version == CHOOSE v \in Versions : applier.header = Header(v)

\* The source view of a window: in a file an empty one may be anywhere.
SourceView(kind, base, window) ==
    IF window.offset + window.sview > Len(base) /\ (kind = "memory" \/ window.sview > 0) THEN Bad
    ELSE IF window.sview = 0 THEN [is |-> "data", data |-> <<>>]
    ELSE [is |-> "data", data |-> SubSeq(base, window.offset + 1, window.offset + window.sview)]

\* What a complete window at the start of `bytes' is worth.
WindowTarget(kind, base, version, window, bytes) ==
    LET wire == After(bytes, window.header)
        ins == DecodeSection(version, SubSeq(wire, 1, window.ins), InstructionMax)
        new == DecodeSection(version, SubSeq(wire, window.ins + 1, window.ins + window.new), WindowMax)
        source == SourceView(kind, base, window)
    IN IF Bad \in {ins, new, source} THEN Bad
       ELSE Execute(ins.data, source.data, new.data, window.tview)

Wire == UNCHANGED <<stream, banner, net, buf, read, got, timeouts, spoiled, delta>>
Fails == applier' = [applier EXCEPT !.at = "failed"]

\* SvndiffStream::push: the header is put together from as many chunks as it
\* takes.
Push ==
    /\ applier.at = "chunk" /\ applier.fed < Len(got) /\ Is(got[applier.fed + 1], "string")
    /\ LET chunk == got[applier.fed + 1].string
           take == Min({HeaderLen - Len(applier.header), Len(chunk)})
           header == applier.header \o SubSeq(chunk, 1, take)
           known == \E v \in Versions : header = Header(v)
       IN IF take > 0 /\ Len(header) = HeaderLen /\ ~known THEN Fails
          ELSE applier' = [applier EXCEPT !.at = IF known THEN "windows" ELSE "chunk",
                              !.any = @ \/ chunk # <<>>, !.header = header,
                              !.buf = @ \o After(chunk, take), !.fed = @ + 1]
    /\ Wire

\* Mutant: the limit of one integer for the five of a header.
LongerThanOne(n) == n > MaxUintLen

\* A header of five integers is not longer than this.
TooLong(n) == n > 5 * MaxUintLen

Looking == applier.at = "windows" /\ applier.pending = NoWindow

\* next_window: a window header is remembered, not consumed, until all of its
\* window is there.
TakeHeader ==
    /\ Looking /\ Wire
    /\ \E window \in {ParseHeader(applier.buf)} :
       \/ window.is = "window" /\ applier' = [applier EXCEPT !.pending = window]
       \/ window = Bad /\ Fails
       \/ window = Short /\ TooLong(Len(applier.buf)) /\ Fails
       \/ /\ window = Short /\ ~TooLong(Len(applier.buf))
          /\ applier' = [applier EXCEPT !.at = "chunk"]

AwaitMore ==
    /\ applier.at = "windows" /\ applier.pending # NoWindow
    /\ Len(applier.buf) < Needed(applier.pending)
    /\ applier' = [applier EXCEPT !.at = "chunk"] /\ Wire

\* The rest of next_window, and the body of the loop in push.
TakeWindow ==
    /\ applier.at = "windows" /\ applier.pending # NoWindow
    /\ Len(applier.buf) >= Needed(applier.pending)
    /\ \E window \in {applier.pending},
          result \in {WindowTarget(applier.kind, delta.base, Version, applier.pending, applier.buf)} :
          IF Backwards(window, applier.last) \/ result = Bad THEN Fails
          ELSE applier' = [applier EXCEPT !.pending = NoWindow, !.out = @ \o result.data,
                              !.buf = After(@, Needed(window)),
                              !.last = [offset |-> window.offset, sview |-> window.sview]]
    /\ Wire

\* textdelta-end: no chunk at all leaves the base as it is.
EndDelta ==
    /\ applier.at = "chunk" /\ applier.fed = Len(stream)
    /\ applier' =
         IF ~applier.any THEN [applier EXCEPT !.at = "done", !.out = delta.base]
         ELSE IF Len(applier.header) < HeaderLen \/ applier.pending # NoWindow \/ applier.buf # <<>>
         THEN [applier EXCEPT !.at = "failed"]
         ELSE [applier EXCEPT !.at = "done"]
    /\ Wire

-----------------------------------------------------------------------------

DeltaInit ==
    /\ \/ /\ delta = NoDelta /\ stream \in Streams /\ banner \in Banners
          /\ applier = [New("memory") EXCEPT !.at = "none"]
       \/ /\ delta \in Deltas /\ stream \in Chunkings(delta.bytes) /\ banner = <<>>
          /\ applier \in {New(kind) : kind \in Kinds}
    /\ Connected

Apply == Push \/ TakeHeader \/ AwaitMore \/ TakeWindow \/ EndDelta

Others == UNCHANGED <<delta, applier>>

\* The next item is read when the handler is done with this one.  Nobody polls
\* for data in the middle of a drive; a read that times out ends it.
Drive == applier.at = "none" \/ (applier.at = "chunk" /\ applier.fed = Len(got))

DeltaNext ==
    \/ Drive /\ Progress /\ Others
    \/ Apply
    \/ delta = NoDelta /\ (ReadTimeout \/ DataAvailable) /\ Others

DeltaSpec ==
    /\ DeltaInit /\ [][DeltaNext]_deltaVars
    /\ WF_deltaVars(Drive /\ Progress /\ Others) /\ WF_deltaVars(Apply)

-----------------------------------------------------------------------------
(* Properties.                                                             *)

\* What comes out of the applier is at any time the targets of the first windows
\* of the delta, for all versions, encoders and cuts; a delta that is whole is
\* never refused and gives its text, a wrong one is never accepted.
WholeWindows ==
    delta # NoDelta =>
      LET texts == [j \in 0 .. Len(delta.targets) |-> FlattenSeq(SubSeq(delta.targets, 1, j))]
          all == texts[Len(delta.targets)]
      IN /\ \/ \E j \in DOMAIN texts : applier.out = texts[j]
            \/ delta.bytes = <<>>
         /\ delta.whole => applier.at # "failed"
         /\ delta.whole /\ applier.at = "done" =>
              applier.out = IF delta.bytes = <<>> THEN delta.base ELSE all
         /\ delta.wrong => applier.at # "done"

\* What a delta is worth when all of it is there at once.
RECURSIVE WindowsOf(_, _, _, _, _, _)
WindowsOf(kind, base, version, bytes, last, out) ==
    IF bytes = <<>> THEN [at |-> "done", out |-> out]
    ELSE LET window == ParseHeader(bytes) IN
         IF window.is # "window" THEN [at |-> "failed", out |-> out]
         ELSE LET result == IF Len(bytes) < Needed(window) THEN Bad
                            ELSE WindowTarget(kind, base, version, window, bytes)
              IN
              IF Backwards(window, last) \/ result = Bad
              THEN [at |-> "failed", out |-> out]
              ELSE WindowsOf(kind, base, version, After(bytes, Needed(window)),
                             [offset |-> window.offset, sview |-> window.sview],
                             out \o result.data)
AtOnce(kind, base, bytes) ==
    LET known == {v \in Versions : IsPrefix(Header(v), bytes)} IN
    IF bytes = <<>> THEN [at |-> "done", out |-> base]
    ELSE IF known = {} THEN [at |-> "failed", out |-> <<>>]
    ELSE WindowsOf(kind, base, CHOOSE v \in known : TRUE, After(bytes, HeaderLen), Before, <<>>)

\* Where a delta is cut, by the server or on its way, makes no difference to
\* whether it is accepted, nor to what has been written when it is refused.
CutsDoNotMatter ==
    applier.at \in {"done", "failed"} =>
        [at |-> applier.at, out |-> applier.out] = AtOnce(applier.kind, delta.base, delta.bytes)

\* What was written arrives: as items, or as the text of a delta that is whole,
\* wherever the stream is cut.
Arrives ==
    /\ delta = NoDelta => AllRead
    /\ delta.whole => <>(applier.at = "done")
==============================================================================
