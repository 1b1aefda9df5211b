------------------------------ MODULE Svndiff ------------------------------
(***************************************************************************)
(* svndiff versions 0, 1 and 2: the encoder of full texts, and the pieces  *)
(* of the decoder: integers, window headers, sections, instructions.       *)
(*                                                                         *)
(* A byte has four bits here and eight there: the top bit of an integer's  *)
(* byte says that more follows, three carry digits; two bits of a selector *)
(* are the action, two a length.  A byte is written as a character, some   *)
(* of them characters that mean something on the wire.                     *)
(***************************************************************************)
EXTENDS Naturals, Sequences, FiniteSetsExt, SequencesExt

CONSTANTS
    WindowMax,  \* DELTA_WINDOW_MAX
    MaxUintLen, \* MAX_ENCODED_UINT_LEN
    Wrap,       \* 2^64
    ZlibMin     \* ZLIB_MIN_COMPRESS_SIZE

ASSUME SvndiffAssumption ==
    /\ WindowMax \in Nat /\ MaxUintLen \in Nat \ {0} /\ ZlibMin \in Nat
    /\ Wrap \in Nat /\ Wrap > WindowMax

Chars == <<"0", "1", " ", "(", ")", ":", "a", "b",
           "\n", "c", "d", "e", "f", "w", "y", "z">>
Ord == [ch \in ToSet(Chars) |-> (CHOOSE i \in DOMAIN Chars : Chars[i] = ch) - 1]
Byte(n) == Chars[n + 1]

Versions == {0, 1, 2}
HeaderLen == 2
Header(version) == <<"w", Byte(version)>>
InstructionMax == WindowMax * (2 * MaxUintLen + 1)

Pow2Digits == 8
Inline == 4

-----------------------------------------------------------------------------
(* svndiff.rs.                                                             *)

RECURSIVE HighDigits(_)
HighDigits(val) ==
    IF val = 0 THEN <<>>
    ELSE Append(HighDigits(val \div Pow2Digits), Byte(Pow2Digits + (val % Pow2Digits)))

\* encode_uint: every byte but the last says that more follows.
EncodeUint(val) == Append(HighDigits(val \div Pow2Digits), Byte(val % Pow2Digits))

\* A length that fits into the selector is put there.
Selector(action, len) ==
    IF len < Inline THEN <<Byte(action * Inline + len)>>
    ELSE <<Byte(action * Inline)>> \o EncodeUint(len)
NewInstruction(len) == Selector(2, len)

\* What zlib and lz4 are here: runs of one byte become three bytes, anything
\* else gets longer.
Packed(data) ==
    IF data # <<>> /\ Cardinality(ToSet(data)) = 1 THEN <<"z", data[1], Byte(Len(data))>>
    ELSE <<"z">> \o data \o <<"z">>
Unpackable(data) == Len(data) = 3 /\ data[1] = "z"
Unpacked(data) == [i \in 1 .. Ord[data[3]] |-> data[2]]

\* Mutant: packed when that is not longer.
PackedUnlessLonger(packed, data) == IF Len(packed) > Len(data) THEN data ELSE packed

\* Compressed data is told from stored data by its length alone.
Smaller(packed, data) == IF Len(packed) >= Len(data) THEN data ELSE packed

\* compress_zlib, compress_lz4.
EncodeSection(version, data) ==
    IF version = 0 THEN data
    ELSE EncodeUint(Len(data)) \o
         (IF version = 1 /\ Len(data) < ZlibMin THEN data ELSE Smaller(Packed(data), data))

\* The layout of a window.
Window(offset, sview, tview, instructions, newData) ==
    FlattenSeq(<<EncodeUint(offset), EncodeUint(sview), EncodeUint(tview),
                 EncodeUint(Len(instructions)), EncodeUint(Len(newData)),
                 instructions, newData>>)

\* encode_insertion_window.
InsertionWindow(version, data) ==
    Window(0, 0, Len(data),
           EncodeSection(version, IF data = <<>> THEN <<>> ELSE NewInstruction(Len(data))),
           EncodeSection(version, data))

\* encode_fulltext_with_options cuts contents into windows of one size, a
\* streamed commit into what each read of the file brings; one empty window
\* stands for an empty file.
FullText(version, pieces) ==
    Header(version) \o
      (IF pieces = <<>> THEN InsertionWindow(version, <<>>)
       ELSE FlattenSeq([i \in DOMAIN pieces |-> InsertionWindow(version, pieces[i])]))

-----------------------------------------------------------------------------
(* decode.rs.                                                              *)

\* Where the integers at the start of the input end.
Ends(input) == SelectSeq([i \in 1 .. Len(input) |-> i], LAMBDA i : Ord[input[i]] < Pow2Digits)
After(input, used) == SubSeq(input, used + 1, Len(input))

\* checked_shl only looks at the shift: what is shifted out is lost.
UintValue(digits) ==
    FoldLeft(LAMBDA val, ch : ((val * Pow2Digits) % Wrap) + (Ord[ch] % Pow2Digits), 0, digits)

\* try_decode_uint: `used' is 0 when the input ends inside.
DecodeUint(input) ==
    LET ends == Ends(input) IN
    IF ends = <<>> THEN [used |-> 0, val |-> 0]
    ELSE [used |-> ends[1], val |-> UintValue(SubSeq(input, 1, ends[1]))]

Short == [is |-> "short"]
Bad == [is |-> "bad"]

\* try_parse_window_header.
WithinLimits(window) ==
    /\ window.tview <= WindowMax /\ window.sview <= WindowMax
    /\ window.new <= WindowMax + MaxUintLen /\ window.ins <= InstructionMax
    /\ window.offset + window.sview < Wrap
ParseHeader(input) ==
    LET ends == <<0>> \o Ends(input)
        val(i) == UintValue(SubSeq(input, ends[i] + 1, ends[i + 1]))
    IN IF Len(ends) < 6 THEN Short
       ELSE CHOOSE parsed \in {
              IF WithinLimits(window) THEN window ELSE Bad :
                window \in {[is |-> "window", offset |-> val(1), sview |-> val(2), tview |-> val(3),
                             ins |-> val(4), new |-> val(5), header |-> ends[6]]}} : TRUE
Needed(window) == window.header + window.ins + window.new

\* The source views of a delta slide forwards only; an empty one is let
\* through, and is the last one from then on.
Backwards(window, last) ==
    /\ window.sview > 0
    /\ \/ window.offset < last.offset
       \/ window.offset + window.sview < last.offset + last.sview

\* decode_section.
DecodeSection(version, wire, limit) ==
    LET size == DecodeUint(wire)
        data == After(wire, size.used)
    IN IF version = 0 THEN [is |-> "data", data |-> wire]
       ELSE IF size.used = 0 \/ size.val > limit THEN Bad
       ELSE IF Len(data) = size.val THEN [is |-> "data", data |-> data]
       ELSE IF Unpackable(data) /\ Len(Unpacked(data)) = size.val
       THEN [is |-> "data", data |-> Unpacked(data)]
       ELSE Bad

\* A target copy may run into what it writes itself.
CopyWithin(target, offset, len) ==
    LET grown[n \in 0 .. len] ==
          IF n = 0 THEN target ELSE Append(grown[n - 1], grown[n - 1][offset + n])
    IN grown[len]

\* One turn of the loop of apply_window_source: `at' holds the instructions and
\* the new data that are left, and the target so far.
Places == [is : {"window"}, ins : Seq(ToSet(Chars)), new : Seq(ToSet(Chars)), target : Seq(ToSet(Chars))]
Instruction(at, source, tview) ==
    LET action == Ord[at.ins[1]] \div Inline
        inline == Ord[at.ins[1]] % Inline
        longer == IF inline = 0 THEN DecodeUint(Tail(at.ins)) ELSE [used |-> 0, val |-> inline]
        len == longer.val
        behind == After(at.ins, 1 + longer.used)
        offset == DecodeUint(behind)
    IN IF \/ action = 3 \/ len = 0
          \/ Len(at.target) + len > tview
          \/ action < 2 /\ offset.used = 0
          \/ action = 0 /\ offset.val + len > Len(source)
          \/ action = 1 /\ offset.val >= Len(at.target)
          \/ action = 2 /\ len > Len(at.new)
       THEN Bad
       ELSE CASE action = 0 ->
                   [at EXCEPT !.ins = After(behind, offset.used),
                              !.target = @ \o SubSeq(source, offset.val + 1, offset.val + len)]
              [] action = 1 ->
                   [at EXCEPT !.ins = After(behind, offset.used),
                              !.target = CopyWithin(@, offset.val, len)]
              [] action = 2 ->
                   [at EXCEPT !.ins = behind, !.new = After(@, len),
                              !.target = @ \o SubSeq(at.new, 1, len)]

\* apply_window_source: the instructions fill the target view and use up the
\* new data.
Execute(ins, source, new, tview) ==
    LET run[at \in Places \cup {Bad}] ==
          IF at = Bad THEN Bad
          ELSE IF at.ins # <<>> THEN run[Instruction(at, source, tview)]
          ELSE IF Len(at.target) = tview /\ at.new = <<>> THEN [is |-> "data", data |-> at.target]
          ELSE Bad
    IN run[[is |-> "window", ins |-> ins, new |-> new, target |-> <<>>]]
==============================================================================
