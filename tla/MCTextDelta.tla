---------------------------- MODULE MCTextDelta ----------------------------
(***************************************************************************)
(* Small instances of TextDelta.                                           *)
(***************************************************************************)
EXTENDS TextDelta

W == Word(<<"w", "1">>)
Tricky == Text(<<"(", " ", ")", "\n", "1", ":">>)
Nested == List(<<W, List(<<Number(2)>>), Text(<<>>), Flag(TRUE)>>)
Deep == List(<<List(<<List(<<>>)>>)>>)

MixedStreams ==
    {<<Nested, Number(0)>>, <<Tricky, W>>, <<List(<<>>), List(<<Tricky>>)>>, <<Deep>>,
     <<List(<<Deep>>)>>, <<Number(63), Number(65)>>, <<Flag(FALSE), Number(1)>>,
     <<List(<<Number(2), W>>), W>>}
SomeBanners == {<<>>, <<"w", "(", "w", " ">>, <<"(", "(", "w", "\n", "w", "w">>, <<"w", "(">>,
                <<"w", " ", "w", " ", "w", " ", "w", " ", "w", "w">>}

Whole(base, bytes, targets) ==
    [base |-> base, bytes |-> bytes, targets |-> targets, whole |-> TRUE, wrong |-> FALSE]
Wrong(base, bytes, targets) == [Whole(base, bytes, targets) EXCEPT !.whole = FALSE, !.wrong = TRUE]
Part(d, n) == [d EXCEPT !.bytes = SubSeq(@, 1, n), !.whole = FALSE]

\* What the encoder makes of a file.
AAA == <<"a", "a", "a">>
AAAA == <<"a", "a", "a", "a">>
Files == {<<>>, <<AAA>>, <<AAAA>>, <<<<"(", "1">>, <<":">>>>}
FullTexts == {Whole(<<"b">>, FullText(v, pieces), pieces) : v \in Versions, pieces \in Files}

\* What svnserve makes of a change.
Ins(offset, len, action) == Selector(action, len) \o EncodeUint(offset)
Base4 == <<"a", "b", "c", "d">>
CopyAndNew == Window(1, 2, 4, Ins(0, 2, 0) \o NewInstruction(2), <<"e", "f">>)
Overlap == Window(2, 2, 5, Ins(0, 1, 0) \o Ins(0, 4, 1), <<>>)
NewOnly == Window(0, 0, 1, NewInstruction(1), <<"y">>)
TwoWindows == Whole(Base4, Header(0) \o CopyAndNew \o Overlap,
                    <<<<"b", "c", "e", "f">>, <<"c", "c", "c", "c", "c">>>>)
SlidesBack == Overlap \o CopyAndNew
Changes == {TwoWindows,
            Whole(Base4, Header(0) \o Overlap \o NewOnly \o CopyAndNew,
                  <<<<"c", "c", "c", "c", "c">>, <<"y">>, <<"b", "c", "e", "f">>>>),
            Whole(Base4, <<>>, <<>>)}

\* What is not a delta of the base.
Refused ==
    {Wrong(Base4, Header(0) \o SlidesBack, <<<<"c", "c", "c", "c", "c">>>>),
     Wrong(<<"a", "b">>, Header(0) \o NewOnly \o CopyAndNew, <<<<"y">>>>),
     Wrong(Base4, Header(0) \o Window(0, 0, 3, NewInstruction(2), <<"a", "b">>), <<>>),
     Wrong(Base4, Header(0) \o Window(0, 0, 1, NewInstruction(1), <<"a", "b">>), <<>>),
     Wrong(Base4, Header(0) \o Window(0, 1, 1, Ins(1, 1, 0), <<>>), <<>>),
     Wrong(Base4, Header(0) \o Window(0, 0, 1, Ins(0, 1, 1), <<>>), <<>>),
     Wrong(Base4, Header(0) \o Window(0, 0, 9, NewInstruction(9), <<>>), <<>>),
     Wrong(Base4, <<"w", "y">> \o NewOnly, <<>>),
     Wrong(Base4, Header(1) \o Window(0, 0, 1, <<Byte(2)>>, <<"a">>), <<>>)}

\* What a lost connection leaves of one.
Small == Whole(Base4, Header(0) \o NewOnly \o Window(1, 2, 2, Ins(0, 2, 0), <<>>),
               <<<<"y">>, <<"b", "c">>>>)
Parts == {Part(Small, n) : n \in 1 .. Len(Small.bytes) - 1}

SomeDeltas == FullTexts \cup Changes \cup Refused \cup Parts
==============================================================================
