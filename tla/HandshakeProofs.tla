-------------------------- MODULE HandshakeProofs --------------------------
(***************************************************************************)
(* That client and server stay in step through the handshake and every     *)
(* later request, and that mechanisms are tried from the strongest to the  *)
(* weakest: for every set of lists a server may send, every client, every  *)
(* number of commands and every selection of the faults.                   *)
(*                                                                         *)
(* The inductive invariant says which places the two sides can be in       *)
(* together, with what is under way between them (StepInv), when a layer   *)
(* is on (LayerInv), who has been puzzled (OddInv), what has been tried    *)
(* (TriedInv) and why what is under way may be asked for (FairInv).        *)
(***************************************************************************)
EXTENDS Handshake, SequenceTheorems, TLAPS

Results == {"ok", "server", "protocol", "eof", "timeout"} \cup AuthErrors

ClientType ==
    [pc : {"greeting", "authrequest", "challenge", "sasl", "reposinfo", "response",
           "ready", "gone"},
     session : BOOLEAN, mech : Mechs \cup {NoMech}, tries : Seq(Mechs),
     offered : SUBSET Mechs, more : BOOLEAN, layer : BOOLEAN]

ServerType ==
    [pc : {"greet", "response", "mech", "reply", "command", "closed"},
     session : BOOLEAN, offered : SUBSET Mechs, mech : Mechs \cup {NoMech},
     user : {NoMech, "anonymous", "user"}, layer : BOOLEAN,
     refused : SUBSET ToServerKinds, odd : BOOLEAN]

ToClientMsgs == Messages(ToClientKinds)
ToServerMsgs == Messages(ToServerKinds)

TwoSteps == {"CRAM-MD5", "DIGEST-MD5"}

TypeInv ==
    /\ config \in Configs
    /\ client \in ClientType
    /\ server \in ServerType
    /\ toServer \in Seq(ToServerMsgs)
    /\ toClient \in Seq(ToClientMsgs)
    /\ buf \in Seq(ToClientMsgs)
    /\ results \in Seq(Results)
    /\ server.pc = "reply" => server.mech \in TwoSteps

-----------------------------------------------------------------------------

\* The fields of a message, and its type on either line.
LEMMA MsgFacts ==
    /\ \A kind, layer : /\ Msg(kind, layer).kind = kind /\ Msg(kind, layer).layer = layer
                        /\ Msg(kind, layer).mechs = {}
    /\ \A kind \in ToClientKinds, layer \in BOOLEAN : Msg(kind, layer) \in ToClientMsgs
    /\ \A kind \in ToServerKinds, layer \in BOOLEAN : Msg(kind, layer) \in ToServerMsgs
BY DEF Msg, ToClientMsgs, ToServerMsgs, Messages

\* Decoding keeps a message that was encoded and makes noise of any other.
LEMMA DecodedFacts ==
    \A m \in ToClientMsgs :
        /\ Decoded(m) \in ToClientMsgs
        /\ Decoded(m).layer = FALSE
        /\ Decoded(m).mechs = m.mechs
        /\ m.layer => Decoded(m).kind = m.kind
        /\ ~m.layer => Decoded(m).kind = "noise"
BY DEF Decoded, ToClientMsgs, Messages, ToClientKinds

\* Sequences of one or two elements are equal when their elements are.
LEMMA ShortEqual ==
    ASSUME NEW T, NEW s \in Seq(T), NEW t \in Seq(T)
    PROVE  /\ Len(s) = 1 /\ Len(t) = 1 /\ s[1] = t[1] => s = t
           /\ Len(s) = 2 /\ Len(t) = 2 /\ s[1] = t[1] /\ s[2] = t[2] => s = t
<1>1. ASSUME Len(s) = 1, Len(t) = 1, s[1] = t[1] PROVE s = t
  <2>1. \A i \in 1 .. Len(s) : s[i] = t[i]
    BY <1>1
  <2> QED
    BY <1>1, <2>1, SeqEqual
<1>2. ASSUME Len(s) = 2, Len(t) = 2, s[1] = t[1], s[2] = t[2] PROVE s = t
  <2>1. \A i \in 1 .. Len(s) : s[i] = t[i]
    BY <1>2
  <2> QED
    BY <1>2, <2>1, SeqEqual
<1> QED
  BY <1>1, <1>2

\* A sequence of one message: its head, its tail and its parts.
LEMMA Singles ==
    ASSUME NEW T, NEW m \in T
    PROVE  /\ <<m>> \in Seq(T) /\ <<m>> # <<>> /\ Len(<<m>>) = 1
           /\ Head(<<m>>) = m /\ Tail(<<m>>) = <<>>
           /\ SubSeq(<<m>>, 1, 1) = <<m>> /\ SubSeq(<<m>>, 2, 1) = <<>>
<1>1. <<m>> \in Seq(T) /\ <<m>> # <<>> /\ Len(<<m>>) = 1 /\ Head(<<m>>) = m
  OBVIOUS
<1>2. Tail(<<m>>) = <<>>
  BY <1>1, HeadTailProperties, EmptySeq
<1>3. SubSeq(<<m>>, 1, 1) = <<m>>
  BY <1>1, SubSeqFull
<1>4. SubSeq(<<m>>, 2, 1) = <<>>
  BY SubSeqEmpty
<1> QED
  BY <1>1, <1>2, <1>3, <1>4

\* A sequence of two messages: its head, its tail and its parts.
LEMMA Pairs ==
    ASSUME NEW T, NEW m \in T, NEW n \in T
    PROVE  /\ <<m, n>> \in Seq(T) /\ <<m, n>> # <<>> /\ Len(<<m, n>>) = 2
           /\ Head(<<m, n>>) = m /\ Tail(<<m, n>>) = <<n>>
           /\ SubSeq(<<m, n>>, 1, 1) = <<m>> /\ SubSeq(<<m, n>>, 2, 2) = <<n>>
           /\ SubSeq(<<m, n>>, 1, 2) = <<m, n>> /\ SubSeq(<<m, n>>, 3, 2) = <<>>
<1> DEFINE s == <<m, n>>
<1>1. s \in Seq(T) /\ s # <<>> /\ Len(s) = 2 /\ Head(s) = m /\ s[1] = m /\ s[2] = n
  OBVIOUS
<1>2. /\ <<m>> \in Seq(T) /\ Len(<<m>>) = 1 /\ <<m>>[1] = m
      /\ <<n>> \in Seq(T) /\ Len(<<n>>) = 1 /\ <<n>>[1] = n
  OBVIOUS
<1> HIDE DEF s
<1>3. Tail(s) = <<n>>
  <2>1. Tail(s) \in Seq(T) /\ Len(Tail(s)) = 1 /\ Tail(s)[1] = n
    BY <1>1, HeadTailProperties
  <2> QED
    BY <1>2, <2>1, ShortEqual
<1>4. SubSeq(s, 1, 1) = <<m>>
  <2>1. SubSeq(s, 1, 1) \in Seq(T) /\ Len(SubSeq(s, 1, 1)) = 1 /\ SubSeq(s, 1, 1)[1] = m
    BY <1>1, SubSeqProperties
  <2> QED
    BY <1>2, <2>1, ShortEqual
<1>5. SubSeq(s, 2, 2) = <<n>>
  <2>1. SubSeq(s, 2, 2) \in Seq(T) /\ Len(SubSeq(s, 2, 2)) = 1 /\ SubSeq(s, 2, 2)[1] = n
    BY <1>1, SubSeqProperties
  <2> QED
    BY <1>2, <2>1, ShortEqual
<1>6. SubSeq(s, 1, 2) = s
  BY <1>1, SubSeqFull
<1>7. SubSeq(s, 3, 2) = <<>>
  BY SubSeqEmpty
<1> QED
  BY <1>1, <1>3, <1>4, <1>5, <1>6, <1>7 DEF s

\* What appending and concatenation make of an empty line or of one message.
LEMMA Grown ==
    ASSUME NEW T, NEW m \in T, NEW n \in T
    PROVE  /\ Append(<<>>, m) = <<m>> /\ Append(<<m>>, n) = <<m, n>>
           /\ <<>> \o <<m>> = <<m>> /\ <<m>> \o <<n>> = <<m, n>>
           /\ <<m>> \o <<>> = <<m>>
<1>1. /\ <<m>> \in Seq(T) /\ Len(<<m>>) = 1 /\ <<m>>[1] = m /\ <<>> \in Seq(T)
      /\ <<n>> \in Seq(T) /\ Len(<<n>>) = 1 /\ <<n>>[1] = n /\ Len(<<>>) = 0
  BY EmptySeq
<1>2. <<m, n>> \in Seq(T) /\ Len(<<m, n>>) = 2 /\ <<m, n>>[1] = m /\ <<m, n>>[2] = n
  OBVIOUS
<1>3. <<>> \o <<m>> = <<m>> /\ <<m>> \o <<>> = <<m>>
  BY <1>1, ConcatEmptySeq
<1>4. <<m>> \o <<n>> = <<m, n>>
  <2>1. /\ <<m>> \o <<n>> \in Seq(T) /\ Len(<<m>> \o <<n>>) = 2
        /\ (<<m>> \o <<n>>)[1] = m /\ (<<m>> \o <<n>>)[2] = n
    BY <1>1, ConcatProperties
  <2> QED
    BY <1>2, <2>1, ShortEqual
<1>5. Append(<<>>, m) = <<m>> /\ Append(<<m>>, n) = <<m, n>>
  BY <1>1, <1>3, <1>4, AppendIsConcat
<1> QED
  BY <1>3, <1>4, <1>5

\* Head, tail, parts and extensions of a line are of its type.
LEMMA Ends ==
    ASSUME NEW T, NEW s \in Seq(T)
    PROVE  /\ s # <<>> => Head(s) \in T /\ Tail(s) \in Seq(T) /\ Len(Tail(s)) = Len(s) - 1
           /\ \A m \in T : Append(s, m) \in Seq(T) /\ Append(s, m) # <<>>
                           /\ Len(Append(s, m)) = Len(s) + 1
           /\ \A k \in 1 .. Len(s) : SubSeq(s, 1, k) \in Seq(T) /\ SubSeq(s, k + 1, Len(s)) \in Seq(T)
           /\ \A t \in Seq(T) : s \o t \in Seq(T)
<1>1. s # <<>> => Head(s) \in T /\ Tail(s) \in Seq(T) /\ Len(Tail(s)) = Len(s) - 1
  BY HeadTailProperties
<1>2. \A m \in T : Append(s, m) \in Seq(T) /\ Append(s, m) # <<>>
                           /\ Len(Append(s, m)) = Len(s) + 1
  BY AppendProperties
<1>3. Len(s) \in Nat /\ \A i \in 1 .. Len(s) : s[i] \in T
  BY LenProperties, ElementOfSeq
<1>4. ASSUME NEW k \in 1 .. Len(s)
      PROVE  SubSeq(s, 1, k) \in Seq(T) /\ SubSeq(s, k + 1, Len(s)) \in Seq(T)
  <2>1. \A i \in 1 .. k : s[i] \in T
    BY <1>3
  <2>2. \A i \in k + 1 .. Len(s) : s[i] \in T
    BY <1>3
  <2>3. k \in Int /\ k + 1 \in Int /\ Len(s) \in Int /\ 1 \in Int
    BY <1>3
  <2>4. SubSeq(s, 1, k) \in Seq(T)
    BY <2>1, <2>3, SubSeqProperties
  <2>5. SubSeq(s, k + 1, Len(s)) \in Seq(T)
    BY <2>2, <2>3, SubSeqProperties
  <2> QED
    BY <2>4, <2>5
<1>5. \A t \in Seq(T) : s \o t \in Seq(T)
  BY ConcatProperties
<1> QED
  BY <1>1, <1>2, <1>4, <1>5

\* What one read of the socket brings, decoded under a layer, one by one.
LEMMA FetchedFacts ==
    ASSUME NEW s \in Seq(ToClientMsgs), NEW layer \in BOOLEAN
    PROVE  /\ Fetched(s, layer) \in Seq(ToClientMsgs)
           /\ DecodeRest(s) \in Seq(ToClientMsgs)
           /\ Fetched(s, layer) = IF layer THEN DecodeRest(s) ELSE s
           /\ DecodeRest(s) = <<>> <=> s = <<>>
           /\ \A m \in ToClientMsgs : DecodeRest(<<m>>) = <<Decoded(m)>>
           /\ \A m, n \in ToClientMsgs : DecodeRest(<<m, n>>) = <<Decoded(m), Decoded(n)>>
<1>1. DecodeRest(s) \in Seq(ToClientMsgs)
  BY DecodedFacts DEF DecodeRest
<1>2. Fetched(s, layer) = IF layer THEN DecodeRest(s) ELSE s
  BY DEF Fetched, DecodeRest
<1>3. DecodeRest(s) = <<>> <=> s = <<>>
  BY DEF DecodeRest
<1>4. \A m \in ToClientMsgs : DecodeRest(<<m>>) = <<Decoded(m)>>
  BY DEF DecodeRest
<1>5. \A m, n \in ToClientMsgs : DecodeRest(<<m, n>>) = <<Decoded(m), Decoded(n)>>
  BY DEF DecodeRest
<1> QED
  BY <1>1, <1>2, <1>3, <1>4, <1>5

-----------------------------------------------------------------------------

\* Pushing a mechanism keeps the list and adds at most one place at its end.
LEMMA PushFacts ==
    ASSUME NEW s \in Seq(Mechs), NEW mech \in Mechs, NEW usable \in BOOLEAN
    PROVE  /\ s \o Push(mech, usable) \in Seq(Mechs)
           /\ Len(s \o Push(mech, usable)) = IF usable THEN Len(s) + 1 ELSE Len(s)
           /\ \A i \in 1 .. Len(s) : (s \o Push(mech, usable))[i] = s[i]
           /\ usable => (s \o Push(mech, usable))[Len(s) + 1] = mech
<1>1. CASE usable
  <2>1. Push(mech, usable) = <<mech>>
    BY <1>1 DEF Push
  <2>2. <<mech>> \in Seq(Mechs) /\ Len(<<mech>>) = 1 /\ <<mech>>[1] = mech
    BY Singles
  <2>3. Len(s) \in Nat
    BY LenProperties
  <2> DEFINE t == Push(mech, usable)
  <2>4. t \in Seq(Mechs) /\ Len(t) = 1 /\ t[1] = mech
    BY <2>1, <2>2
  <2> HIDE DEF t
  <2>5. /\ s \o t \in Seq(Mechs) /\ Len(s \o t) = Len(s) + 1
        /\ \A i \in 1 .. Len(s) + 1 : (s \o t)[i] = IF i <= Len(s) THEN s[i] ELSE t[i - Len(s)]
    <3>1. /\ s \o t \in Seq(Mechs) /\ Len(s \o t) = Len(s) + Len(t)
          /\ \A i \in 1 .. Len(s) + Len(t) :
               (s \o t)[i] = IF i <= Len(s) THEN s[i] ELSE t[i - Len(s)]
      BY <2>4, ConcatProperties, Zenon
    <3> QED
      BY <2>4, <3>1
  <2>6. (s \o t)[Len(s) + 1] = mech
    BY <2>3, <2>4, <2>5
  <2>7. \A i \in 1 .. Len(s) : (s \o t)[i] = s[i]
    BY <2>3, <2>5
  <2> QED
    BY <1>1, <2>5, <2>6, <2>7 DEF t
<1>2. CASE ~usable
  <2>1. Push(mech, usable) = <<>>
    BY <1>2 DEF Push
  <2>2. s \o <<>> = s
    BY ConcatEmptySeq
  <2> QED
    BY <1>2, <2>1, <2>2
<1> QED
  BY <1>1, <1>2

\* A mechanism that stands before place k of a list.
Before(list, k, mech) == \E j \in 1 .. k - 1 : list[j] = mech

\* The configuration decides by which mechanisms the client can say who the user is.
LEMMA NamesSame ==
    ASSUME config' = config
    PROVE  NamesTheUser' = NamesTheUser
BY DEF NamesTheUser

\* select_mechs lists only what is offered, every mechanism that names the user,
\* CRAM-MD5 before PLAIN and all of them before ANONYMOUS.
LEMMA SelectFacts ==
    ASSUME NEW offered \in SUBSET Mechs, config \in Configs
    PROVE  LET list == SelectMechs(offered) IN
           /\ list \in Seq(Mechs)
           /\ \A k \in 1 .. Len(list) :
                /\ list[k] \in offered /\ list[k] # "DIGEST-MD5"
                /\ list[k] = "PLAIN" => config.creds
                /\ list[k] = "PLAIN" /\ "CRAM-MD5" \in offered => Before(list, k, "CRAM-MD5")
                /\ list[k] = "ANONYMOUS" =>
                     \A mech \in offered \cap NamesTheUser : Before(list, k, mech)
           /\ \A mech \in offered \cap NamesTheUser : \E j \in 1 .. Len(list) : list[j] = mech
<1> DEFINE ext == "EXTERNAL" \in offered /\ config.tunnel
           cram == "CRAM-MD5" \in offered /\ config.creds
           plain == "PLAIN" \in offered /\ config.creds
           anon == "ANONYMOUS" \in offered
           one == Push("EXTERNAL", ext)
           two == one \o Push("CRAM-MD5", cram)
           three == two \o Push("PLAIN", plain)
           four == three \o Push("ANONYMOUS", anon)
<1>0. config.tunnel \in BOOLEAN /\ config.creds \in BOOLEAN
  BY ConfigAssumption
<1>1. ext \in BOOLEAN /\ cram \in BOOLEAN /\ plain \in BOOLEAN /\ anon \in BOOLEAN
  BY <1>0
<1>2. /\ one \in Seq(Mechs) /\ Len(one) \in Nat /\ Len(one) = IF ext THEN 1 ELSE 0
      /\ \A i \in 1 .. Len(one) : one[i] = "EXTERNAL"
  BY Singles, EmptySeq DEF Push, Mechs
<1> HIDE DEF ext, cram, plain, anon
<1>u. /\ "CRAM-MD5" \in Mechs /\ "PLAIN" \in Mechs /\ "ANONYMOUS" \in Mechs
  BY DEF Mechs
<1> HIDE DEF one
<1>3. /\ two \in Seq(Mechs) /\ Len(two) = IF cram THEN Len(one) + 1 ELSE Len(one)
      /\ \A i \in 1 .. Len(one) : two[i] = one[i]
      /\ cram => two[Len(one) + 1] = "CRAM-MD5"
  BY <1>1, <1>2, <1>u, PushFacts
<1> HIDE DEF two
<1>4. /\ three \in Seq(Mechs) /\ Len(three) = IF plain THEN Len(two) + 1 ELSE Len(two)
      /\ \A i \in 1 .. Len(two) : three[i] = two[i]
      /\ plain => three[Len(two) + 1] = "PLAIN"
  BY <1>1, <1>3, <1>u, PushFacts
<1> HIDE DEF three
<1>5. /\ four \in Seq(Mechs) /\ Len(four) = IF anon THEN Len(three) + 1 ELSE Len(three)
      /\ \A i \in 1 .. Len(three) : four[i] = three[i]
      /\ anon => four[Len(three) + 1] = "ANONYMOUS"
  BY <1>1, <1>4, <1>u, PushFacts
<1>6. SelectMechs(offered) =
         IF four = <<>> /\ "EXTERNAL" \in offered THEN <<"EXTERNAL">> ELSE four
  BY DEF SelectMechs, one, two, three, four, ext, cram, plain, anon
<1> DEFINE list == four
<1> HIDE DEF four
<1>a. /\ \A i \in 1 .. Len(two) : (two[i] = "EXTERNAL" /\ ext) \/ (two[i] = "CRAM-MD5" /\ cram)
      /\ cram => \E j \in 1 .. Len(two) : two[j] = "CRAM-MD5"
      /\ ext => \E j \in 1 .. Len(two) : two[j] = "EXTERNAL"
      /\ Len(two) \in Nat
  <2>1. \A i \in 1 .. Len(one) : two[i] = "EXTERNAL" /\ ext
    BY <1>2, <1>3
  <2>2. \A i \in 1 .. Len(two) : i \in 1 .. Len(one) \/ (cram /\ i = Len(one) + 1)
    <3>1. CASE cram
      <4>1. Len(two) = Len(one) + 1
        BY <1>3, <3>1
      <4>2. \A i \in 1 .. Len(one) + 1 : i \in 1 .. Len(one) \/ i = Len(one) + 1
        BY <1>2
      <4> QED
        BY <3>1, <4>1, <4>2, Zenon
    <3>2. CASE ~cram
      <4>1. Len(two) = Len(one)
        BY <1>3, <3>2
      <4> QED
        BY <4>1, Zenon
    <3> QED
      BY <3>1, <3>2
  <2>3. cram => Len(one) + 1 \in 1 .. Len(two)
    BY <1>2, <1>3
  <2>4. ext => 1 \in 1 .. Len(one) /\ 1 \in 1 .. Len(two)
    BY <1>2, <1>3
  <2> QED
    BY <1>2, <1>3, <2>1, <2>2, <2>3, <2>4
<1>b. /\ \A i \in 1 .. Len(three) :
           \/ i \in 1 .. Len(two) /\ three[i] = two[i]
           \/ i = Len(two) + 1 /\ three[i] = "PLAIN" /\ plain
      /\ Len(three) \in Nat
  BY <1>a, <1>4
<1>c. \A i \in 1 .. Len(four) :
           \/ i \in 1 .. Len(two) /\ four[i] = two[i]
           \/ i = Len(two) + 1 /\ four[i] = "PLAIN" /\ plain
           \/ i = Len(three) + 1 /\ four[i] = "ANONYMOUS" /\ anon
  BY <1>a, <1>b, <1>4, <1>5
<1>d. /\ cram => \E j \in 1 .. Len(two) : four[j] = "CRAM-MD5"
      /\ ext => \E j \in 1 .. Len(two) : four[j] = "EXTERNAL"
      /\ plain => \E j \in 1 .. Len(three) : four[j] = "PLAIN"
      /\ Len(two) \in Nat /\ Len(three) \in Nat /\ Len(four) \in Nat
      /\ Len(two) <= Len(three) /\ Len(three) <= Len(four)
  BY <1>a, <1>b, <1>4, <1>5
<1>e. \A i \in 1 .. Len(four) :
         /\ \/ four[i] = "EXTERNAL" /\ ext
            \/ four[i] = "CRAM-MD5" /\ cram
            \/ four[i] = "PLAIN" /\ plain
            \/ four[i] = "ANONYMOUS" /\ anon
         /\ four[i] = "PLAIN" => i = Len(two) + 1
         /\ four[i] = "ANONYMOUS" => i = Len(three) + 1
  <2> TAKE i \in 1 .. Len(four)
  <2>1. CASE i \in 1 .. Len(two) /\ four[i] = two[i]
    <3>1. (two[i] = "EXTERNAL" /\ ext) \/ (two[i] = "CRAM-MD5" /\ cram)
      BY <1>a, <2>1, Zenon
    <3>2. "EXTERNAL" # "PLAIN" /\ "EXTERNAL" # "ANONYMOUS" /\ "CRAM-MD5" # "PLAIN"
          /\ "CRAM-MD5" # "ANONYMOUS"
      OBVIOUS
    <3> QED
      BY <2>1, <3>1, <3>2, Zenon
  <2>2. CASE i = Len(two) + 1 /\ four[i] = "PLAIN" /\ plain
    BY <2>2
  <2>3. CASE i = Len(three) + 1 /\ four[i] = "ANONYMOUS" /\ anon
    BY <2>3
  <2> QED
    BY <1>c, <2>1, <2>2, <2>3
<1>f. ASSUME SelectMechs(offered) = four
      PROVE  LET l == SelectMechs(offered) IN
           /\ l \in Seq(Mechs)
           /\ \A k \in 1 .. Len(l) :
                /\ l[k] \in offered /\ l[k] # "DIGEST-MD5"
                /\ l[k] = "PLAIN" => config.creds
                /\ l[k] = "PLAIN" /\ "CRAM-MD5" \in offered => Before(l, k, "CRAM-MD5")
                /\ l[k] = "ANONYMOUS" =>
                     \A mech \in offered \cap NamesTheUser : Before(l, k, mech)
           /\ \A mech \in offered \cap NamesTheUser : \E j \in 1 .. Len(l) : l[j] = mech
  <2>1. \A k \in 1 .. Len(four) :
           /\ four[k] \in offered /\ four[k] # "DIGEST-MD5"
           /\ four[k] = "PLAIN" => config.creds
    BY <1>e DEF ext, cram, plain, anon
  <2>2. ASSUME NEW k \in 1 .. Len(four), four[k] = "PLAIN", "CRAM-MD5" \in offered
        PROVE  Before(four, k, "CRAM-MD5")
    <3>1. cram
      BY <2>1, <2>2 DEF cram
    <3>2. k = Len(two) + 1
      BY <1>e, <2>2
    <3> QED
      BY <1>d, <3>1, <3>2 DEF Before
  <2>3. ASSUME NEW mech \in offered \cap NamesTheUser
        PROVE  \E j \in 1 .. Len(three) : four[j] = mech
    <3>1. CASE mech = "CRAM-MD5" /\ config.creds
      <4>1. cram
        BY <2>3, <3>1 DEF cram
      <4> QED
        BY <1>d, <3>1, <4>1
    <3>2. CASE mech = "PLAIN" /\ config.creds
      <4>1. plain
        BY <2>3, <3>2 DEF plain
      <4> QED
        BY <1>d, <3>2, <4>1
    <3>3. CASE mech = "EXTERNAL" /\ config.tunnel
      <4>1. ext
        BY <2>3, <3>3 DEF ext
      <4> QED
        BY <1>d, <3>3, <4>1
    <3> QED
      BY <2>3, <3>1, <3>2, <3>3 DEF NamesTheUser
  <2>4. ASSUME NEW k \in 1 .. Len(four), four[k] = "ANONYMOUS",
               NEW mech \in offered \cap NamesTheUser
        PROVE  Before(four, k, mech)
    <3>1. k = Len(three) + 1
      BY <1>e, <2>4
    <3>2. k - 1 = Len(three)
      BY <1>d, <3>1
    <3> QED
      BY <2>3, <3>2 DEF Before
  <2>5. \A mech \in offered \cap NamesTheUser : \E j \in 1 .. Len(four) : four[j] = mech
    BY <1>d, <2>3
  <2> QED
    BY <1>f, <1>5, <2>1, <2>2, <2>4, <2>5
<1>g. ASSUME SelectMechs(offered) # four
      PROVE  four = <<>> /\ "EXTERNAL" \in offered /\ SelectMechs(offered) = <<"EXTERNAL">>
  BY <1>g, <1>6
<1>h. ASSUME SelectMechs(offered) # four
      PROVE  ~cram /\ ~plain /\ ~ext
  BY <1>g, <1>h, <1>d, EmptySeq
<1>i. ASSUME SelectMechs(offered) # four
      PROVE  offered \cap NamesTheUser = {}
  BY <1>i, <1>h DEF cram, plain, ext, NamesTheUser
<1>j. /\ Len(<<"EXTERNAL">>) = 1 /\ <<"EXTERNAL">>[1] = "EXTERNAL"
      /\ <<"EXTERNAL">> \in Seq(Mechs)
  BY DEF Mechs
<1>k. CASE SelectMechs(offered) = four
  BY <1>f, <1>k
<1>l. CASE SelectMechs(offered) # four
  <2> DEFINE l == SelectMechs(offered)
  <2>1. /\ l \in Seq(Mechs) /\ Len(l) = 1 /\ l[1] = "EXTERNAL" /\ "EXTERNAL" \in offered
        /\ offered \cap NamesTheUser = {}
    BY <1>g, <1>i, <1>j, <1>l
  <2> HIDE DEF l
  <2>2. \A k \in 1 .. Len(l) : l[k] = "EXTERNAL"
    BY <2>1
  <2>3. /\ l \in Seq(Mechs)
        /\ \A k \in 1 .. Len(l) :
                /\ l[k] \in offered /\ l[k] # "DIGEST-MD5"
                /\ l[k] # "PLAIN" /\ l[k] # "ANONYMOUS"
        /\ \A mech \in offered \cap NamesTheUser : \E j \in 1 .. Len(l) : l[j] = mech
    BY <2>1, <2>2
  <2> QED
    BY <2>3 DEF l
<1> QED
  BY <1>k, <1>l

-----------------------------------------------------------------------------
(* What the helpers of the actions do to the state.                        *)

\* A failure ends the command, and the connection if it has to.
LEMMA FailsEffect ==
    ASSUME TypeInv, NEW result \in Results, Fails(result)
    PROVE  /\ client' \in ClientType
           /\ client'.pc = IF Broken(result) THEN "gone" ELSE "ready"
           /\ client'.session = client.session /\ client'.layer = client.layer
           /\ client'.offered = client.offered /\ client'.mech = client.mech
           /\ results' = Append(results, result) /\ results' \in Seq(Results)
           /\ toServer' = toServer
<1>1. client' = [client EXCEPT !.pc = IF Broken(result) THEN "gone" ELSE "ready"]
  BY Zenon DEF Fails
<1>2. client \in ClientType /\ results \in Seq(Results)
  BY DEF TypeInv
<1>3. results' = Append(results, result) /\ toServer' = toServer
  BY DEF Fails, Done
<1>4. results' \in Seq(Results)
  BY <1>2, <1>3, AppendProperties
<1>5. (IF Broken(result) THEN "gone" ELSE "ready") \in {"gone", "ready"}
  OBVIOUS
<1>6. /\ client' \in ClientType
      /\ client'.pc = IF Broken(result) THEN "gone" ELSE "ready"
      /\ client'.session = client.session /\ client'.layer = client.layer
      /\ client'.offered = client.offered /\ client'.mech = client.mech
  BY <1>1, <1>2, <1>5 DEF ClientType
<1> QED
  BY <1>3, <1>4, <1>6

ExchangePcs == {"challenge", "sasl"}

\* A mechanism is written and becomes the one that is tried.
LEMMA TryEffect ==
    ASSUME TypeInv, NEW offered \in SUBSET Mechs, NEW mech \in Mechs,
           NEW pc \in ExchangePcs, NEW rest \in Seq(Mechs),
           TryMech(offered, mech, pc, rest)
    PROVE  /\ client' \in ClientType
           /\ client'.pc = pc /\ client'.mech = mech /\ client'.tries = rest
           /\ client'.offered = offered /\ client'.more = (mech \in TwoSteps)
           /\ client'.session = client.session /\ client'.layer = client.layer
           /\ toServer' = Append(toServer, Msg(mech, client.layer))
           /\ toServer' \in Seq(ToServerMsgs)
           /\ results' = results
<1>1. client' = [client EXCEPT !.pc = pc, !.mech = mech, !.tries = rest, !.offered = offered,
                     !.more = mech \in TwoSteps]
  BY Zenon DEF TryMech, TwoSteps
<1>2. client \in ClientType /\ toServer \in Seq(ToServerMsgs)
  BY DEF TypeInv
<1>3. results' = results /\ toServer' = Append(toServer, Msg(mech, client.layer))
  BY DEF TryMech, Write
<1>4. mech \in ToServerKinds /\ client.layer \in BOOLEAN
  BY <1>2 DEF ToServerKinds, ClientType
<1>5. toServer' \in Seq(ToServerMsgs)
  BY <1>2, <1>3, <1>4, MsgFacts, AppendProperties
<1>6. /\ client' \in ClientType
      /\ client'.pc = pc /\ client'.mech = mech /\ client'.tries = rest
      /\ client'.offered = offered /\ client'.more = (mech \in TwoSteps)
      /\ client'.session = client.session /\ client'.layer = client.layer
  <2>1. PICK more \in BOOLEAN : more = (mech \in TwoSteps)
    <3>1. (mech \in TwoSteps) \in BOOLEAN
      OBVIOUS
    <3> QED
      BY <3>1, Zenon
  <2>2. client' = [client EXCEPT !.pc = pc, !.mech = mech, !.tries = rest, !.offered = offered,
                     !.more = more]
    BY <1>1, <2>1, Zenon
  <2>3. /\ client' \in ClientType
        /\ client'.pc = pc /\ client'.mech = mech /\ client'.tries = rest
        /\ client'.offered = offered /\ client'.more = more
        /\ client'.session = client.session /\ client'.layer = client.layer
    BY <1>2, <2>2 DEF ClientType, ExchangePcs
  <2> QED
    BY <2>1, <2>3, Zenon
<1> QED
  BY <1>3, <1>5, <1>6

\* The client goes on to wait for the last answer.
LEMMA ResumeEffect ==
    ASSUME TypeInv, NEW c, c = Resume(client)
    PROVE  /\ c \in ClientType
           /\ c.pc = IF client.session THEN "response" ELSE "reposinfo"
           /\ c.mech = NoMech /\ c.offered = {}
           /\ c.session = client.session /\ c.layer = client.layer
<1>1. client \in ClientType
  BY DEF TypeInv
<1>2. c = [client EXCEPT !.pc = IF client.session THEN "response" ELSE "reposinfo",
                       !.mech = NoMech, !.offered = {}]
  BY Zenon DEF Resume
<1>3. (IF client.session THEN "response" ELSE "reposinfo") \in {"response", "reposinfo"}
  OBVIOUS
<1> QED
  BY <1>1, <1>2, <1>3 DEF ClientType

\* A message is added to the line to the server, under the layer of the client.
LEMMA WriteEffect ==
    ASSUME TypeInv, NEW kind \in ToServerKinds, Write(kind)
    PROVE  /\ toServer' = Append(toServer, Msg(kind, client.layer))
           /\ toServer' \in Seq(ToServerMsgs)
<1>1. client.layer \in BOOLEAN /\ toServer \in Seq(ToServerMsgs)
  BY DEF TypeInv, ClientType
<1>2. toServer' = Append(toServer, Msg(kind, client.layer))
  BY DEF Write
<1> QED
  BY <1>1, <1>2, MsgFacts, AppendProperties

\* The first message of the buffer is taken, and nothing else moves.
LEMMA TookEffect ==
    ASSUME TypeInv, buf # <<>>, Took
    PROVE  /\ buf' = Tail(buf) /\ buf' \in Seq(ToClientMsgs) /\ Head(buf) \in ToClientMsgs
           /\ config' = config /\ server' = server /\ toClient' = toClient
<1>1. buf \in Seq(ToClientMsgs)
  BY DEF TypeInv
<1> QED
  BY <1>1, Ends DEF Took

\* The server takes the first message of the line, and the client does not move.
LEMMA ReadEffect ==
    ASSUME TypeInv, NEW kinds, Read(kinds)
    PROVE  /\ toServer # <<>> /\ Head(toServer) \in ToServerMsgs
           /\ Head(toServer).kind \in kinds /\ Head(toServer).layer = server.layer
           /\ toServer' = Tail(toServer) /\ toServer' \in Seq(ToServerMsgs)
           /\ Len(toServer') = Len(toServer) - 1
           /\ config' = config /\ client' = client /\ buf' = buf /\ results' = results
<1>1. toServer \in Seq(ToServerMsgs)
  BY DEF TypeInv
<1> QED
  BY <1>1, Ends DEF Read, Quiet

\* One message is added to the line to the client, under the layer of the server.
LEMMA SaysEffect ==
    ASSUME TypeInv, NEW kind \in ToClientKinds, Says(<<kind>>)
    PROVE  /\ toClient' = toClient \o <<Msg(kind, server.layer)>>
           /\ toClient' \in Seq(ToClientMsgs)
<1>1. server.layer \in BOOLEAN /\ toClient \in Seq(ToClientMsgs)
  BY DEF TypeInv, ServerType
<1>2. [i \in DOMAIN <<kind>> |-> Msg(<<kind>>[i], server.layer)] = <<Msg(kind, server.layer)>>
  OBVIOUS
<1>3. toClient' = toClient \o <<Msg(kind, server.layer)>>
  BY <1>2 DEF Says
<1>4. <<Msg(kind, server.layer)>> \in Seq(ToClientMsgs)
  BY <1>1, MsgFacts, Singles
<1> QED
  BY <1>1, <1>3, <1>4, Ends

\* The next mechanism of the list, then SASL, then the error.
LEMMA NextMechCases ==
    ASSUME TypeInv, NEW offered \in SUBSET Mechs, NEW tries \in Seq(Mechs),
           NEW err \in AuthErrors, NextMech(offered, tries, err)
    PROVE  \/ /\ tries # <<>> /\ Head(tries) \in Mechs /\ Tail(tries) \in Seq(Mechs)
              /\ TryMech(offered, Head(tries), "challenge", Tail(tries))
           \/ /\ tries = <<>>
              /\ \E mech \in LibraryMechs(offered) : TryMech(offered, mech, "sasl", <<>>)
           \/ tries = <<>> /\ \E e \in AuthErrors : Fails(e)
<1>1. CASE tries # <<>> /\ TryMech(offered, Head(tries), "challenge", Untried(tries))
  BY <1>1, Ends DEF Untried
<1>2. CASE tries = <<>> /\ BuiltinFails(offered, err)
  <2>1. \/ \E mech \in LibraryMechs(offered) : TryMech(offered, mech, "sasl", <<>>)
        \/ \E e \in {err, "failed"} : Fails(e)
    BY <1>2, Zenon DEF BuiltinFails, StartSasl
  <2>2. "failed" \in AuthErrors
    BY DEF AuthErrors
  <2> QED
    BY <1>2, <2>1, <2>2
<1> QED
  BY <1>1, <1>2 DEF NextMech

\* SASL never chooses a mechanism that was not offered, nor PLAIN without
\* credentials.
LEMMA LibraryFacts ==
    ASSUME NEW offered \in SUBSET Mechs, NEW mech \in LibraryMechs(offered)
    PROVE  mech \in Mechs /\ mech \in offered
           /\ (mech = "PLAIN" => config.creds)
<1>1. LibraryMechs(offered) \subseteq MechString(offered)
  BY DEF LibraryMechs
<1>2. MechString(offered) \subseteq offered
  BY DEF MechString
<1> QED
  BY <1>1, <1>2 DEF LibraryMechs

\* What the server adds to its success: the answer to the command, or the
\* description of the repository.
Follows == IF server.session THEN "success" ELSE "reposinfo"

\* A server that waits for a reply takes it or refuses it, or hangs up on a command.
LEMMA ReplyCases ==
    ASSUME TypeInv, ReadReply, NEW mech, mech = server.mech
    PROVE  /\ mech \in TwoSteps /\ mech \in ToServerKinds
           /\ Read({"reply", "command"}) /\ server.pc = "reply"
           /\ \/ Head(toServer).kind = "reply" /\ Accept(mech)
              \/ Refuse(mech)
              \/ /\ Head(toServer).kind = "command" /\ toClient' = toClient
                 /\ server' = [server EXCEPT !.pc = "closed"]
<1>1. server.pc = "reply" /\ Read({"reply", "command"})
  BY DEF ReadReply
<1>2. mech \in TwoSteps
  BY <1>1 DEF TypeInv
<1>3. mech \in ToServerKinds
  BY <1>2 DEF TwoSteps, ToServerKinds, Mechs
<1> QED
  BY <1>1, <1>2, <1>3, Zenon DEF ReadReply

\* Hanging up changes nothing else.
LEMMA HangUpEffect ==
    ASSUME TypeInv, server' = [server EXCEPT !.pc = "closed"]
    PROVE  /\ server' \in ServerType /\ server'.pc = "closed"
           /\ server'.layer = server.layer /\ server'.user = server.user
           /\ server'.session = server.session /\ server'.offered = server.offered
           /\ server'.refused = server.refused /\ server'.odd = server.odd
BY DEF TypeInv, ServerType

\* A success makes the user known and may switch the layer on for what follows it.
LEMMA AcceptEffect ==
    ASSUME TypeInv, NEW mech, Accept(mech)
    PROVE  /\ server' \in ServerType
           /\ server'.pc = "command"
           /\ server'.layer = server.layer \/ mech = "DIGEST-MD5" \/ server'.layer = FALSE
           /\ server'.user = IF mech = "ANONYMOUS" THEN "anonymous" ELSE "user"
           /\ server'.session = server.session /\ server'.offered = server.offered
           /\ server'.refused = server.refused /\ server'.odd = server.odd
           /\ toClient' = Append(toClient, Msg("success", server.layer))
                             \o <<Msg(Follows, server'.layer)>>
           /\ toClient' \in Seq(ToClientMsgs)
<1>1. PICK layer \in {server.layer, mech = "DIGEST-MD5" /\ "layer" \in Faults} :
       /\ server' = [server EXCEPT !.pc = "command", !.layer = layer,
                        !.user = IF mech = "ANONYMOUS" THEN "anonymous" ELSE "user"]
       /\ toClient' = Append(toClient, Msg("success", server.layer))
                         \o [i \in DOMAIN Then |-> Msg(Then[i], layer)]
  BY Zenon DEF Accept
<1>2. server \in ServerType /\ toClient \in Seq(ToClientMsgs)
  BY DEF TypeInv
<1>3. server.layer \in BOOLEAN
  BY <1>2 DEF ServerType
<1>4. (mech = "DIGEST-MD5" /\ "layer" \in Faults) \in BOOLEAN
  OBVIOUS
<1>5. layer \in BOOLEAN /\ (layer = server.layer \/ mech = "DIGEST-MD5" \/ layer = FALSE)
  <2>1. CASE layer = server.layer
    BY <1>3, <2>1
  <2>2. CASE layer = (mech = "DIGEST-MD5" /\ "layer" \in Faults)
    <3>1. CASE mech = "DIGEST-MD5"
      BY <1>4, <2>2, <3>1, Zenon
    <3>2. CASE mech # "DIGEST-MD5"
      <4>1. (mech = "DIGEST-MD5" /\ "layer" \in Faults) = FALSE
        BY <3>2
      <4> QED
        BY <2>2, <4>1, Zenon
    <3> QED
      BY <3>1, <3>2
  <2> QED
    BY <2>1, <2>2, Zenon
<1>6. PICK user \in {"anonymous", "user"} :
         user = IF mech = "ANONYMOUS" THEN "anonymous" ELSE "user"
  OBVIOUS
<1>7. server' = [server EXCEPT !.pc = "command", !.layer = layer, !.user = user]
  BY <1>1, <1>6, Zenon
<1>8. /\ server' \in ServerType
      /\ server'.pc = "command" /\ server'.layer = layer /\ server'.user = user
      /\ server'.session = server.session /\ server'.offered = server.offered
      /\ server'.refused = server.refused /\ server'.odd = server.odd
  BY <1>2, <1>5, <1>7 DEF ServerType
<1>9. [i \in DOMAIN Then |-> Msg(Then[i], layer)] = <<Msg(Follows, layer)>>
  <2>1. Then = <<Follows>>
    BY DEF Then, Follows
  <2> QED
    BY <2>1
<1>10. toClient' = Append(toClient, Msg("success", server.layer)) \o <<Msg(Follows, layer)>>
  BY <1>1, <1>9, Zenon
<1>11. toClient' \in Seq(ToClientMsgs)
  <2>1. "success" \in ToClientKinds /\ Follows \in ToClientKinds
    BY DEF ToClientKinds, Follows
  <2>2. Msg("success", server.layer) \in ToClientMsgs /\ Msg(Follows, layer) \in ToClientMsgs
    BY <1>3, <1>5, <2>1, MsgFacts
  <2>3. <<Msg(Follows, layer)>> \in Seq(ToClientMsgs)
    BY <2>2, Singles
  <2>4. Append(toClient, Msg("success", server.layer)) \in Seq(ToClientMsgs)
    BY <1>2, <2>2, AppendProperties
  <2> QED
    BY <1>10, <2>3, <2>4, Ends
<1> QED
  BY <1>5, <1>6, <1>8, <1>10, <1>11, Zenon

\* A refusal is noted, and the server waits for another mechanism.
LEMMA RefuseEffect ==
    ASSUME TypeInv, NEW mech \in ToServerKinds, Refuse(mech)
    PROVE  /\ server' \in ServerType
           /\ server'.pc = "mech" /\ server'.refused = server.refused \cup {mech}
           /\ server'.layer = server.layer /\ server'.user = server.user
           /\ server'.session = server.session /\ server'.offered = server.offered
           /\ server'.odd = server.odd
           /\ toClient' = toClient \o <<Msg("failure", server.layer)>>
           /\ toClient' \in Seq(ToClientMsgs)
<1>1. server \in ServerType
  BY DEF TypeInv
<1>2. server' = [server EXCEPT !.pc = "mech", !.refused = @ \cup {mech}]
  BY Zenon DEF Refuse
<1>3. Says(<<"failure">>)
  BY DEF Refuse
<1>4. "failure" \in ToClientKinds
  BY DEF ToClientKinds
<1> QED
  BY <1>1, <1>2, <1>3, <1>4, SaysEffect DEF ServerType

\* The fields of a request for authentication.
LEMMA AuthMsg ==
    ASSUME NEW offered \in SUBSET Mechs, NEW layer \in BOOLEAN
    PROVE  LET m == [Msg("auth", layer) EXCEPT !.mechs = offered] IN
           m \in ToClientMsgs /\ m.kind = "auth" /\ m.layer = layer /\ m.mechs = offered
BY DEF Msg, ToClientMsgs, Messages, ToClientKinds

-----------------------------------------------------------------------------

\* The initial states are typed.
LEMMA TypeInit == Init => TypeInv
<1> SUFFICES ASSUME Init PROVE TypeInv
  OBVIOUS
<1>1. <<>> \in Seq(Mechs) /\ <<>> \in Seq(ToServerMsgs) /\ <<>> \in Seq(ToClientMsgs)
      /\ <<>> \in Seq(Results)
  BY EmptySeq
<1>2. client \in ClientType
  BY <1>1 DEF Init, ClientType
<1>3. server \in ServerType
  BY DEF Init, ServerType
<1> QED
  BY <1>1, <1>2, <1>3 DEF Init, TypeInv

\* A read of the socket keeps the types.
LEMMA FillType ==
    ASSUME TypeInv, Fill
    PROVE  TypeInv'
<1>1. PICK k \in 1 .. Len(toClient) :
         /\ buf' = Fetched(SubSeq(toClient, 1, k), client.layer)
         /\ toClient' = SubSeq(toClient, k + 1, Len(toClient))
  BY Zenon DEF Fill
<1>2. toClient \in Seq(ToClientMsgs) /\ client.layer \in BOOLEAN
  BY DEF TypeInv, ClientType
<1>3. SubSeq(toClient, 1, k) \in Seq(ToClientMsgs) /\ toClient' \in Seq(ToClientMsgs)
  BY <1>1, <1>2, Ends
<1>4. buf' \in Seq(ToClientMsgs)
  BY <1>1, <1>2, <1>3, FetchedFacts
<1> QED
  BY <1>3, <1>4 DEF TypeInv, Fill

\* An action of the client that takes the next message.
LEMMA ReadType ==
    ASSUME TypeInv, config' = config, server' = server, toClient' = toClient,
           buf' \in Seq(ToClientMsgs), client' \in ClientType,
           toServer' \in Seq(ToServerMsgs), results' \in Seq(Results)
    PROVE  TypeInv'
BY DEF TypeInv

\* A failure keeps the types of what it changes.
LEMMA FailsType ==
    ASSUME TypeInv, NEW result \in Results, Fails(result)
    PROVE  client' \in ClientType /\ toServer' \in Seq(ToServerMsgs) /\ results' \in Seq(Results)
BY FailsEffect DEF TypeInv

\* What is not expected fails: as an error of the server if it is a failure, else
\* as a protocol error.
LEMMA OtherwiseFails ==
    ASSUME NEW expected, Otherwise(expected)
    PROVE  /\ Item \notin expected
           /\ \E result \in Results : Fails(result) /\ (result = "protocol" <=> Item # "failure")
                                      /\ result \in {"protocol", "server"}
BY DEF Otherwise, Results

\* The choice of the next mechanism keeps the types of what it changes.
LEMMA NextMechType ==
    ASSUME TypeInv, NEW offered \in SUBSET Mechs, NEW tries \in Seq(Mechs),
           NEW err \in AuthErrors, NextMech(offered, tries, err)
    PROVE  client' \in ClientType /\ toServer' \in Seq(ToServerMsgs) /\ results' \in Seq(Results)
<1>0. results \in Seq(Results) /\ <<>> \in Seq(Mechs)
  BY EmptySeq DEF TypeInv
<1>1. CASE /\ tries # <<>> /\ Head(tries) \in Mechs /\ Tail(tries) \in Seq(Mechs)
           /\ TryMech(offered, Head(tries), "challenge", Tail(tries))
  <2>1. PICK mech, rest : mech = Head(tries) /\ rest = Tail(tries)
    OBVIOUS
  <2>2. mech \in Mechs /\ rest \in Seq(Mechs) /\ TryMech(offered, mech, "challenge", rest)
    BY <1>1, <2>1, Zenon
  <2> QED
    BY <1>0, <2>2, TryEffect DEF ExchangePcs
<1>2. CASE \E mech \in LibraryMechs(offered) : TryMech(offered, mech, "sasl", <<>>)
  <2>1. PICK mech \in LibraryMechs(offered) : TryMech(offered, mech, "sasl", <<>>)
    BY <1>2
  <2>2. mech \in Mechs
    BY LibraryFacts
  <2> QED
    BY <1>0, <2>1, <2>2, TryEffect DEF ExchangePcs
<1>3. CASE \E e \in AuthErrors : Fails(e)
  <2>1. PICK e \in AuthErrors : Fails(e)
    BY <1>3
  <2>2. e \in Results
    BY DEF Results
  <2> QED
    BY <2>1, <2>2, FailsType
<1> QED
  BY <1>1, <1>2, <1>3, NextMechCases

\* The end of an exchange keeps the types of what it changes.
LEMMA AuthenticatedType ==
    ASSUME TypeInv, Authenticated
    PROVE  client' \in ClientType /\ toServer' \in Seq(ToServerMsgs) /\ results' \in Seq(Results)
<1>1. PICK c : c = Resume(client)
  OBVIOUS
<1>2. c \in ClientType
  BY <1>1, ResumeEffect
<1> QED
  BY <1>1, <1>2 DEF Authenticated, TypeInv

\* The greeting keeps the types.
LEMMA ReadGreetingType ==
    ASSUME TypeInv, ReadGreeting
    PROVE  TypeInv'
<1>1. /\ buf' \in Seq(ToClientMsgs) /\ config' = config /\ server' = server
      /\ toClient' = toClient
  BY TookEffect DEF ReadGreeting
<1>2. CASE /\ Write("response") /\ client' = [client EXCEPT !.pc = "authrequest"]
           /\ UNCHANGED results
  <2>1. toServer' \in Seq(ToServerMsgs)
    BY <1>2, WriteEffect DEF ToServerKinds
  <2>2. client' \in ClientType /\ results' \in Seq(Results)
    BY <1>2 DEF TypeInv, ClientType
  <2> QED
    BY <1>1, <2>1, <2>2, ReadType
<1>3. CASE Otherwise({"greeting"})
  BY <1>1, <1>3, OtherwiseFails, FailsType, ReadType
<1> QED
  BY <1>2, <1>3 DEF ReadGreeting

\* The description of the repository keeps the types.
LEMMA ReadReposInfoType ==
    ASSUME TypeInv, ReadReposInfo
    PROVE  TypeInv'
<1>1. /\ buf' \in Seq(ToClientMsgs) /\ config' = config /\ server' = server
      /\ toClient' = toClient
  BY TookEffect DEF ReadReposInfo
<1>2. CASE /\ Done("ok") /\ UNCHANGED toServer
           /\ client' = [client EXCEPT !.pc = "ready", !.session = TRUE]
  <2>1. client' \in ClientType /\ toServer' \in Seq(ToServerMsgs)
    BY <1>2 DEF TypeInv, ClientType
  <2>2. results' \in Seq(Results)
    BY <1>2, AppendProperties DEF TypeInv, Done, Results
  <2> QED
    BY <1>1, <2>1, <2>2, ReadType
<1>3. CASE Otherwise({"reposinfo"})
  BY <1>1, <1>3, OtherwiseFails, FailsType, ReadType
<1> QED
  BY <1>2, <1>3 DEF ReadReposInfo

\* The answer to a command keeps the types.
LEMMA ReadResponseType ==
    ASSUME TypeInv, ReadResponse
    PROVE  TypeInv'
<1>1. /\ buf' \in Seq(ToClientMsgs) /\ config' = config /\ server' = server
      /\ toClient' = toClient
  BY TookEffect DEF ReadResponse
<1>2. CASE Done("ok") /\ UNCHANGED toServer /\ client' = [client EXCEPT !.pc = "ready"]
  <2>1. client' \in ClientType /\ toServer' \in Seq(ToServerMsgs)
    BY <1>2 DEF TypeInv, ClientType
  <2>2. results' \in Seq(Results)
    BY <1>2, AppendProperties DEF TypeInv, Done, Results
  <2> QED
    BY <1>1, <2>1, <2>2, ReadType
<1>3. CASE Otherwise({"success"})
  BY <1>1, <1>3, OtherwiseFails, FailsType, ReadType
<1> QED
  BY <1>2, <1>3 DEF ReadResponse

\* A request for authentication keeps the types.
LEMMA ReadAuthRequestType ==
    ASSUME TypeInv, ReadAuthRequest
    PROVE  TypeInv'
<1>1. /\ buf' \in Seq(ToClientMsgs) /\ config' = config /\ server' = server
      /\ toClient' = toClient /\ Head(buf) \in ToClientMsgs
  BY TookEffect DEF ReadAuthRequest
<1>2. PICK offered : offered = Head(buf).mechs
  OBVIOUS
<1>3. offered \in SUBSET Mechs
  BY <1>1, <1>2 DEF ToClientMsgs, Messages
<1>4. SelectMechs(offered) \in Seq(Mechs)
  BY <1>3, SelectFacts DEF TypeInv
<1>5. \/ Authenticated
      \/ NextMech(offered, SelectMechs(offered), "unavailable")
      \/ Otherwise({"auth"})
  BY <1>2, Zenon DEF ReadAuthRequest
<1>6. "unavailable" \in AuthErrors
  BY DEF AuthErrors
<1>7. client' \in ClientType /\ toServer' \in Seq(ToServerMsgs) /\ results' \in Seq(Results)
  <2>1. CASE Authenticated
    BY <2>1, AuthenticatedType
  <2>2. CASE NextMech(offered, SelectMechs(offered), "unavailable")
    BY <1>3, <1>4, <1>6, <2>2, NextMechType
  <2>3. CASE Otherwise({"auth"})
    BY <2>3, OtherwiseFails, FailsType
  <2> QED
    BY <1>5, <2>1, <2>2, <2>3
<1> QED
  BY <1>1, <1>7, ReadType

\* An answer to a built-in mechanism keeps the types.
LEMMA ReadChallengeType ==
    ASSUME TypeInv, ReadChallenge
    PROVE  TypeInv'
<1>1. /\ buf' \in Seq(ToClientMsgs) /\ config' = config /\ server' = server
      /\ toClient' = toClient
  BY TookEffect DEF ReadChallenge
<1>2. CASE Write("reply") /\ UNCHANGED <<client, results>>
  <2>1. toServer' \in Seq(ToServerMsgs)
    BY <1>2, WriteEffect DEF ToServerKinds
  <2> QED
    BY <1>1, <1>2, <2>1, ReadType DEF TypeInv
<1>3. CASE Authenticated
  BY <1>1, <1>3, AuthenticatedType, ReadType
<1>4. CASE NextMech(client.offered, client.tries, "failed")
  <2>1. client.offered \in SUBSET Mechs /\ client.tries \in Seq(Mechs)
    BY DEF TypeInv, ClientType
  <2>2. "failed" \in AuthErrors
    BY DEF AuthErrors
  <2> QED
    BY <1>1, <1>4, <2>1, <2>2, NextMechType, ReadType
<1>5. CASE Fails("protocol")
  BY <1>1, <1>5, FailsType, ReadType DEF Results
<1> QED
  BY <1>2, <1>3, <1>4, <1>5 DEF ReadChallenge

\* What the end of an exchange under SASL does.
LEMMA SaslDoneEffect ==
    ASSUME TypeInv, buf # <<>>, SaslDone
    PROVE  /\ client' \in ClientType
           /\ client'.pc = IF client.session THEN "response" ELSE "reposinfo"
           /\ client'.mech = NoMech /\ client'.offered = {}
           /\ client'.session = client.session /\ client'.layer = (client.layer \/ server.layer)
           /\ buf' = IF server.layer THEN DecodeRest(Tail(buf)) ELSE Tail(buf)
           /\ buf' \in Seq(ToClientMsgs)
           /\ config' = config /\ server' = server /\ toServer' = toServer
           /\ toClient' = toClient /\ results' = results
<1>1. PICK c : c = Resume(client)
  OBVIOUS
<1>2. /\ c \in ClientType
      /\ c.pc = IF client.session THEN "response" ELSE "reposinfo"
      /\ c.mech = NoMech /\ c.offered = {}
      /\ c.session = client.session /\ c.layer = client.layer
  BY <1>1, ResumeEffect
<1>3. client.layer \in BOOLEAN /\ server.layer \in BOOLEAN /\ buf \in Seq(ToClientMsgs)
  BY DEF TypeInv, ClientType, ServerType
<1>4. PICK layer \in BOOLEAN : layer = (client.layer \/ server.layer)
  <2>1. (client.layer \/ server.layer) \in BOOLEAN
    OBVIOUS
  <2> QED
    BY <2>1, Zenon
<1>5. client' = [c EXCEPT !.layer = client.layer \/ server.layer]
  BY <1>1, <1>2, Zenon DEF SaslDone
<1>6. client' = [c EXCEPT !.layer = layer]
  BY <1>4, <1>5, Zenon
<1>7. /\ client' \in ClientType
      /\ client'.pc = c.pc /\ client'.mech = c.mech /\ client'.offered = c.offered
      /\ client'.session = c.session /\ client'.layer = layer
  BY <1>2, <1>6 DEF ClientType
<1>8. /\ buf' = IF server.layer THEN DecodeRest(Tail(buf)) ELSE Tail(buf)
      /\ config' = config /\ server' = server /\ toServer' = toServer
      /\ toClient' = toClient /\ results' = results
  BY DEF SaslDone
<1>9. buf' \in Seq(ToClientMsgs)
  BY <1>3, <1>8, Ends, FetchedFacts
<1> QED
  BY <1>2, <1>4, <1>7, <1>8, <1>9, Zenon

\* An answer to a mechanism of SASL keeps the types.
LEMMA ReadSaslType ==
    ASSUME TypeInv, ReadSasl
    PROVE  TypeInv'
<1>1. ASSUME Took
      PROVE  /\ buf' \in Seq(ToClientMsgs) /\ config' = config /\ server' = server
             /\ toClient' = toClient
  BY <1>1, TookEffect DEF ReadSasl
<1>2. CASE SaslStep
  <2>1. toServer' \in Seq(ToServerMsgs) /\ results' \in Seq(Results)
    BY <1>2, WriteEffect DEF ToServerKinds, SaslStep, TypeInv
  <2>2. client' \in ClientType
    <3>1. PICK more \in BOOLEAN : more = (client.mech = "DIGEST-MD5")
      <4>1. (client.mech = "DIGEST-MD5") \in BOOLEAN
        OBVIOUS
      <4> QED
        BY <4>1, Zenon
    <3>2. client' = [client EXCEPT !.more = more]
      BY <1>2, <3>1, Zenon DEF SaslStep
    <3> QED
      BY <3>2 DEF TypeInv, ClientType
  <2> QED
    BY <1>1, <1>2, <2>1, <2>2, ReadType DEF SaslStep
<1>3. CASE SaslDone
  <2>1. buf # <<>>
    BY DEF ReadSasl
  <2> QED
    BY <1>3, <2>1, SaslDoneEffect DEF TypeInv
<1>4. CASE SaslGivesUp \/ (Took /\ Fails("failed"))
  BY <1>1, <1>4, FailsType, ReadType DEF Results, AuthErrors, SaslGivesUp
<1>5. CASE Took /\ Fails("protocol")
  BY <1>1, <1>5, FailsType, ReadType DEF Results
<1> QED
  BY <1>2, <1>3, <1>4, <1>5 DEF ReadSasl

\* A command is written, and the client waits for the request before its answer.
LEMMA SendCommandEffect ==
    ASSUME TypeInv, SendCommand
    PROVE  /\ client' \in ClientType
           /\ client'.pc = "authrequest"
           /\ client'.session = client.session /\ client'.layer = client.layer
           /\ client'.offered = client.offered
           /\ toServer' = Append(toServer, Msg("command", client.layer))
           /\ toServer' \in Seq(ToServerMsgs)
           /\ config' = config /\ server' = server /\ toClient' = toClient
           /\ buf' = buf /\ results' = results
<1>1. Write("command") /\ client' = [client EXCEPT !.pc = "authrequest"]
  BY Zenon DEF SendCommand
<1>2. "command" \in ToServerKinds
  BY DEF ToServerKinds
<1>3. client \in ClientType
  BY DEF TypeInv
<1>4. /\ client' \in ClientType
      /\ client'.pc = "authrequest"
      /\ client'.session = client.session /\ client'.layer = client.layer
      /\ client'.offered = client.offered
  BY <1>1, <1>3 DEF ClientType
<1> QED
  BY <1>1, <1>2, <1>4, WriteEffect DEF SendCommand

\* The end of the stream and the timeout keep the types.
LEMMA ClientFailsType ==
    ASSUME TypeInv, ReadEof \/ ReadTimeout
    PROVE  TypeInv'
<1>1. \E result \in Results : Fails(result)
  BY DEF ReadEof, ReadTimeout, Results
<1>2. client' \in ClientType /\ toServer' \in Seq(ToServerMsgs) /\ results' \in Seq(Results)
  BY <1>1, FailsType
<1>3. config' = config /\ server' = server /\ toClient' = toClient /\ buf' = buf
  BY DEF ReadEof, ReadTimeout
<1> QED
  BY <1>2, <1>3 DEF TypeInv

\* The server greets, with the right versions or with old ones.
LEMMA GreetEffect ==
    ASSUME TypeInv, Greet
    PROVE  /\ config' = config /\ client' = client /\ buf' = buf /\ results' = results
           /\ toServer' = toServer
           /\ server.pc = "greet" /\ server' \in ServerType /\ server'.pc = "response"
           /\ server'.session = server.session /\ server'.layer = server.layer
           /\ server'.offered = server.offered /\ server'.refused = server.refused
           /\ server'.user = server.user
           /\ \E kind \in {"greeting", "oldgreeting"} :
                /\ toClient' = toClient \o <<Msg(kind, server.layer)>>
                /\ toClient' \in Seq(ToClientMsgs)
                /\ server'.odd = (server.odd \/ kind = "oldgreeting")
<1>1. /\ config' = config /\ client' = client /\ buf' = buf /\ results' = results
      /\ toServer' = toServer /\ server.pc = "greet"
  BY DEF Greet, Quiet
<1>2. server \in ServerType
  BY DEF TypeInv
<1>3. CASE Says(<<"greeting">>) /\ server' = [server EXCEPT !.pc = "response"]
  <2>1. /\ server' \in ServerType /\ server'.pc = "response"
        /\ server'.session = server.session /\ server'.layer = server.layer
        /\ server'.offered = server.offered /\ server'.refused = server.refused
        /\ server'.user = server.user /\ server'.odd = server.odd
        /\ server.odd \in BOOLEAN
    BY <1>2, <1>3 DEF ServerType
  <2>2. "greeting" \in ToClientKinds
    BY DEF ToClientKinds
  <2>3. /\ toClient' = toClient \o <<Msg("greeting", server.layer)>>
        /\ toClient' \in Seq(ToClientMsgs)
    BY <1>3, <2>2, SaysEffect
  <2>4. server'.odd = (server.odd \/ "greeting" = "oldgreeting")
    BY <2>1
  <2> QED
    BY <1>1, <2>1, <2>3, <2>4
<1>4. CASE Says(<<"oldgreeting">>) /\ server' = [server EXCEPT !.pc = "response", !.odd = TRUE]
  <2>1. /\ server' \in ServerType /\ server'.pc = "response"
        /\ server'.session = server.session /\ server'.layer = server.layer
        /\ server'.offered = server.offered /\ server'.refused = server.refused
        /\ server'.user = server.user /\ server'.odd = TRUE
    BY <1>2, <1>4 DEF ServerType
  <2>2. "oldgreeting" \in ToClientKinds
    BY DEF ToClientKinds
  <2>3. /\ toClient' = toClient \o <<Msg("oldgreeting", server.layer)>>
        /\ toClient' \in Seq(ToClientMsgs)
    BY <1>4, <2>2, SaysEffect
  <2>4. server'.odd = (server.odd \/ "oldgreeting" = "oldgreeting")
    BY <2>1
  <2> QED
    BY <1>1, <2>1, <2>3, <2>4
<1> QED
  BY <1>3, <1>4 DEF Greet

\* The server sends its list, and with an empty one the description as well.
LEMMA ReadClientResponseEffect ==
    ASSUME TypeInv, ReadClientResponse
    PROVE  \E offered \in SUBSET Mechs :
           /\ server.pc = "response" /\ server' \in ServerType
           /\ server'.pc = IF offered = {} THEN "command" ELSE "mech"
           /\ server'.session = server.session /\ server'.layer = server.layer
           /\ server'.offered = offered /\ server'.refused = server.refused
           /\ server'.user = server.user /\ server'.odd = server.odd
           /\ toClient' = toClient \o <<AuthRequest(offered)>>
                 \o (IF offered = {} THEN <<Msg("reposinfo", FALSE)>> ELSE <<>>)
           /\ toClient' \in Seq(ToClientMsgs)
<1>1. PICK offered \in Offers :
         /\ server' = [server EXCEPT !.offered = offered,
                          !.pc = IF offered = {} THEN "command" ELSE "mech"]
         /\ toClient' = toClient \o <<AuthRequest(offered)>>
               \o (IF offered = {} THEN <<Msg("reposinfo", FALSE)>> ELSE <<>>)
  BY Zenon DEF ReadClientResponse
<1>2. offered \in SUBSET Mechs
  BY OffersAssumption
<1>3. server \in ServerType /\ toClient \in Seq(ToClientMsgs)
  BY DEF TypeInv
<1>4. PICK pc \in {"command", "mech"} : pc = IF offered = {} THEN "command" ELSE "mech"
  OBVIOUS
<1>5. server' = [server EXCEPT !.offered = offered, !.pc = pc]
  BY <1>1, <1>4, Zenon
<1>6. /\ server' \in ServerType
      /\ server'.pc = IF offered = {} THEN "command" ELSE "mech"
      /\ server'.session = server.session /\ server'.layer = server.layer
      /\ server'.offered = offered /\ server'.refused = server.refused
      /\ server'.user = server.user /\ server'.odd = server.odd
  BY <1>2, <1>3, <1>4, <1>5 DEF ServerType
<1>7. server.layer \in BOOLEAN
  BY <1>3 DEF ServerType
<1>8. AuthRequest(offered) \in ToClientMsgs
  BY <1>2, <1>7, AuthMsg DEF AuthRequest
<1>9. Msg("reposinfo", FALSE) \in ToClientMsgs
  BY MsgFacts DEF ToClientKinds
<1>10. toClient' \in Seq(ToClientMsgs)
  <2>1. <<AuthRequest(offered)>> \in Seq(ToClientMsgs)
    BY <1>8, Singles
  <2>2. (IF offered = {} THEN <<Msg("reposinfo", FALSE)>> ELSE <<>>) \in Seq(ToClientMsgs)
    BY <1>9, Singles, EmptySeq
  <2>3. toClient \o <<AuthRequest(offered)>> \in Seq(ToClientMsgs)
    BY <1>3, <2>1, Ends
  <2> QED
    BY <1>1, <2>2, <2>3, Ends
<1>11. server.pc = "response"
  BY DEF ReadClientResponse
<1> QED
  BY <1>1, <1>2, <1>6, <1>10, <1>11

\* The server answers a command, or asks for a user first.
LEMMA ReadCommandEffect ==
    ASSUME TypeInv, ReadCommand
    PROVE  /\ server.pc = "command" /\ server' \in ServerType
           /\ server'.session = TRUE /\ server'.layer = server.layer
           /\ server'.user = server.user /\ server'.odd = server.odd
           /\ toClient' \in Seq(ToClientMsgs)
           /\ \/ /\ server'.pc = "command" /\ server'.offered = {}
                 /\ server'.refused = server.refused
                 /\ \E answer \in {"success", "failure"} :
                      toClient' = toClient \o <<AuthRequest({}), Msg(answer, server.layer)>>
              \/ /\ server'.pc = "mech" /\ server.user # "user" /\ server'.offered # {}
                 /\ toClient' = Append(toClient, AuthRequest(server'.offered))
<1>0. server \in ServerType /\ toClient \in Seq(ToClientMsgs) /\ server.pc = "command"
  BY DEF TypeInv, ReadCommand
<1>1. server.layer \in BOOLEAN
  BY <1>0 DEF ServerType
<1>2. CASE /\ server' = [server EXCEPT !.offered = {}, !.session = TRUE]
           /\ \E answer \in {"success", "failure"} :
               toClient' = toClient \o <<AuthRequest({}), Msg(answer, server.layer)>>
  <2>1. /\ server' \in ServerType
        /\ server'.session = TRUE /\ server'.layer = server.layer
        /\ server'.user = server.user /\ server'.odd = server.odd
        /\ server'.pc = "command" /\ server'.offered = {}
        /\ server'.refused = server.refused
    BY <1>0, <1>2 DEF ServerType
  <2>2. PICK answer \in {"success", "failure"} :
               toClient' = toClient \o <<AuthRequest({}), Msg(answer, server.layer)>>
    BY <1>2
  <2>3. AuthRequest({}) \in ToClientMsgs
    BY <1>1, AuthMsg DEF AuthRequest
  <2>4. Msg(answer, server.layer) \in ToClientMsgs
    BY <1>1, MsgFacts DEF ToClientKinds
  <2>5. <<AuthRequest({}), Msg(answer, server.layer)>> \in Seq(ToClientMsgs)
    BY <2>3, <2>4, Pairs
  <2>6. toClient' \in Seq(ToClientMsgs)
    BY <1>0, <2>2, <2>5, Ends
  <2> QED
    BY <1>0, <2>1, <2>2, <2>6
<1>3. CASE /\ server.user # "user"
           /\ \E offered \in Offers \ {{}} :
               /\ server' = [server EXCEPT !.offered = offered, !.session = TRUE,
                                           !.refused = {}, !.pc = "mech"]
               /\ toClient' = Append(toClient, AuthRequest(offered))
  <2>1. PICK offered \in Offers \ {{}} :
               /\ server' = [server EXCEPT !.offered = offered, !.session = TRUE,
                                           !.refused = {}, !.pc = "mech"]
               /\ toClient' = Append(toClient, AuthRequest(offered))
    BY <1>3
  <2>2. offered \in SUBSET Mechs /\ offered # {}
    BY OffersAssumption
  <2>3. /\ server' \in ServerType
        /\ server'.session = TRUE /\ server'.layer = server.layer
        /\ server'.user = server.user /\ server'.odd = server.odd
        /\ server'.pc = "mech" /\ server'.offered = offered
    BY <1>0, <2>1, <2>2 DEF ServerType
  <2>4. AuthRequest(offered) \in ToClientMsgs
    BY <1>1, <2>2, AuthMsg DEF AuthRequest
  <2>5. toClient' \in Seq(ToClientMsgs)
    BY <1>0, <2>1, <2>4, AppendProperties
  <2> QED
    BY <1>0, <1>3, <2>1, <2>2, <2>3, <2>5
<1> QED
  BY <1>2, <1>3 DEF ReadCommand

\* The server hangs up, and what was sent to it is lost.
LEMMA CloseEffect ==
    ASSUME TypeInv, Close
    PROVE  /\ server' \in ServerType /\ server'.pc = "closed" /\ toServer' = <<>>
           /\ server'.session = server.session /\ server'.layer = server.layer
           /\ server'.offered = server.offered /\ server'.refused = server.refused
           /\ server'.user = server.user /\ server'.odd = server.odd /\ server'.mech = server.mech
           /\ config' = config /\ client' = client /\ toClient' = toClient
           /\ buf' = buf /\ results' = results
<1>1. server \in ServerType
  BY DEF TypeInv
<1>2. server' = [server EXCEPT !.pc = "closed"]
  BY Zenon DEF Close
<1>3. /\ toServer' = <<>> /\ config' = config /\ client' = client /\ toClient' = toClient
      /\ buf' = buf /\ results' = results
  BY DEF Close, Quiet
<1> QED
  BY <1>1, <1>2, <1>3 DEF ServerType

\* What the server does with a mechanism: refuse it, accept it, answer it as it
\* should not, or ask for the reply of one that has two steps.
LEMMA ReadMechCases ==
    ASSUME TypeInv, ReadMech
    PROVE  \E mech \in Mechs \cup {"command"} :
           /\ server.pc = "mech" /\ toServer # <<>> /\ Head(toServer).kind = mech
           /\ \/ (mech \in TwoSteps => mech \notin server.offered) /\ Refuse(mech)
              \/ mech \in server.offered \ TwoSteps /\ Accept(mech)
              \/ /\ mech \in server.offered \ TwoSteps /\ Says(<<"step">>)
                 /\ server' = [server EXCEPT !.odd = TRUE]
              \/ /\ mech \in server.offered \cap TwoSteps /\ Says(<<"step">>)
                 /\ server' = [server EXCEPT !.pc = "reply", !.mech = mech]
<1>1. PICK mech : mech = Head(toServer).kind
  OBVIOUS
<1>2. mech \in Mechs \cup {"command"} /\ server.pc = "mech" /\ toServer # <<>>
  BY <1>1 DEF ReadMech, Read
<1>3. \/ mech \notin server.offered /\ Refuse(mech)
      \/ /\ mech \in server.offered \ {"CRAM-MD5", "DIGEST-MD5"}
          /\ \/ Accept(mech) \/ Refuse(mech)
             \/ /\ "noise" \in Faults /\ Says(<<"step">>)
                /\ server' = [server EXCEPT !.odd = TRUE]
      \/ /\ mech \in server.offered \cap {"CRAM-MD5", "DIGEST-MD5"}
         /\ server' = [server EXCEPT !.pc = "reply", !.mech = mech]
         /\ Says(<<"step">>)
  BY <1>1, Zenon DEF ReadMech
<1>4. CASE mech \notin server.offered /\ Refuse(mech)
  BY <1>1, <1>2, <1>4
<1>5. CASE /\ mech \in server.offered \ {"CRAM-MD5", "DIGEST-MD5"}
          /\ \/ Accept(mech) \/ Refuse(mech)
             \/ /\ "noise" \in Faults /\ Says(<<"step">>)
                /\ server' = [server EXCEPT !.odd = TRUE]
  <2>1. mech \in server.offered \ TwoSteps /\ mech \notin TwoSteps
    BY <1>5 DEF TwoSteps
  <2> QED
    BY <1>1, <1>2, <1>5, <2>1, Zenon
<1>6. CASE /\ mech \in server.offered \cap {"CRAM-MD5", "DIGEST-MD5"}
          /\ server' = [server EXCEPT !.pc = "reply", !.mech = mech]
          /\ Says(<<"step">>)
  <2>1. mech \in server.offered \cap TwoSteps
    BY <1>6 DEF TwoSteps
  <2> QED
    BY <1>1, <1>2, <1>6, <2>1, Zenon
<1> QED
  BY <1>3, <1>4, <1>5, <1>6

\* A server that does not answer a mechanism as it should.
LEMMA PuzzleEffect ==
    ASSUME TypeInv, Says(<<"step">>), server' = [server EXCEPT !.odd = TRUE]
    PROVE  /\ server' \in ServerType /\ server'.pc = server.pc /\ server'.odd = TRUE
           /\ server'.session = server.session /\ server'.layer = server.layer
           /\ server'.offered = server.offered /\ server'.refused = server.refused
           /\ server'.user = server.user /\ server'.mech = server.mech
           /\ toClient' = toClient \o <<Msg("step", server.layer)>>
           /\ toClient' \in Seq(ToClientMsgs)
<1>1. server \in ServerType
  BY DEF TypeInv
<1>2. "step" \in ToClientKinds
  BY DEF ToClientKinds
<1> QED
  BY <1>1, <1>2, SaysEffect DEF ServerType

\* The server sends a challenge and waits for the reply.
LEMMA AskEffect ==
    ASSUME TypeInv, NEW mech \in Mechs, Says(<<"step">>),
           server' = [server EXCEPT !.pc = "reply", !.mech = mech]
    PROVE  /\ server' \in ServerType /\ server'.pc = "reply" /\ server'.mech = mech
           /\ server'.session = server.session /\ server'.layer = server.layer
           /\ server'.offered = server.offered /\ server'.refused = server.refused
           /\ server'.user = server.user /\ server'.odd = server.odd
           /\ toClient' = toClient \o <<Msg("step", server.layer)>>
           /\ toClient' \in Seq(ToClientMsgs)
<1>1. server \in ServerType
  BY DEF TypeInv
<1>2. "step" \in ToClientKinds
  BY DEF ToClientKinds
<1> QED
  BY <1>1, <1>2, SaysEffect DEF ServerType

\* The answer to a mechanism keeps the types.
LEMMA ReadMechType ==
    ASSUME TypeInv, ReadMech
    PROVE  server' \in ServerType /\ toClient' \in Seq(ToClientMsgs)
           /\ (server'.pc = "reply" => server'.mech \in TwoSteps)
<1>1. PICK mech \in Mechs \cup {"command"} :
           /\ server.pc = "mech"
           /\ \/ Refuse(mech)
              \/ mech \in server.offered \ TwoSteps /\ Accept(mech)
              \/ /\ mech \in server.offered \ TwoSteps /\ Says(<<"step">>)
                 /\ server' = [server EXCEPT !.odd = TRUE]
              \/ /\ mech \in server.offered \cap TwoSteps /\ Says(<<"step">>)
                 /\ server' = [server EXCEPT !.pc = "reply", !.mech = mech]
  BY ReadMechCases, Zenon
<1>2. CASE Refuse(mech)
  <2>1. mech \in ToServerKinds
    BY DEF ToServerKinds
  <2> QED
    BY <1>2, <2>1, RefuseEffect
<1>3. CASE Accept(mech)
  BY <1>3, AcceptEffect
<1>4. CASE Says(<<"step">>) /\ server' = [server EXCEPT !.odd = TRUE]
  BY <1>1, <1>4, PuzzleEffect
<1>5. CASE /\ mech \in server.offered \cap TwoSteps /\ Says(<<"step">>)
           /\ server' = [server EXCEPT !.pc = "reply", !.mech = mech]
  <2>1. mech \in Mechs /\ mech \in TwoSteps
    BY <1>5 DEF TwoSteps, Mechs
  <2> QED
    BY <1>5, <2>1, AskEffect
<1> QED
  BY <1>1, <1>2, <1>3, <1>4, <1>5

\* The answer to a reply keeps the types.
LEMMA ReadReplyType ==
    ASSUME TypeInv, ReadReply
    PROVE  server' \in ServerType /\ toClient' \in Seq(ToClientMsgs)
           /\ (server'.pc = "reply" => server'.mech \in TwoSteps)
<1>1. PICK mech : mech = server.mech
  OBVIOUS
<1>2. CASE Accept(mech) \/ Refuse(mech)
  BY <1>1, <1>2, ReplyCases, AcceptEffect, RefuseEffect
<1>3. CASE toClient' = toClient /\ server' = [server EXCEPT !.pc = "closed"]
  BY <1>3, HangUpEffect DEF TypeInv
<1> QED
  BY <1>1, <1>2, <1>3, ReplyCases

\* Every step keeps the types.
LEMMA TypeStep == TypeInv /\ [Next]_vars => TypeInv'
<1> SUFFICES ASSUME TypeInv, [Next]_vars PROVE TypeInv'
  OBVIOUS
<1>1. CASE UNCHANGED vars
  BY <1>1 DEF TypeInv, vars
<1>2. CASE Progress
  BY <1>2, FillType, ReadGreetingType, ReadAuthRequestType, ReadChallengeType, ReadSaslType,
     ReadReposInfoType, ReadResponseType, ClientFailsType DEF Progress
<1>3. CASE SendCommand
  BY <1>3, SendCommandEffect DEF TypeInv
<1>4. CASE Greet
  BY <1>4, GreetEffect DEF TypeInv
<1>5. CASE ReadClientResponse
  <2>1. server' \in ServerType /\ toClient' \in Seq(ToClientMsgs) /\ server'.pc # "reply"
    BY <1>5, ReadClientResponseEffect
  <2> QED
    BY <1>5, <2>1, ReadEffect DEF TypeInv, ReadClientResponse
<1>6. CASE ReadCommand
  <2>1. server' \in ServerType /\ toClient' \in Seq(ToClientMsgs) /\ server'.pc # "reply"
    BY <1>6, ReadCommandEffect
  <2> QED
    BY <1>6, <2>1, ReadEffect DEF TypeInv, ReadCommand
<1>7. CASE ReadMech
  <2>1. PICK kinds : kinds = Mechs \cup {"command"}
    OBVIOUS
  <2>2. Read(kinds)
    BY <1>7, <2>1, Zenon DEF ReadMech
  <2> QED
    BY <1>7, <2>2, ReadMechType, ReadEffect DEF TypeInv
<1>8. CASE ReadReply
  <2>1. Read({"reply", "command"})
    BY <1>8 DEF ReadReply
  <2> QED
    BY <1>8, <2>1, ReadReplyType, ReadEffect DEF TypeInv
<1>9. CASE Close
  <2>1. toServer' \in Seq(ToServerMsgs)
    BY <1>9, CloseEffect, EmptySeq
  <2> QED
    BY <1>9, <2>1, CloseEffect DEF TypeInv
<1> QED
  BY <1>1, <1>2, <1>3, <1>4, <1>5, <1>6, <1>7, <1>8, <1>9 DEF Next

-----------------------------------------------------------------------------
(* What is on its way to the client, in the buffer b and the socket t, when  *)
(* the client has the layer on or off: nothing, one message, or two.         *)

View(layer, m) == IF layer THEN Decoded(m) ELSE m

None(b, t) == b = <<>> /\ t = <<>>

One(b, t, layer, m) ==
    \/ b = <<View(layer, m)>> /\ t = <<>>
    \/ b = <<>> /\ t = <<m>>

Two(b, t, layer, m, n) ==
    \/ b = <<View(layer, m), View(layer, n)>> /\ t = <<>>
    \/ b = <<View(layer, m)>> /\ t = <<n>>
    \/ b = <<>> /\ t = <<m, n>>

\* A message stays one, seen decoded or not.
LEMMA ViewType ==
    ASSUME NEW layer \in BOOLEAN, NEW m \in ToClientMsgs
    PROVE  View(layer, m) \in ToClientMsgs
BY DecodedFacts DEF View

\* The client takes the first of them.
LEMMA TakeOne ==
    ASSUME NEW b, NEW t, NEW layer \in BOOLEAN, NEW m \in ToClientMsgs,
           One(b, t, layer, m), b # <<>>
    PROVE  Head(b) = View(layer, m) /\ None(Tail(b), t)
BY ViewType, Singles DEF One, None

\* The first of two messages is taken, the second is left.
LEMMA TakeTwo ==
    ASSUME NEW b, NEW t, NEW layer \in BOOLEAN, NEW m \in ToClientMsgs, NEW n \in ToClientMsgs,
           Two(b, t, layer, m, n), b # <<>>
    PROVE  Head(b) = View(layer, m) /\ One(Tail(b), t, layer, n)
<1>1. View(layer, m) \in ToClientMsgs /\ View(layer, n) \in ToClientMsgs
  BY ViewType
<1>2. CASE b = <<View(layer, m), View(layer, n)>> /\ t = <<>>
  BY <1>1, <1>2, Pairs DEF One
<1>3. CASE b = <<View(layer, m)>> /\ t = <<n>>
  BY <1>1, <1>3, Singles DEF One
<1> QED
  BY <1>2, <1>3 DEF Two

\* The layer goes on between them: the one that is left is still understood.
LEMMA TakeTwoDecoded ==
    ASSUME NEW b, NEW t, NEW m \in ToClientMsgs, NEW n \in ToClientMsgs,
           Two(b, t, FALSE, m, n), b # <<>>
    PROVE  Head(b) = m /\ One(DecodeRest(Tail(b)), t, TRUE, n)
<1>1. /\ View(FALSE, m) = m /\ View(FALSE, n) = n /\ View(TRUE, n) = Decoded(n)
      /\ \A l \in ToClientMsgs : DecodeRest(<<l>>) = <<Decoded(l)>>
      /\ <<>> \in Seq(ToClientMsgs)
  BY FetchedFacts, EmptySeq DEF View
<1>2. DecodeRest(<<>>) = <<>>
  BY <1>1, FetchedFacts
<1>3. CASE b = <<View(FALSE, m), View(FALSE, n)>> /\ t = <<>>
  <2>1. Head(b) = m /\ Tail(b) = <<n>>
    <3>1. b = <<m, n>>
      BY <1>1, <1>3, Zenon
    <3> QED
      BY <3>1, Pairs
  <2> QED
    BY <1>1, <1>3, <2>1 DEF One
<1>4. CASE b = <<View(FALSE, m)>> /\ t = <<n>>
  <2>1. Head(b) = m /\ Tail(b) = <<>>
    BY <1>1, <1>4, Singles
  <2> QED
    BY <1>2, <1>4, <2>1 DEF One
<1> QED
  BY <1>3, <1>4 DEF Two

\* A read of the socket brings what there is nearer.
LEMMA FillOne ==
    ASSUME NEW b, NEW t, NEW layer \in BOOLEAN, NEW m \in ToClientMsgs,
           One(b, t, layer, m), b = <<>>, NEW k \in 1 .. Len(t)
    PROVE  One(Fetched(SubSeq(t, 1, k), layer), SubSeq(t, k + 1, Len(t)), layer, m)
<1>1. t = <<m>>
  BY DEF One
<1>2. Len(t) = 1 /\ k = 1 /\ SubSeq(t, 1, k) = <<m>> /\ SubSeq(t, k + 1, Len(t)) = <<>>
  <2>1. Len(t) = 1
    BY <1>1
  <2>2. k = 1
    BY <2>1
  <2> QED
    BY <1>1, <2>1, <2>2, Singles
<1>3. <<m>> \in Seq(ToClientMsgs)
  BY Singles
<1>4. Fetched(<<m>>, layer) = <<View(layer, m)>>
  BY <1>3, FetchedFacts DEF View
<1> QED
  BY <1>2, <1>4 DEF One

\* A read of the socket brings one of two messages, or both.
LEMMA FillTwo ==
    ASSUME NEW b, NEW t, NEW layer \in BOOLEAN, NEW m \in ToClientMsgs, NEW n \in ToClientMsgs,
           Two(b, t, layer, m, n), b = <<>>, NEW k \in 1 .. Len(t)
    PROVE  Two(Fetched(SubSeq(t, 1, k), layer), SubSeq(t, k + 1, Len(t)), layer, m, n)
<1>1. t = <<m, n>>
  BY DEF Two
<1>2. Len(t) = 2 /\ k \in {1, 2}
  <2>1. Len(t) = 2
    BY <1>1
  <2> QED
    BY <2>1
<1>3. <<m>> \in Seq(ToClientMsgs) /\ <<m, n>> \in Seq(ToClientMsgs)
  BY Singles, Pairs
<1>4. Fetched(<<m>>, layer) = <<View(layer, m)>>
  BY <1>3, FetchedFacts DEF View
<1>5. Fetched(<<m, n>>, layer) = <<View(layer, m), View(layer, n)>>
  BY <1>3, FetchedFacts DEF View
<1>6. CASE k = 1
  <2>1. SubSeq(t, 1, k) = <<m>> /\ SubSeq(t, k + 1, Len(t)) = <<n>>
    <3>1. /\ SubSeq(<<m, n>>, 1, 1) = <<m>> /\ SubSeq(<<m, n>>, 2, 2) = <<n>>
      BY Pairs
    <3>2. k + 1 = 2 /\ Len(t) = 2 /\ k = 1
      BY <1>2, <1>6
    <3> QED
      BY <1>1, <3>1, <3>2, Zenon
  <2> QED
    BY <1>4, <2>1 DEF Two
<1>7. CASE k = 2
  <2>1. SubSeq(t, 1, k) = <<m, n>> /\ SubSeq(t, k + 1, Len(t)) = <<>>
    <3>1. /\ SubSeq(<<m, n>>, 1, 2) = <<m, n>> /\ SubSeq(<<m, n>>, 3, 2) = <<>>
      BY Pairs
    <3>2. k + 1 = 3 /\ Len(t) = 2 /\ k = 2
      BY <1>2, <1>7
    <3> QED
      BY <1>1, <3>1, <3>2, Zenon
  <2> QED
    BY <1>5, <2>1 DEF Two
<1> QED
  BY <1>2, <1>6, <1>7

\* The server has something to say.
LEMMA Speak ==
    ASSUME NEW b, NEW t, NEW layer \in BOOLEAN, NEW m \in ToClientMsgs, NEW n \in ToClientMsgs,
           None(b, t)
    PROVE  /\ One(b, t \o <<m>>, layer, m) /\ One(b, Append(t, m), layer, m)
           /\ One(b, t \o <<m>> \o <<>>, layer, m)
           /\ Two(b, t \o <<m, n>>, layer, m, n) /\ Two(b, Append(t, m) \o <<n>>, layer, m, n)
           /\ Two(b, t \o <<m>> \o <<n>>, layer, m, n)
<1>1. b = <<>> /\ t = <<>>
  BY DEF None
<1>2. /\ t \o <<m>> = <<m>> /\ Append(t, m) = <<m>> /\ <<m>> \o <<n>> = <<m, n>>
      /\ <<m>> \o <<>> = <<m>>
  BY <1>1, Grown
<1>3. t \o <<m, n>> = <<m, n>>
  BY <1>1, Pairs, ConcatEmptySeq
<1> QED
  BY <1>1, <1>2, <1>3 DEF One, Two

-----------------------------------------------------------------------------
(* The places client and server are in together.  A server that has hung up  *)
(* has lost what was on its way to it, and all that was sent to it since     *)
(* stays unread.                                                             *)

At(place, wire, pc, sent) ==
    \/ place = pc /\ wire = sent
    \/ place = "closed" /\ (wire = sent \/ wire = <<>>)

ServerAt(pc) == At(server.pc, toServer, pc, <<>>)
ServerHas(pc, kind) == At(server.pc, toServer, pc, <<Msg(kind, client.layer)>>)

Silent == None(buf, toClient)
Comes(m) == One(buf, toClient, client.layer, m)
ComeBoth(m, n) == Two(buf, toClient, client.layer, m, n)

AuthMsgOf(offered, layer) == [Msg("auth", layer) EXCEPT !.mechs = offered]

Bare == ~client.layer /\ ~server.layer

\* The server has followed the protocol and both use the same layer; in an
\* exchange they also agree on what comes last.
Alike == client.layer = server.layer /\ ~server.odd
Sound == client.session = server.session /\ Alike

\* What a server may say once nobody has to be asked: how the command ended, or
\* what the repository is.
Lasts(session) == IF session THEN {"success", "failure"} ELSE {"reposinfo"}

NotGreeted ==
    /\ client.pc = "greeting" /\ ~client.session /\ ~server.session /\ Bare
    /\ \/ ~server.odd /\ Silent /\ ServerAt("greet")
       \/ /\ ServerAt("response")
          /\ Comes(Msg(IF server.odd THEN "oldgreeting" ELSE "greeting", FALSE))

Introduced ==
    /\ client.pc = "authrequest" /\ Sound /\ Bare /\ ~client.session
    /\ Silent /\ ServerHas("response", "response")

Admitted ==
    /\ client.pc = "authrequest" /\ Sound /\ ServerAt("command")
    /\ \E kind \in Lasts(client.session) :
         ComeBoth(AuthMsgOf({}, client.layer), Msg(kind, client.layer))

Asked ==
    /\ client.pc = "authrequest" /\ Sound /\ Bare /\ ServerAt("mech")
    /\ server.offered # {} /\ Comes(AuthMsgOf(server.offered, FALSE))

Commanding ==
    /\ client.pc = "authrequest" /\ Alike /\ client.session
    /\ Silent /\ ServerHas("command", "command")

\* After a refused authentication the server still waits for a mechanism, or for a
\* reply that SASL did not give, and takes the next command for it.
Shut ==
    /\ Sound /\ Bare /\ client.session /\ AuthRefused
    /\ \/ client.pc = "ready" /\ Silent /\ (ServerAt("mech") \/ ServerAt("reply"))
       \/ /\ client.pc = "authrequest" /\ Silent
          /\ ServerHas("mech", "command") \/ ServerHas("reply", "command")
       \/ client.pc = "authrequest" /\ Comes(Msg("failure", FALSE)) /\ ServerAt("mech")

Exchange ==
    /\ client.pc \in {"challenge", "sasl"} /\ client.session = server.session
    /\ client.offered = server.offered /\ ~client.layer
    /\ client.pc = "challenge" => client.mech # "DIGEST-MD5"
    /\ client.mech \in server.offered

Trying ==
    /\ Exchange /\ Sound /\ Silent /\ ServerHas("mech", client.mech)
    /\ client.pc = "sasl" => client.more = (client.mech \in TwoSteps)

Refused ==
    /\ Exchange /\ Sound /\ Comes(Msg("failure", FALSE)) /\ ServerAt("mech")
    /\ client.mech \in server.refused

Challenged ==
    /\ Exchange /\ Sound /\ Comes(Msg("step", FALSE)) /\ ServerAt("reply")
    /\ server.mech = client.mech /\ client.mech \in TwoSteps
    /\ client.pc = "sasl" => client.more

Replied ==
    /\ Exchange /\ Sound /\ Silent /\ ServerHas("reply", "reply")
    /\ server.mech = client.mech /\ client.mech \in TwoSteps

\* A challenge that the mechanism does not have.
Puzzled ==
    /\ Exchange /\ server.odd /\ ~server.layer
    /\ Comes(Msg("step", FALSE)) /\ ServerAt("mech")
    /\ client.mech \notin TwoSteps
    /\ client.pc = "sasl" => ~client.more

\* The user is known; what follows the success may be under the layer already.
Accepted ==
    /\ Exchange /\ ~server.odd /\ ServerAt("command")
    /\ client.pc = "challenge" => ~server.layer
    /\ \E kind \in Lasts(client.session) :
         ComeBoth(Msg("success", FALSE), Msg(kind, server.layer))

Concluding ==
    /\ client.pc = (IF client.session THEN "response" ELSE "reposinfo")
    /\ Sound /\ ServerAt("command")
    /\ \E kind \in Lasts(client.session) : Comes(Msg(kind, client.layer))

Resting ==
    client.pc = "ready" /\ Alike /\ client.session /\ Silent /\ ServerAt("command")

Gone == client.pc = "gone" /\ Len(toServer) <= 1

StepInv ==
    \/ NotGreeted \/ Introduced \/ Admitted \/ Asked \/ Commanding \/ Shut
    \/ Trying \/ Refused \/ Challenged \/ Replied \/ Puzzled \/ Accepted
    \/ Concluding \/ Resting \/ Gone

\* A layer is switched on for a user, and nobody is asked again after that.
LayerInv ==
    /\ server.layer => server.user = "user"
    /\ server.pc \in {"greet", "response", "mech", "reply"} => ~server.layer

\* The built-in mechanisms before the one that is tried have been refused, the
\* ones after it are the ones left to try.
TriedInv ==
    client.pc = "challenge" =>
        \E offered \in SUBSET Mechs, list \in Seq(Mechs) :
           /\ offered = client.offered /\ list = SelectMechs(offered)
           /\ \E k \in 1 .. Len(list) :
                /\ client.mech = list[k]
                /\ client.tries = SubSeq(list, k + 1, Len(list))
                /\ \A j \in 1 .. k - 1 : list[j] \in server.refused

OddInv == (\E i \in DOMAIN results : results[i] = "protocol") => server.odd

-----------------------------------------------------------------------------

\* Where the client is tells the places both can be in.
LEMMA PlaceOf ==
    ASSUME StepInv
    PROVE  /\ client.pc = "greeting" => NotGreeted
           /\ client.pc = "authrequest" => Introduced \/ Admitted \/ Asked \/ Commanding \/ Shut
           /\ client.pc \in {"challenge", "sasl"} =>
                Trying \/ Refused \/ Challenged \/ Replied \/ Puzzled \/ Accepted
           /\ client.pc \in {"reposinfo", "response"} => Concluding
           /\ client.pc = "ready" => Shut \/ Resting
           /\ client.pc = "gone" => Gone
BY DEF StepInv, NotGreeted, Introduced, Admitted, Asked, Commanding, Shut, Trying, Refused,
       Challenged, Replied, Puzzled, Accepted, Concluding, Resting, Gone, Exchange

\* A message written under the client's layer is read as it was written.
LEMMA ItemIs ==
    ASSUME TypeInv, NEW m \in ToClientMsgs, Head(buf) = View(client.layer, m),
           m.layer = client.layer
    PROVE  Item = m.kind /\ Head(buf).mechs = m.mechs
<1>1. client.layer \in BOOLEAN
  BY DEF TypeInv, ClientType
<1>2. CASE client.layer = TRUE
  BY <1>2, DecodedFacts DEF Item, View
<1>3. CASE client.layer = FALSE
  BY <1>3 DEF Item, View
<1> QED
  BY <1>1, <1>2, <1>3

\* The last answer is a message, and which one it is depends on the session.
LEMMA LastKinds ==
    ASSUME NEW session \in BOOLEAN, NEW kind \in Lasts(session), NEW layer \in BOOLEAN
    PROVE  Msg(kind, layer) \in ToClientMsgs /\ kind \in {"success", "failure", "reposinfo"}
           /\ (session => kind \in {"success", "failure"}) /\ (~session => kind = "reposinfo")
<1>1. kind \in ToClientKinds
  BY DEF Lasts, ToClientKinds
<1> QED
  BY <1>1, MsgFacts DEF Lasts

\* The messages the server sends are of their type.
LEMMA FewMsgs ==
    ASSUME NEW layer \in BOOLEAN
    PROVE  /\ Msg("greeting", layer) \in ToClientMsgs /\ Msg("oldgreeting", layer) \in ToClientMsgs
           /\ Msg("step", layer) \in ToClientMsgs /\ Msg("success", layer) \in ToClientMsgs
           /\ Msg("failure", layer) \in ToClientMsgs /\ Msg("reposinfo", layer) \in ToClientMsgs
BY MsgFacts DEF ToClientKinds

\* The greeting arrives.
LEMMA GreetingArrives ==
    ASSUME TypeInv, StepInv, client.pc = "greeting", buf # <<>>
    PROVE  /\ Item = IF server.odd THEN "oldgreeting" ELSE "greeting"
           /\ None(Tail(buf), toClient) /\ ServerAt("response")
           /\ ~client.session /\ ~server.session /\ Bare
<1>1. NotGreeted
  BY PlaceOf
<1>2. /\ ~client.session /\ ~server.session /\ Bare /\ ServerAt("response")
      /\ Comes(Msg(IF server.odd THEN "oldgreeting" ELSE "greeting", FALSE))
  BY <1>1 DEF NotGreeted, Silent, None
<1>3. PICK kind \in {"oldgreeting", "greeting"} :
         kind = IF server.odd THEN "oldgreeting" ELSE "greeting"
  OBVIOUS
<1>4. PICK m : m = Msg(kind, FALSE)
  OBVIOUS
<1>5. m \in ToClientMsgs /\ m.kind = kind /\ m.layer = FALSE
  BY <1>4, FewMsgs, MsgFacts
<1>6. One(buf, toClient, client.layer, m)
  BY <1>2, <1>3, <1>4, Zenon DEF Comes
<1>7. client.layer = FALSE
  BY <1>2 DEF Bare, TypeInv, ClientType
<1>8. Head(buf) = View(client.layer, m) /\ None(Tail(buf), toClient)
  BY <1>5, <1>6, <1>7, TakeOne
<1>9. Item = kind
  BY <1>5, <1>7, <1>8, ItemIs
<1> QED
  BY <1>2, <1>3, <1>8, <1>9

\* A request for authentication arrives, or the refusal of a command that the
\* server has taken for a mechanism.
LEMMA AuthArrives ==
    ASSUME TypeInv, StepInv, client.pc = "authrequest", buf # <<>>
    PROVE  /\ Sound
           /\ \/ /\ Item = "auth" /\ Head(buf).mechs = {} /\ ServerAt("command")
                 /\ \E kind \in Lasts(client.session) :
                      One(Tail(buf), toClient, client.layer, Msg(kind, client.layer))
              \/ /\ Item = "auth" /\ Head(buf).mechs = server.offered /\ server.offered # {}
                 /\ Bare /\ None(Tail(buf), toClient) /\ ServerAt("mech")
              \/ /\ Item = "failure" /\ client.session /\ AuthRefused
                 /\ Bare /\ None(Tail(buf), toClient) /\ ServerAt("mech")
<1>0. client.layer \in BOOLEAN /\ client.session \in BOOLEAN /\ server.offered \in SUBSET Mechs
  BY DEF TypeInv, ClientType, ServerType
<1>1. Admitted \/ Asked \/ (Shut /\ Comes(Msg("failure", FALSE)) /\ ServerAt("mech"))
  BY PlaceOf DEF Introduced, Commanding, Shut, Silent, None
<1>2. CASE Admitted
  <2>1. Sound /\ ServerAt("command")
    BY <1>2 DEF Admitted
  <2>2. PICK kind \in Lasts(client.session) :
           ComeBoth(AuthMsgOf({}, client.layer), Msg(kind, client.layer))
    BY <1>2 DEF Admitted
  <2>3. PICK m, n : m = AuthMsgOf({}, client.layer) /\ n = Msg(kind, client.layer)
    OBVIOUS
  <2>4. m \in ToClientMsgs /\ m.kind = "auth" /\ m.layer = client.layer /\ m.mechs = {}
    BY <1>0, <2>3, AuthMsg DEF AuthMsgOf
  <2>5. n \in ToClientMsgs
    BY <1>0, <2>3, LastKinds
  <2>6. Two(buf, toClient, client.layer, m, n)
    BY <2>2, <2>3, Zenon DEF ComeBoth
  <2>7. Head(buf) = View(client.layer, m) /\ One(Tail(buf), toClient, client.layer, n)
    BY <1>0, <2>4, <2>5, <2>6, TakeTwo
  <2>8. Item = "auth" /\ Head(buf).mechs = {}
    BY <2>4, <2>7, ItemIs
  <2> QED
    BY <2>1, <2>3, <2>7, <2>8, Zenon
<1>3. CASE Asked
  <2>1. /\ Sound /\ Bare /\ ServerAt("mech") /\ server.offered # {}
        /\ Comes(AuthMsgOf(server.offered, FALSE))
    BY <1>3 DEF Asked
  <2>2. PICK m : m = AuthMsgOf(server.offered, FALSE)
    OBVIOUS
  <2>3. client.layer = FALSE
    BY <1>0, <2>1 DEF Bare
  <2>4. m \in ToClientMsgs /\ m.kind = "auth" /\ m.layer = FALSE /\ m.mechs = server.offered
    BY <1>0, <2>2, AuthMsg DEF AuthMsgOf
  <2>5. One(buf, toClient, client.layer, m)
    BY <2>1, <2>2, Zenon DEF Comes
  <2>6. Head(buf) = View(client.layer, m) /\ None(Tail(buf), toClient)
    BY <1>0, <2>4, <2>5, TakeOne
  <2>7. Item = "auth" /\ Head(buf).mechs = server.offered
    BY <2>3, <2>4, <2>6, ItemIs
  <2> QED
    BY <2>1, <2>6, <2>7
<1>4. CASE Shut /\ Comes(Msg("failure", FALSE)) /\ ServerAt("mech")
  <2>1. Sound /\ Bare /\ client.session /\ AuthRefused
    BY <1>4 DEF Shut
  <2>2. PICK m : m = Msg("failure", FALSE)
    OBVIOUS
  <2>3. client.layer = FALSE
    BY <1>0, <2>1 DEF Bare
  <2>4. m \in ToClientMsgs /\ m.kind = "failure" /\ m.layer = FALSE
    BY <2>2, FewMsgs, MsgFacts
  <2>5. One(buf, toClient, client.layer, m)
    BY <1>4, <2>2, Zenon DEF Comes
  <2>6. Head(buf) = View(client.layer, m) /\ None(Tail(buf), toClient)
    BY <1>0, <2>4, <2>5, TakeOne
  <2>7. Item = "failure"
    BY <2>3, <2>4, <2>6, ItemIs
  <2> QED
    BY <1>4, <2>1, <2>6, <2>7
<1> QED
  BY <1>1, <1>2, <1>3, <1>4

\* The server answers a mechanism, or a reply.
LEMMA AnswerArrives ==
    ASSUME TypeInv, StepInv, client.pc \in {"challenge", "sasl"}, buf # <<>>
    PROVE  /\ Exchange
           /\ \/ Refused /\ Item = "failure" /\ None(Tail(buf), toClient)
              \/ Challenged /\ Item = "step" /\ None(Tail(buf), toClient)
              \/ Puzzled /\ Item = "step" /\ None(Tail(buf), toClient)
              \/ /\ Accepted /\ Item = "success"
                 /\ \E kind \in Lasts(client.session) :
                      /\ ~server.layer => One(Tail(buf), toClient, FALSE, Msg(kind, FALSE))
                      /\ server.layer =>
                           One(DecodeRest(Tail(buf)), toClient, TRUE, Msg(kind, TRUE))
<1>0. client.layer \in BOOLEAN /\ client.session \in BOOLEAN /\ server.layer \in BOOLEAN
  BY DEF TypeInv, ClientType, ServerType
<1>1. Refused \/ Challenged \/ Puzzled \/ Accepted
  BY PlaceOf DEF Trying, Replied, Silent, None
<1>2. Exchange
  BY <1>1 DEF Refused, Challenged, Puzzled, Accepted
<1>3. client.layer = FALSE
  BY <1>0, <1>2 DEF Exchange
<1>4. ASSUME NEW kind \in {"failure", "step"}, Comes(Msg(kind, FALSE))
      PROVE  Item = kind /\ None(Tail(buf), toClient)
  <2>1. PICK m : m = Msg(kind, FALSE)
    OBVIOUS
  <2>2. m \in ToClientMsgs /\ m.kind = kind /\ m.layer = FALSE
    BY <2>1, FewMsgs, MsgFacts
  <2>3. One(buf, toClient, client.layer, m)
    BY <1>4, <2>1, Zenon DEF Comes
  <2>4. Head(buf) = View(client.layer, m) /\ None(Tail(buf), toClient)
    BY <1>0, <2>2, <2>3, TakeOne
  <2> QED
    BY <1>3, <2>2, <2>4, ItemIs
<1>5. CASE Refused
  BY <1>2, <1>4, <1>5 DEF Refused
<1>6. CASE Challenged
  BY <1>2, <1>4, <1>6 DEF Challenged
<1>7. CASE Puzzled
  BY <1>2, <1>4, <1>7 DEF Puzzled
<1>8. CASE Accepted
  <2>1. PICK kind \in Lasts(client.session) :
           ComeBoth(Msg("success", FALSE), Msg(kind, server.layer))
    BY <1>8 DEF Accepted
  <2>2. PICK m, n : m = Msg("success", FALSE) /\ n = Msg(kind, server.layer)
    OBVIOUS
  <2>3. m \in ToClientMsgs /\ m.kind = "success" /\ m.layer = FALSE
    BY <2>2, FewMsgs, MsgFacts
  <2>4. n \in ToClientMsgs
    BY <1>0, <2>2, LastKinds
  <2>5. Two(buf, toClient, client.layer, m, n)
    BY <2>1, <2>2, Zenon DEF ComeBoth
  <2>6. Head(buf) = View(client.layer, m) /\ One(Tail(buf), toClient, client.layer, n)
    BY <1>0, <2>3, <2>4, <2>5, TakeTwo
  <2>7. Item = "success"
    BY <1>3, <2>3, <2>6, ItemIs
  <2>8. Two(buf, toClient, FALSE, m, n)
    BY <1>3, <2>5, Zenon
  <2>9. One(DecodeRest(Tail(buf)), toClient, TRUE, n)
    BY <2>3, <2>4, <2>8, TakeTwoDecoded
  <2>10. ~server.layer => One(Tail(buf), toClient, FALSE, Msg(kind, FALSE))
    <3> SUFFICES ASSUME ~server.layer PROVE One(Tail(buf), toClient, FALSE, Msg(kind, FALSE))
      OBVIOUS
    <3>1. server.layer = FALSE
      BY <1>0
    <3> QED
      BY <1>3, <2>2, <2>6, <3>1, Zenon
  <2>11. server.layer => One(DecodeRest(Tail(buf)), toClient, TRUE, Msg(kind, TRUE))
    <3> SUFFICES ASSUME server.layer
                 PROVE  One(DecodeRest(Tail(buf)), toClient, TRUE, Msg(kind, TRUE))
      OBVIOUS
    <3>1. server.layer = TRUE
      BY <1>0
    <3> QED
      BY <2>2, <2>9, <3>1, Zenon
  <2> QED
    BY <1>2, <1>8, <2>7, <2>10, <2>11
<1> QED
  BY <1>1, <1>5, <1>6, <1>7, <1>8

\* The last answer arrives.
LEMMA LastArrives ==
    ASSUME TypeInv, StepInv, client.pc \in {"reposinfo", "response"}, buf # <<>>
    PROVE  /\ client.pc = (IF client.session THEN "response" ELSE "reposinfo")
           /\ Sound /\ ServerAt("command") /\ None(Tail(buf), toClient)
           /\ client.session => Item \in {"success", "failure"}
           /\ ~client.session => Item = "reposinfo"
<1>0. client.layer \in BOOLEAN /\ client.session \in BOOLEAN
  BY DEF TypeInv, ClientType
<1>1. Concluding
  BY PlaceOf
<1>2. PICK kind \in Lasts(client.session) : Comes(Msg(kind, client.layer))
  BY <1>1 DEF Concluding
<1>3. PICK m : m = Msg(kind, client.layer)
  OBVIOUS
<1>4. m \in ToClientMsgs /\ m.kind = kind /\ m.layer = client.layer
  BY <1>0, <1>3, LastKinds, MsgFacts
<1>5. One(buf, toClient, client.layer, m)
  BY <1>2, <1>3, Zenon DEF Comes
<1>6. Head(buf) = View(client.layer, m) /\ None(Tail(buf), toClient)
  BY <1>0, <1>4, <1>5, TakeOne
<1>7. Item = kind
  BY <1>4, <1>6, ItemIs
<1>8. /\ client.session => kind \in {"success", "failure"}
      /\ ~client.session => kind = "reposinfo"
  BY <1>0, LastKinds
<1> QED
  BY <1>1, <1>6, <1>7, <1>8 DEF Concluding

-----------------------------------------------------------------------------
(* From place to place: the client.                                         *)

\* Nothing is on its way to a server that waits.
LEMMA AtEmpty ==
    ASSUME NEW pc, ServerAt(pc)
    PROVE  toServer = <<>> /\ (server.pc = pc \/ server.pc = "closed")
BY DEF ServerAt, At

\* One message is on its way to a server that waited.
LEMMA AtSend ==
    ASSUME NEW place, NEW wire, NEW pc, NEW kind \in ToServerKinds, NEW layer \in BOOLEAN,
           At(place, wire, pc, <<>>)
    PROVE  At(place, Append(wire, Msg(kind, layer)), pc, <<Msg(kind, layer)>>)
<1>1. wire = <<>> /\ (place = pc \/ place = "closed")
  BY DEF At
<1>2. Msg(kind, layer) \in ToServerMsgs
  BY MsgFacts
<1>3. Append(wire, Msg(kind, layer)) = <<Msg(kind, layer)>>
  BY <1>1, <1>2, Grown
<1> QED
  BY <1>1, <1>3 DEF At

\* At most one message is on its way to the server.
LEMMA ShortWire ==
    ASSUME StepInv
    PROVE  Len(toServer) <= 1 /\ (client.pc # "gone" => toServer = <<>> \/ \E m : toServer = <<m>>)
<1>1. CASE Gone
  BY <1>1 DEF Gone
<1>2. CASE ~Gone
  <2>1. toServer = <<>> \/ \E m : toServer = <<m>>
    BY <1>2 DEF StepInv, NotGreeted, Introduced, Admitted, Asked, Commanding, Shut, Trying,
       Refused, Challenged, Replied, Puzzled, Accepted, Concluding, Resting, ServerAt,
       ServerHas, At
  <2>2. CASE toServer = <<>>
    <3>1. Len(toServer) = 0
      BY <2>2, EmptySeq
    <3> QED
      BY <2>2, <3>1
  <2>3. CASE \E m : toServer = <<m>>
    <3>1. PICK m : toServer = <<m>>
      BY <2>3
    <3>2. Len(toServer) = 1
      BY <3>1
    <3> QED
      BY <2>3, <3>2
  <2> QED
    BY <2>1, <2>2, <2>3
<1> QED
  BY <1>1, <1>2

\* A failure that costs the connection leaves it behind.
LEMMA FailsGone ==
    ASSUME TypeInv, StepInv, NEW result \in Results, Fails(result), Broken(result)
    PROVE  StepInv'
<1>1. client'.pc = "gone" /\ toServer' = toServer
  BY FailsEffect
<1>2. Len(toServer) <= 1
  BY ShortWire
<1> QED
  BY <1>1, <1>2 DEF StepInv, Gone

\* A result stays on record, and a new one adds only itself.
LEMMA RefusedStays ==
    ASSUME NEW s \in Seq(Results), NEW result \in Results
    PROVE  /\ (\E i \in DOMAIN s : s[i] \in AuthErrors) =>
                \E i \in DOMAIN Append(s, result) : Append(s, result)[i] \in AuthErrors
           /\ result \in AuthErrors =>
                \E i \in DOMAIN Append(s, result) : Append(s, result)[i] \in AuthErrors
           /\ (\E i \in DOMAIN Append(s, result) : Append(s, result)[i] = "protocol") =>
                result = "protocol" \/ \E i \in DOMAIN s : s[i] = "protocol"
<1>1. /\ Append(s, result) \in Seq(Results) /\ Len(Append(s, result)) = Len(s) + 1
      /\ \A i \in 1 .. Len(s) : Append(s, result)[i] = s[i]
      /\ Append(s, result)[Len(s) + 1] = result
  BY AppendProperties
<1>2. DOMAIN s = 1 .. Len(s) /\ DOMAIN Append(s, result) = 1 .. Len(s) + 1 /\ Len(s) \in Nat
  BY <1>1, LenProperties
<1>3. \A i \in 1 .. Len(s) + 1 : i \in 1 .. Len(s) \/ i = Len(s) + 1
  BY <1>2
<1>4. Len(s) + 1 \in 1 .. Len(s) + 1 /\ \A i \in 1 .. Len(s) : i \in 1 .. Len(s) + 1
  BY <1>2
<1> QED
  BY <1>1, <1>2, <1>3, <1>4, Zenon

\* After the greeting both have been introduced, or the connection is gone.
LEMMA ReadGreetingStep ==
    ASSUME TypeInv, StepInv, ReadGreeting
    PROVE  StepInv'
<1>0. client.pc = "greeting" /\ buf # <<>>
  BY DEF ReadGreeting
<1>1. /\ Item = IF server.odd THEN "oldgreeting" ELSE "greeting"
      /\ None(Tail(buf), toClient) /\ ServerAt("response")
      /\ ~client.session /\ ~server.session /\ Bare
  BY <1>0, GreetingArrives
<1>2. buf' = Tail(buf) /\ server' = server /\ toClient' = toClient
  BY <1>0, TookEffect DEF ReadGreeting
<1>3. CASE /\ Item = "greeting" /\ Write("response")
           /\ client' = [client EXCEPT !.pc = "authrequest"]
  <2>1. ~server.odd
    BY <1>1, <1>3
  <2>2. /\ client'.pc = "authrequest" /\ client'.session = client.session
        /\ client'.layer = client.layer
    BY <1>3 DEF TypeInv, ClientType
  <2>3. client.layer \in BOOLEAN /\ server.layer \in BOOLEAN /\ client.session \in BOOLEAN
        /\ server.session \in BOOLEAN
    BY DEF TypeInv, ClientType, ServerType
  <2>4. "response" \in ToServerKinds
    BY DEF ToServerKinds
  <2>5. toServer' = Append(toServer, Msg("response", client.layer))
    BY <1>3, <2>4, WriteEffect
  <2>6. At(server.pc, Append(toServer, Msg("response", client.layer)), "response",
           <<Msg("response", client.layer)>>)
    BY <1>1, <2>3, <2>4, AtSend DEF ServerAt
  <2>7. At(server'.pc, toServer', "response", <<Msg("response", client'.layer)>>)
    BY <1>2, <2>2, <2>5, <2>6, Zenon
  <2>8. None(buf', toClient')
    BY <1>1, <1>2, Zenon
  <2>9. /\ ~client'.session /\ client'.session = server'.session /\ ~client'.layer
        /\ ~server'.layer /\ client'.layer = server'.layer /\ ~server'.odd
    BY <1>1, <1>2, <2>1, <2>2, <2>3 DEF Bare
  <2>10. Introduced'
    BY <2>2, <2>7, <2>8, <2>9 DEF Introduced, Sound, Alike, Bare, Silent, ServerHas
  <2> QED
    BY <2>10 DEF StepInv
<1>4. CASE Otherwise({"greeting"})
  <2>1. PICK result \in Results : Fails(result)
    BY <1>4, OtherwiseFails
  <2>2. Broken(result)
    BY <1>1 DEF Broken
  <2> QED
    BY <2>1, <2>2, FailsGone
<1> QED
  BY <1>3, <1>4 DEF ReadGreeting

\* Nobody has to be asked: the last answer is what the client waits for.
LEMMA AuthenticatedStep ==
    ASSUME TypeInv, Authenticated, Sound, ServerAt("command"), buf' = Tail(buf),
           server' = server, toClient' = toClient,
           \E kind \in Lasts(client.session) :
              One(Tail(buf), toClient, client.layer, Msg(kind, client.layer))
    PROVE  StepInv'
<1>1. PICK c : c = Resume(client)
  OBVIOUS
<1>2. client' = c /\ toServer' = toServer
  BY <1>1, Zenon DEF Authenticated
<1>3. /\ client'.pc = IF client.session THEN "response" ELSE "reposinfo"
      /\ client'.session = client.session /\ client'.layer = client.layer
  BY <1>1, <1>2, ResumeEffect
<1>4. At(server'.pc, toServer', "command", <<>>)
  BY <1>2, Zenon DEF ServerAt
<1>5. \E kind \in Lasts(client'.session) :
         One(buf', toClient', client'.layer, Msg(kind, client'.layer))
  BY <1>3, Zenon
<1>6. client'.session = server'.session /\ client'.layer = server'.layer /\ ~server'.odd
  BY <1>3 DEF Sound, Alike
<1>7. Concluding'
  BY <1>3, <1>4, <1>5, <1>6 DEF Concluding, Sound, Alike, ServerAt, Comes
<1> QED
  BY <1>7 DEF StepInv

\* A mechanism is tried where the server waits for one.
LEMMA TryStep ==
    ASSUME TypeInv, Sound, Bare, ServerAt("mech"), None(Tail(buf), toClient),
           buf' = Tail(buf), server' = server, toClient' = toClient,
           NEW offered \in SUBSET Mechs, offered = server.offered,
           NEW mech \in offered, NEW pc \in ExchangePcs, NEW rest \in Seq(Mechs),
           pc = "challenge" => mech # "DIGEST-MD5",
           TryMech(offered, mech, pc, rest)
    PROVE  StepInv'
<1>1. mech \in Mechs /\ mech \in ToServerKinds
  BY DEF ToServerKinds
<1>2. /\ client'.pc = pc /\ client'.mech = mech /\ client'.offered = offered
      /\ client'.more = (mech \in TwoSteps)
      /\ client'.session = client.session /\ client'.layer = client.layer
      /\ toServer' = Append(toServer, Msg(mech, client.layer))
  BY <1>1, TryEffect
<1>3. client.layer \in BOOLEAN
  BY DEF TypeInv, ClientType
<1>4. At(server.pc, Append(toServer, Msg(mech, client.layer)), "mech", <<Msg(mech, client.layer)>>)
  BY <1>1, <1>3, AtSend DEF ServerAt
<1>5. At(server'.pc, toServer', "mech", <<Msg(client'.mech, client'.layer)>>)
  BY <1>2, <1>4, Zenon
<1>6. None(buf', toClient')
  BY Zenon
<1>7. client'.session = server'.session /\ client'.layer = server'.layer /\ ~server'.odd
  BY <1>2 DEF Sound, Alike
<1>8. ~client'.layer
  BY <1>2 DEF Bare
<1>9. Exchange'
  BY <1>2, <1>7, <1>8 DEF Exchange, ExchangePcs
<1>10. client'.more = (client'.mech \in TwoSteps)
  BY <1>2, Zenon DEF TwoSteps
<1>11. Trying'
  BY <1>5, <1>6, <1>7, <1>9, <1>10 DEF Trying, Sound, Alike, Silent, ServerHas
<1> QED
  BY <1>11 DEF StepInv

\* The client gives up: it stays where it is if there is a session already.
LEMMA GiveUpStep ==
    ASSUME TypeInv, StepInv, Sound, Bare, ServerAt("mech") \/ ServerAt("reply"),
           None(Tail(buf), toClient), buf' = Tail(buf), server' = server, toClient' = toClient,
           NEW err \in AuthErrors, Fails(err)
    PROVE  StepInv'
<1>1. err \in Results /\ err \notin {"protocol", "eof", "timeout"}
  BY DEF Results, AuthErrors
<1>2. /\ client'.pc = IF Broken(err) THEN "gone" ELSE "ready"
      /\ client'.session = client.session /\ client'.layer = client.layer
      /\ results' = Append(results, err) /\ toServer' = toServer
  BY <1>1, FailsEffect
<1>3. CASE ~client.session
  BY <1>1, <1>3, FailsGone DEF Broken
<1>4. CASE client.session
  <2>1. client'.pc = "ready" /\ client'.session
    BY <1>1, <1>2, <1>4 DEF Broken
  <2>2. ServerAt("mech")' \/ ServerAt("reply")'
    BY <1>2, Zenon DEF ServerAt
  <2>3. None(buf', toClient')
    BY Zenon
  <2>4. client'.session = server'.session /\ client'.layer = server'.layer /\ ~server'.odd
    BY <1>2 DEF Sound, Alike
  <2>5. ~client'.layer /\ ~server'.layer
    BY <1>2 DEF Bare
  <2>6. AuthRefused'
    <3>1. results \in Seq(Results)
      BY DEF TypeInv
    <3>2. \E i \in DOMAIN Append(results, err) : Append(results, err)[i] \in AuthErrors
      BY <1>1, <3>1, RefusedStays
    <3> QED
      BY <1>2, <3>2, Zenon DEF AuthRefused
  <2>7. Shut'
    BY <2>1, <2>2, <2>3, <2>4, <2>5, <2>6 DEF Shut, Sound, Alike, Bare, Silent
  <2> QED
    BY <2>7 DEF StepInv
<1> QED
  BY <1>3, <1>4

\* The next mechanism is tried where the server waits, or the client gives up.
LEMMA NextMechStep ==
    ASSUME TypeInv, StepInv, Sound, Bare, ServerAt("mech"), None(Tail(buf), toClient),
           buf' = Tail(buf), server' = server, toClient' = toClient,
           NEW offered \in SUBSET Mechs, offered = server.offered,
           NEW tries \in Seq(Mechs),
           \A i \in 1 .. Len(tries) : tries[i] \in offered /\ tries[i] # "DIGEST-MD5",
           NEW err \in AuthErrors, NextMech(offered, tries, err)
    PROVE  StepInv'
<1>1. CASE /\ tries # <<>> /\ Head(tries) \in Mechs /\ Tail(tries) \in Seq(Mechs)
           /\ TryMech(offered, Head(tries), "challenge", Tail(tries))
  <2>1. PICK mech, rest : mech = Head(tries) /\ rest = Tail(tries)
    OBVIOUS
  <2>2. rest \in Seq(Mechs) /\ TryMech(offered, mech, "challenge", rest)
    BY <1>1, <2>1, Zenon
  <2>3. mech = tries[1] /\ 1 \in 1 .. Len(tries)
    BY <1>1, <2>1
  <2>4. mech \in offered /\ mech # "DIGEST-MD5"
    BY <2>3
  <2> QED
    BY <2>2, <2>4, TryStep DEF ExchangePcs
<1>2. CASE \E mech \in LibraryMechs(offered) : TryMech(offered, mech, "sasl", <<>>)
  <2>1. PICK mech \in LibraryMechs(offered) : TryMech(offered, mech, "sasl", <<>>)
    BY <1>2
  <2>2. mech \in offered
    BY LibraryFacts
  <2>3. <<>> \in Seq(Mechs)
    BY EmptySeq
  <2> QED
    BY <2>1, <2>2, <2>3, TryStep DEF ExchangePcs
<1>3. CASE \E e \in AuthErrors : Fails(e)
  <2>1. PICK e \in AuthErrors : Fails(e)
    BY <1>3
  <2> QED
    BY <2>1, GiveUpStep
<1> QED
  BY <1>1, <1>2, <1>3, NextMechCases

\* The rest of a list: its length, its places, its head and its tail.
LEMMA LeftToTry ==
    ASSUME NEW list \in Seq(Mechs), NEW k \in 0 .. Len(list)
    PROVE  LET rest == SubSeq(list, k + 1, Len(list)) IN
           /\ Len(rest) = Len(list) - k
           /\ \A i \in 1 .. Len(rest) : rest[i] = list[k + i] /\ k + i \in 1 .. Len(list)
           /\ k = Len(list) => rest = <<>>
           /\ k < Len(list) =>
                /\ rest # <<>> /\ Head(rest) = list[k + 1] /\ k + 1 \in 1 .. Len(list)
                /\ Tail(rest) = SubSeq(list, k + 2, Len(list))
<1> DEFINE rest == SubSeq(list, k + 1, Len(list))
<1>0. Len(list) \in Nat /\ k \in Nat /\ k <= Len(list)
  BY LenProperties
<1>1. \A i \in k + 1 .. Len(list) : list[i] \in Mechs
  BY <1>0, ElementOfSeq
<1>2. k + 1 \in Int /\ Len(list) \in Int
  BY <1>0
<1>3. /\ Len(rest) = IF k + 1 <= Len(list) THEN Len(list) - (k + 1) + 1 ELSE 0
      /\ \A i \in 1 .. Len(list) - (k + 1) + 1 : rest[i] = list[k + 1 + i - 1]
      /\ rest \in Seq(Mechs)
  BY <1>1, <1>2, SubSeqProperties
<1>4. Len(rest) = Len(list) - k
  BY <1>0, <1>3
<1>5. \A i \in 1 .. Len(rest) : rest[i] = list[k + i] /\ k + i \in 1 .. Len(list)
  <2> TAKE i \in 1 .. Len(rest)
  <2>1. i \in 1 .. Len(list) - (k + 1) + 1 /\ k + 1 + i - 1 = k + i /\ k + i \in 1 .. Len(list)
    BY <1>0, <1>4
  <2> QED
    BY <1>3, <2>1
<1>6. k = Len(list) => rest = <<>>
  BY <1>0, SubSeqEmpty
<1>7. ASSUME k < Len(list)
      PROVE  /\ rest # <<>> /\ Head(rest) = list[k + 1] /\ k + 1 \in 1 .. Len(list)
             /\ Tail(rest) = SubSeq(list, k + 2, Len(list))
  <2>1. k + 1 \in 1 .. Len(list) /\ Len(list) \in k + 1 .. Len(list)
    BY <1>0, <1>7
  <2>2. k + 1 + 1 = k + 2
    BY <1>0
  <2>3. Head(rest) = list[k + 1] /\ Tail(rest) = SubSeq(list, k + 2, Len(list))
    BY <2>1, <2>2, HeadTailOfSubSeq
  <2>4. rest # <<>>
    <3>1. Len(rest) # 0
      BY <1>0, <1>4, <1>7
    <3>2. Len(<<>>) = 0
      OBVIOUS
    <3> QED
      BY <3>1, <3>2, Zenon
  <2> QED
    BY <2>1, <2>3, <2>4
<1> QED
  BY <1>4, <1>5, <1>6, <1>7

\* What is left to try was offered, and is no mechanism of SASL alone.
LEMMA TriesOffered ==
    ASSUME TypeInv, TriedInv, client.pc = "challenge"
    PROVE  \A i \in 1 .. Len(client.tries) :
              client.tries[i] \in client.offered /\ client.tries[i] # "DIGEST-MD5"
<1>0. PICK offered \in SUBSET Mechs, list \in Seq(Mechs) :
         /\ offered = client.offered /\ list = SelectMechs(offered)
         /\ \E k \in 1 .. Len(list) : client.tries = SubSeq(list, k + 1, Len(list))
  BY DEF TriedInv
<1>1. PICK k \in 1 .. Len(list) : client.tries = SubSeq(list, k + 1, Len(list))
  BY <1>0
<1>2. \A i \in 1 .. Len(list) : list[i] \in offered /\ list[i] # "DIGEST-MD5"
  BY <1>0, SelectFacts DEF TypeInv
<1>3. PICK rest : rest = SubSeq(list, k + 1, Len(list))
  OBVIOUS
<1>4. \A i \in 1 .. Len(rest) : rest[i] = list[k + i] /\ k + i \in 1 .. Len(list)
  BY <1>3, LeftToTry
<1>5. \A i \in 1 .. Len(rest) : rest[i] \in offered /\ rest[i] # "DIGEST-MD5"
  BY <1>2, <1>4
<1> QED
  BY <1>0, <1>1, <1>3, <1>5, Zenon

\* A request for authentication moves both to their next place.
LEMMA ReadAuthRequestStep ==
    ASSUME TypeInv, StepInv, ReadAuthRequest
    PROVE  StepInv'
<1>0. client.pc = "authrequest" /\ buf # <<>>
  BY DEF ReadAuthRequest
<1>1. buf' = Tail(buf) /\ server' = server /\ toClient' = toClient /\ Head(buf) \in ToClientMsgs
  BY <1>0, TookEffect DEF ReadAuthRequest
<1>2. PICK offered : offered = Head(buf).mechs
  OBVIOUS
<1>3. offered \in SUBSET Mechs
  BY <1>1, <1>2 DEF ToClientMsgs, Messages
<1>4. Sound
  BY <1>0, AuthArrives
<1>5. CASE Item = "auth" /\ offered = {} /\ Authenticated
  <2>1. /\ ServerAt("command")
        /\ \E kind \in Lasts(client.session) :
                      One(Tail(buf), toClient, client.layer, Msg(kind, client.layer))
    <3>1. Item # "failure"
      BY <1>5
    <3> QED
      BY <1>0, <1>2, <1>5, <3>1, AuthArrives
  <2> QED
    BY <1>1, <1>4, <1>5, <2>1, AuthenticatedStep
<1>6. CASE /\ Item = "auth" /\ offered # {}
           /\ NextMech(offered, SelectMechs(offered), "unavailable")
  <2>1. offered = server.offered /\ Bare /\ None(Tail(buf), toClient) /\ ServerAt("mech")
    <3>1. Item # "failure"
      BY <1>6
    <3> QED
      BY <1>0, <1>2, <1>6, <3>1, AuthArrives
  <2>2. PICK tries : tries = SelectMechs(offered)
    OBVIOUS
  <2>3. /\ tries \in Seq(Mechs)
        /\ \A i \in 1 .. Len(tries) : tries[i] \in offered /\ tries[i] # "DIGEST-MD5"
    BY <1>3, <2>2, SelectFacts DEF TypeInv
  <2>4. NextMech(offered, tries, "unavailable") /\ "unavailable" \in AuthErrors
    BY <1>6, <2>2, Zenon DEF AuthErrors
  <2> QED
    BY <1>1, <1>3, <1>4, <2>1, <2>3, <2>4, NextMechStep
<1>7. CASE Otherwise({"auth"})
  <2>1. Item # "auth"
    BY <1>7, OtherwiseFails
  <2>2. /\ Item = "failure" /\ client.session /\ AuthRefused
        /\ Bare /\ None(Tail(buf), toClient) /\ ServerAt("mech")
    BY <1>0, <2>1, AuthArrives
  <2>3. Fails("server")
    BY <1>7, <2>2 DEF Otherwise
  <2>4. "server" \in Results
    BY DEF Results
  <2>5. /\ client'.pc = IF Broken("server") THEN "gone" ELSE "ready"
        /\ client'.session = client.session /\ client'.layer = client.layer
        /\ results' = Append(results, "server") /\ toServer' = toServer
    BY <2>3, <2>4, FailsEffect
  <2>6. client'.pc = "ready" /\ client'.session
    BY <2>2, <2>5 DEF Broken
  <2>7. At(server'.pc, toServer', "mech", <<>>)
    BY <1>1, <2>2, <2>5, Zenon DEF ServerAt
  <2>8. None(buf', toClient')
    BY <1>1, <2>2, Zenon
  <2>9. client'.session = server'.session /\ client'.layer = server'.layer /\ ~server'.odd
    BY <1>1, <1>4, <2>5 DEF Sound, Alike
  <2>10. ~client'.layer /\ ~server'.layer
    BY <1>1, <2>2, <2>5 DEF Bare
  <2>11. AuthRefused'
    <3>1. results \in Seq(Results) /\ \E i \in DOMAIN results : results[i] \in AuthErrors
      BY <2>2 DEF TypeInv, AuthRefused
    <3>2. \E i \in DOMAIN Append(results, "server") : Append(results, "server")[i] \in AuthErrors
      BY <2>4, <3>1, RefusedStays
    <3> QED
      BY <2>5, <3>2, Zenon DEF AuthRefused
  <2>12. Shut'
    BY <2>6, <2>7, <2>8, <2>9, <2>10, <2>11 DEF Shut, Sound, Alike, Bare, Silent, ServerAt
  <2> QED
    BY <2>12 DEF StepInv
<1>8. \/ Item = "auth" /\ offered = {} /\ Authenticated
      \/ /\ Item = "auth" /\ offered # {}
         /\ NextMech(offered, SelectMechs(offered), "unavailable")
      \/ Otherwise({"auth"})
  BY <1>2, Zenon DEF ReadAuthRequest
<1> QED
  BY <1>5, <1>6, <1>7, <1>8

\* An answer to a built-in mechanism moves both to their next place.
LEMMA ReadChallengeStep ==
    ASSUME TypeInv, StepInv, TriedInv, ReadChallenge
    PROVE  StepInv'
<1>0. client.pc = "challenge" /\ buf # <<>>
  BY DEF ReadChallenge
<1>1. buf' = Tail(buf) /\ server' = server /\ toClient' = toClient
  BY <1>0, TookEffect DEF ReadChallenge
<1>2. Exchange
  BY <1>0, AnswerArrives
<1>3. client.layer = FALSE /\ client.session = server.session /\ client.offered = server.offered
  BY <1>2 DEF Exchange, TypeInv, ClientType
<1>4. CASE Item = "step" /\ client.mech = "CRAM-MD5" /\ Write("reply") /\ UNCHANGED <<client, results>>
  <2>1. Challenged \/ Puzzled
    BY <1>0, <1>4, AnswerArrives
  <2>2. client.mech \in TwoSteps
    BY <1>4 DEF TwoSteps
  <2>3. Challenged /\ None(Tail(buf), toClient)
    BY <1>0, <1>4, <2>1, <2>2, AnswerArrives DEF Puzzled
  <2>4. Sound /\ ServerAt("reply") /\ server.mech = client.mech
    BY <2>3 DEF Challenged
  <2>5. "reply" \in ToServerKinds
    BY DEF ToServerKinds
  <2>6. toServer' = Append(toServer, Msg("reply", client.layer)) /\ client' = client
    BY <1>4, <2>5, WriteEffect
  <2>7. At(server.pc, Append(toServer, Msg("reply", client.layer)), "reply", <<Msg("reply", client.layer)>>)
    BY <1>3, <2>4, <2>5, AtSend DEF ServerAt
  <2>8. At(server'.pc, toServer', "reply", <<Msg("reply", client'.layer)>>)
    BY <1>1, <2>6, <2>7, Zenon
  <2>9. None(buf', toClient')
    BY <1>1, <2>3, Zenon
  <2>10. Exchange' /\ Sound' /\ client'.mech = server'.mech /\ client'.mech \in TwoSteps
    BY <1>1, <1>2, <2>2, <2>4, <2>6 DEF Exchange, Sound, Alike
  <2>11. Replied'
    BY <2>8, <2>9, <2>10 DEF Replied, Silent, ServerHas
  <2> QED
    BY <2>11 DEF StepInv
<1>5. CASE Item = "success" /\ Authenticated
  <2>1. Accepted
    BY <1>0, <1>5, AnswerArrives
  <2>2. ~server.layer /\ ~server.odd /\ ServerAt("command")
    BY <1>0, <2>1 DEF Accepted
  <2>3. Sound
    BY <1>3, <2>2 DEF Sound, Alike, TypeInv, ServerType
  <2>4. \E kind \in Lasts(client.session) : One(Tail(buf), toClient, FALSE, Msg(kind, FALSE))
    BY <1>0, <1>5, <2>2, AnswerArrives
  <2>5. \E kind \in Lasts(client.session) :
              One(Tail(buf), toClient, client.layer, Msg(kind, client.layer))
    BY <1>3, <2>4, Zenon
  <2> QED
    BY <1>1, <1>5, <2>2, <2>3, <2>5, AuthenticatedStep
<1>6. CASE Item = "failure" /\ NextMech(client.offered, client.tries, "failed")
  <2>1. Refused /\ None(Tail(buf), toClient)
    BY <1>0, <1>6, AnswerArrives
  <2>2. Sound /\ ServerAt("mech")
    BY <2>1 DEF Refused
  <2>3. Bare
    BY <1>3, <2>2 DEF Bare, Sound, Alike
  <2>4. PICK offered, tries : offered = client.offered /\ tries = client.tries
    OBVIOUS
  <2>5. offered \in SUBSET Mechs /\ tries \in Seq(Mechs)
    BY <2>4 DEF TypeInv, ClientType
  <2>6. \A i \in 1 .. Len(tries) : tries[i] \in offered /\ tries[i] # "DIGEST-MD5"
    BY <1>0, <2>4, TriesOffered, Zenon
  <2>7. NextMech(offered, tries, "failed") /\ "failed" \in AuthErrors
    BY <1>6, <2>4, Zenon DEF AuthErrors
  <2>8. offered = server.offered
    BY <1>3, <2>4
  <2> QED
    BY <1>1, <2>1, <2>2, <2>3, <2>5, <2>6, <2>7, <2>8, NextMechStep
<1>7. CASE Item = "step" /\ client.mech # "CRAM-MD5" /\ Fails("protocol")
  <2>1. "protocol" \in Results /\ Broken("protocol")
    BY DEF Results, Broken
  <2> QED
    BY <1>7, <2>1, FailsGone
<1> QED
  BY <1>4, <1>5, <1>6, <1>7 DEF ReadChallenge

\* An answer to a mechanism of SASL moves both to their next place, and the
\* layer goes on between two messages that may have been read at once.
LEMMA ReadSaslStep ==
    ASSUME TypeInv, StepInv, ReadSasl
    PROVE  StepInv'
<1>0. client.pc = "sasl" /\ buf # <<>>
  BY DEF ReadSasl
<1>1. Took => buf' = Tail(buf) /\ server' = server /\ toClient' = toClient
  BY <1>0, TookEffect
<1>2. Exchange
  BY <1>0, AnswerArrives
<1>3. client.layer = FALSE /\ client.session = server.session /\ client.offered = server.offered
  BY <1>2 DEF Exchange, TypeInv, ClientType
<1>4. CASE SaslStep
  <2>0. Item = "step" /\ client.more /\ Took /\ Write("reply")
    BY <1>4 DEF SaslStep
  <2>1. Challenged /\ None(Tail(buf), toClient)
    BY <1>0, <2>0, AnswerArrives DEF Puzzled
  <2>2. Sound /\ ServerAt("reply") /\ server.mech = client.mech /\ client.mech \in TwoSteps
    BY <2>1 DEF Challenged
  <2>3. "reply" \in ToServerKinds
    BY DEF ToServerKinds
  <2>4. toServer' = Append(toServer, Msg("reply", client.layer))
    BY <2>0, <2>3, WriteEffect
  <2>5. /\ client'.pc = client.pc /\ client'.mech = client.mech /\ client'.offered = client.offered
        /\ client'.session = client.session /\ client'.layer = client.layer
    <3>1. client' = [client EXCEPT !.more = client.mech = "DIGEST-MD5"]
      BY <1>4, Zenon DEF SaslStep
    <3>2. client \in ClientType
      BY DEF TypeInv
    <3> QED
      BY <3>1, <3>2 DEF ClientType
  <2>7. At(server.pc, Append(toServer, Msg("reply", client.layer)), "reply", <<Msg("reply", client.layer)>>)
    BY <1>3, <2>2, <2>3, AtSend DEF ServerAt
  <2>8. At(server'.pc, toServer', "reply", <<Msg("reply", client'.layer)>>)
    BY <1>1, <2>0, <2>4, <2>5, <2>7, Zenon
  <2>9. None(buf', toClient')
    BY <1>1, <2>0, <2>1, Zenon
  <2>10. Exchange' /\ Sound' /\ client'.mech = server'.mech /\ client'.mech \in TwoSteps
    BY <1>1, <1>2, <2>0, <2>2, <2>5 DEF Exchange, Sound, Alike
  <2>11. Replied'
    BY <2>8, <2>9, <2>10 DEF Replied, Silent, ServerHas
  <2> QED
    BY <2>11 DEF StepInv
<1>5. CASE Item = "success" /\ SaslDone
  <2>1. Accepted
    BY <1>0, <1>5, AnswerArrives
  <2>2. ~server.odd /\ ServerAt("command")
    BY <2>1 DEF Accepted
  <2>3. /\ client'.pc = IF client.session THEN "response" ELSE "reposinfo"
        /\ client'.session = client.session /\ client'.layer = (client.layer \/ server.layer)
        /\ buf' = IF server.layer THEN DecodeRest(Tail(buf)) ELSE Tail(buf)
        /\ server' = server /\ toServer' = toServer /\ toClient' = toClient
    BY <1>0, <1>5, SaslDoneEffect
  <2>4. server.layer \in BOOLEAN
    BY DEF TypeInv, ServerType
  <2>5. client'.layer = server.layer
    BY <1>3, <2>3, <2>4
  <2>6. PICK kind \in Lasts(client.session) :
                      /\ ~server.layer => One(Tail(buf), toClient, FALSE, Msg(kind, FALSE))
                      /\ server.layer =>
                           One(DecodeRest(Tail(buf)), toClient, TRUE, Msg(kind, TRUE))
    BY <1>0, <1>5, AnswerArrives
  <2>7. One(buf', toClient', client'.layer, Msg(kind, client'.layer))
    <3>1. CASE server.layer = TRUE
      <4>1. buf' = DecodeRest(Tail(buf)) /\ client'.layer = TRUE
        BY <2>3, <2>5, <3>1
      <4>2. One(DecodeRest(Tail(buf)), toClient, TRUE, Msg(kind, TRUE))
        BY <2>6, <3>1
      <4> QED
        BY <2>3, <4>1, <4>2, Zenon
    <3>2. CASE server.layer = FALSE
      <4>1. buf' = Tail(buf) /\ client'.layer = FALSE
        BY <2>3, <2>5, <3>2
      <4>2. One(Tail(buf), toClient, FALSE, Msg(kind, FALSE))
        BY <2>6, <3>2
      <4> QED
        BY <2>3, <4>1, <4>2, Zenon
    <3> QED
      BY <2>4, <3>1, <3>2
  <2>8. kind \in Lasts(client'.session)
    BY <2>3, Zenon
  <2>9. At(server'.pc, toServer', "command", <<>>)
    BY <2>2, <2>3, Zenon DEF ServerAt
  <2>10. client'.session = server'.session /\ client'.layer = server'.layer /\ ~server'.odd
    BY <1>3, <2>2, <2>3, <2>5
  <2>11. Concluding'
    BY <2>3, <2>7, <2>8, <2>9, <2>10 DEF Concluding, Sound, Alike, ServerAt, Comes
  <2> QED
    BY <2>11 DEF StepInv
<1>6. CASE Item = "failure" /\ Took /\ Fails("failed")
  <2>1. Refused /\ None(Tail(buf), toClient)
    BY <1>0, <1>6, AnswerArrives
  <2>2. Sound /\ ServerAt("mech")
    BY <2>1 DEF Refused
  <2>3. Bare
    BY <1>3, <2>2 DEF Bare, Sound, Alike
  <2>4. "failed" \in AuthErrors
    BY DEF AuthErrors
  <2> QED
    BY <1>1, <1>6, <2>1, <2>2, <2>3, <2>4, GiveUpStep
<1>7. CASE Fails("protocol")
  <2>1. "protocol" \in Results /\ Broken("protocol")
    BY DEF Results, Broken
  <2> QED
    BY <1>7, <2>1, FailsGone
<1>8. CASE SaslGivesUp
  <2>0. Item = "step" /\ client.more /\ Took /\ Fails("failed")
    BY <1>8 DEF SaslGivesUp
  <2>1. Challenged /\ None(Tail(buf), toClient)
    BY <1>0, <2>0, AnswerArrives DEF Puzzled
  <2>2. Sound /\ ServerAt("reply")
    BY <2>1 DEF Challenged
  <2>3. Bare
    BY <1>3, <2>2 DEF Bare, Sound, Alike
  <2>4. "failed" \in AuthErrors
    BY DEF AuthErrors
  <2> QED
    BY <1>1, <2>0, <2>1, <2>2, <2>3, <2>4, GiveUpStep
<1>9. \/ SaslStep \/ SaslGivesUp
      \/ Item = "success" /\ SaslDone
      \/ Item = "failure" /\ Took /\ Fails("failed")
      \/ Fails("protocol")
  BY Zenon DEF ReadSasl
<1> QED
  BY <1>4, <1>5, <1>6, <1>7, <1>8, <1>9

\* At rest on both sides.
LEMMA RestStep ==
    ASSUME Sound, ServerAt("command"), None(Tail(buf), toClient),
           buf' = Tail(buf), server' = server, toClient' = toClient, toServer' = toServer,
           client'.pc = "ready", client'.session = TRUE,
           client'.layer = client.layer
    PROVE  StepInv'
<1>1. None(buf', toClient') /\ At(server'.pc, toServer', "command", <<>>)
  BY Zenon DEF ServerAt
<1>2. Resting'
  BY <1>1 DEF Resting, Sound, Alike, Silent, ServerAt
<1> QED
  BY <1>2 DEF StepInv

\* The description of the repository ends the handshake at rest.
LEMMA ReadReposInfoStep ==
    ASSUME TypeInv, StepInv, ReadReposInfo
    PROVE  StepInv'
<1>0. client.pc = "reposinfo" /\ buf # <<>>
  BY DEF ReadReposInfo
<1>1. ~client.session /\ Sound /\ ServerAt("command") /\ None(Tail(buf), toClient) /\ Item = "reposinfo"
  BY <1>0, LastArrives DEF TypeInv, ClientType
<1>2. buf' = Tail(buf) /\ server' = server /\ toClient' = toClient
  BY <1>0, TookEffect DEF ReadReposInfo
<1>3. Item \in {"reposinfo"}
  BY <1>1
<1>4. toServer' = toServer /\ client' = [client EXCEPT !.pc = "ready", !.session = TRUE]
  BY <1>3, Zenon DEF ReadReposInfo, Otherwise
<1>5. client'.pc = "ready" /\ client'.session = TRUE /\ client'.layer = client.layer
  BY <1>4 DEF TypeInv, ClientType
<1> QED
  BY <1>1, <1>2, <1>4, <1>5, RestStep

\* The answer to a command leaves both at rest.
LEMMA ReadResponseStep ==
    ASSUME TypeInv, StepInv, ReadResponse
    PROVE  StepInv'
<1>0. client.pc = "response" /\ buf # <<>>
  BY DEF ReadResponse
<1>1. client.session = TRUE /\ Sound /\ ServerAt("command") /\ None(Tail(buf), toClient)
  BY <1>0, LastArrives DEF TypeInv, ClientType
<1>2. Item \in {"success", "failure"}
  BY <1>0, <1>1, LastArrives
<1>3. buf' = Tail(buf) /\ server' = server /\ toClient' = toClient
  BY <1>0, TookEffect DEF ReadResponse
<1>4. CASE Item = "success"
  <2>1. Item \in {"success"}
    BY <1>4
  <2>2. toServer' = toServer /\ client' = [client EXCEPT !.pc = "ready"]
    BY <2>1, Zenon DEF ReadResponse, Otherwise
  <2>3. client'.pc = "ready" /\ client'.session = TRUE /\ client'.layer = client.layer
    BY <1>1, <2>2 DEF TypeInv, ClientType
  <2> QED
    BY <1>1, <1>3, <2>2, <2>3, RestStep
<1>5. CASE Item = "failure"
  <2>1. Fails("server")
    BY <1>5 DEF ReadResponse, Otherwise
  <2>2. "server" \in Results /\ ~Broken("server")
    BY <1>1 DEF Results, Broken
  <2>3. /\ client'.pc = "ready" /\ client'.session = TRUE /\ client'.layer = client.layer
        /\ toServer' = toServer
    BY <1>1, <2>1, <2>2, FailsEffect
  <2> QED
    BY <1>1, <1>3, <2>3, RestStep
<1> QED
  BY <1>2, <1>4, <1>5

\* The end of the stream and the timeout leave the connection behind.
LEMMA ClientFailsStep ==
    ASSUME TypeInv, StepInv, ReadEof \/ ReadTimeout
    PROVE  StepInv'
<1>1. PICK result \in {"eof", "timeout"} : Fails(result)
  BY DEF ReadEof, ReadTimeout
<1>2. result \in Results /\ Broken(result)
  BY DEF Results, Broken
<1> QED
  BY <1>1, <1>2, FailsGone

\* A command is sent to a server at rest, or to one that waits for a mechanism or a
\* reply.
LEMMA SendCommandStep ==
    ASSUME TypeInv, StepInv, SendCommand
    PROVE  StepInv'
<1>1. /\ client'.pc = "authrequest"
      /\ client'.session = client.session /\ client'.layer = client.layer
      /\ toServer' = Append(toServer, Msg("command", client.layer))
      /\ server' = server /\ toClient' = toClient /\ buf' = buf /\ results' = results
  BY SendCommandEffect
<1>2. (Shut \/ Resting) /\ client.pc = "ready"
  BY PlaceOf DEF SendCommand
<1>3. "command" \in ToServerKinds /\ client.layer \in BOOLEAN
  BY DEF ToServerKinds, TypeInv, ClientType
<1>4. ASSUME NEW pc, ServerAt(pc)
      PROVE  At(server'.pc, toServer', pc, <<Msg("command", client'.layer)>>)
  <2>1. At(server.pc, Append(toServer, Msg("command", client.layer)), pc, <<Msg("command", client.layer)>>)
    BY <1>3, <1>4, AtSend DEF ServerAt
  <2> QED
    BY <1>1, <2>1, Zenon
<1>5. CASE Resting
  <2>1. None(buf', toClient') /\ At(server'.pc, toServer', "command", <<Msg("command", client'.layer)>>)
    BY <1>1, <1>4, <1>5 DEF Resting, Silent
  <2>2. Commanding'
    BY <1>1, <1>5, <2>1 DEF Commanding, Resting, Alike, Silent, ServerHas
  <2> QED
    BY <2>2 DEF StepInv
<1>6. CASE Shut
  <2>1. /\ Silent /\ (ServerAt("mech") \/ ServerAt("reply"))
        /\ Sound /\ Bare /\ client.session /\ AuthRefused
    BY <1>2, <1>6 DEF Shut
  <2>2. None(buf', toClient') /\ (ServerHas("mech", "command")' \/ ServerHas("reply", "command")')
    BY <1>1, <1>4, <2>1 DEF Silent, ServerHas
  <2>3. AuthRefused'
    BY <1>1, <2>1, Zenon DEF AuthRefused
  <2>4. Shut'
    BY <1>1, <2>1, <2>2, <2>3 DEF Shut, Sound, Alike, Bare, Silent
  <2> QED
    BY <2>4 DEF StepInv
<1> QED
  BY <1>2, <1>5, <1>6

\* A read of the socket moves what is under way into the buffer, nothing else.
LEMMA FillMoves ==
    ASSUME TypeInv, Fill
    PROVE  /\ ~Silent /\ client' = client /\ server' = server /\ toServer' = toServer
           /\ results' = results /\ config' = config /\ client.pc \notin {"ready", "gone"}
           /\ \A m \in ToClientMsgs : Comes(m) => One(buf', toClient', client.layer, m)
           /\ \A m, n \in ToClientMsgs : ComeBoth(m, n) => Two(buf', toClient', client.layer, m, n)
<1>1. PICK k \in 1 .. Len(toClient) :
         /\ buf' = Fetched(SubSeq(toClient, 1, k), client.layer)
         /\ toClient' = SubSeq(toClient, k + 1, Len(toClient))
  BY Zenon DEF Fill
<1>2. /\ client' = client /\ server' = server /\ toServer' = toServer /\ results' = results
      /\ config' = config /\ client.pc \notin {"ready", "gone"} /\ buf = <<>> /\ ~Silent
  BY DEF Fill, Silent, None
<1>3. client.layer \in BOOLEAN
  BY DEF TypeInv, ClientType
<1>4. ASSUME NEW m \in ToClientMsgs, Comes(m)
      PROVE  One(buf', toClient', client.layer, m)
  <2>1. One(Fetched(SubSeq(toClient, 1, k), client.layer),
            SubSeq(toClient, k + 1, Len(toClient)), client.layer, m)
    BY <1>2, <1>3, <1>4, FillOne DEF Comes
  <2> QED
    BY <1>1, <2>1, Zenon
<1>5. ASSUME NEW m \in ToClientMsgs, NEW n \in ToClientMsgs, ComeBoth(m, n)
      PROVE  Two(buf', toClient', client.layer, m, n)
  <2>1. Two(Fetched(SubSeq(toClient, 1, k), client.layer),
            SubSeq(toClient, k + 1, Len(toClient)), client.layer, m, n)
    BY <1>2, <1>3, <1>5, FillTwo DEF ComeBoth
  <2> QED
    BY <1>1, <2>1, Zenon
<1> QED
  BY <1>2, <1>4, <1>5

\* A read of the socket keeps both in their place.
LEMMA FillStep ==
    ASSUME TypeInv, StepInv, Fill
    PROVE  StepInv'
<1>1. /\ ~Silent /\ client' = client /\ server' = server /\ toServer' = toServer
      /\ results' = results /\ client.pc \notin {"ready", "gone"}
  BY FillMoves
<1>2. \A m \in ToClientMsgs : Comes(m) => One(buf', toClient', client'.layer, m)
  BY <1>1, FillMoves
<1>3. \A m, n \in ToClientMsgs : ComeBoth(m, n) => Two(buf', toClient', client'.layer, m, n)
  BY <1>1, FillMoves
<1>4. /\ client.layer \in BOOLEAN /\ server.layer \in BOOLEAN /\ client.session \in BOOLEAN
      /\ server.offered \in SUBSET Mechs
  BY DEF TypeInv, ClientType, ServerType
<1>5. CASE NotGreeted
  <2>1. Msg(IF server.odd THEN "oldgreeting" ELSE "greeting", FALSE) \in ToClientMsgs
    BY FewMsgs
  <2>2. NotGreeted'
    BY <1>1, <1>2, <1>5, <2>1 DEF NotGreeted, Bare, ServerAt, Comes
  <2> QED
    BY <2>2 DEF StepInv
<1>6. CASE Admitted
  <2>1. PICK kind \in Lasts(client.session) :
           ComeBoth(AuthMsgOf({}, client.layer), Msg(kind, client.layer))
    BY <1>6 DEF Admitted
  <2>2. AuthMsgOf({}, client.layer) \in ToClientMsgs /\ Msg(kind, client.layer) \in ToClientMsgs
    BY <1>4, AuthMsg, LastKinds DEF AuthMsgOf
  <2>3. Two(buf', toClient', client'.layer, AuthMsgOf({}, client.layer), Msg(kind, client.layer))
    BY <1>3, <2>1, <2>2
  <2>4. Admitted'
    BY <1>1, <1>6, <2>3 DEF Admitted, Sound, Alike, ServerAt, ComeBoth
  <2> QED
    BY <2>4 DEF StepInv
<1>7. CASE Asked
  <2>1. AuthMsgOf(server.offered, FALSE) \in ToClientMsgs
    BY <1>4, AuthMsg DEF AuthMsgOf
  <2>2. Asked'
    BY <1>1, <1>2, <1>7, <2>1 DEF Asked, Sound, Alike, Bare, ServerAt, Comes
  <2> QED
    BY <2>2 DEF StepInv
<1>8. CASE Shut
  <2>1. Msg("failure", FALSE) \in ToClientMsgs
    BY FewMsgs
  <2>2. AuthRefused'
    BY <1>1, <1>8, Zenon DEF Shut, AuthRefused
  <2>3. Shut'
    BY <1>1, <1>2, <1>8, <2>1, <2>2 DEF Shut, Sound, Alike, Bare, ServerAt, Comes
  <2> QED
    BY <2>3 DEF StepInv
<1>9. CASE Refused
  <2>1. Msg("failure", FALSE) \in ToClientMsgs
    BY FewMsgs
  <2>2. Refused'
    BY <1>1, <1>2, <1>9, <2>1 DEF Refused, Exchange, Sound, Alike, ServerAt, Comes
  <2> QED
    BY <2>2 DEF StepInv
<1>10. CASE Challenged
  <2>1. Msg("step", FALSE) \in ToClientMsgs
    BY FewMsgs
  <2>2. Challenged'
    BY <1>1, <1>2, <1>10, <2>1 DEF Challenged, Exchange, Sound, Alike, ServerAt, Comes
  <2> QED
    BY <2>2 DEF StepInv
<1>11. CASE Puzzled
  <2>1. Msg("step", FALSE) \in ToClientMsgs
    BY FewMsgs
  <2>2. Puzzled'
    BY <1>1, <1>2, <1>11, <2>1 DEF Puzzled, Exchange, ServerAt, Comes
  <2> QED
    BY <2>2 DEF StepInv
<1>12. CASE Accepted
  <2>1. PICK kind \in Lasts(client.session) :
           ComeBoth(Msg("success", FALSE), Msg(kind, server.layer))
    BY <1>12 DEF Accepted
  <2>2. Msg("success", FALSE) \in ToClientMsgs /\ Msg(kind, server.layer) \in ToClientMsgs
    BY <1>4, FewMsgs, LastKinds
  <2>3. Two(buf', toClient', client'.layer, Msg("success", FALSE), Msg(kind, server.layer))
    BY <1>3, <2>1, <2>2
  <2>4. Accepted'
    BY <1>1, <1>12, <2>3 DEF Accepted, Exchange, ServerAt, ComeBoth
  <2> QED
    BY <2>4 DEF StepInv
<1>13. CASE Concluding
  <2>1. PICK kind \in Lasts(client.session) : Comes(Msg(kind, client.layer))
    BY <1>13 DEF Concluding
  <2>2. Msg(kind, client.layer) \in ToClientMsgs
    BY <1>4, LastKinds
  <2>3. One(buf', toClient', client'.layer, Msg(kind, client.layer))
    BY <1>2, <2>1, <2>2
  <2>4. Concluding'
    BY <1>1, <1>13, <2>3 DEF Concluding, Sound, Alike, ServerAt, Comes
  <2> QED
    BY <2>4 DEF StepInv
<1> QED
  BY <1>1, <1>5, <1>6, <1>7, <1>8, <1>9, <1>10, <1>11, <1>12, <1>13
     DEF StepInv, Introduced, Commanding, Trying, Replied, Resting, Gone

-----------------------------------------------------------------------------
(* From place to place: the server.                                         *)

\* It hangs up: what was sent to it is lost, what it has said still arrives.
LEMMA CloseStep ==
    ASSUME TypeInv, StepInv, Close
    PROVE  StepInv'
<1>1. /\ server'.pc = "closed" /\ toServer' = <<>>
      /\ server'.session = server.session /\ server'.layer = server.layer
      /\ server'.offered = server.offered /\ server'.refused = server.refused
      /\ server'.odd = server.odd /\ server'.mech = server.mech
      /\ client' = client /\ toClient' = toClient /\ buf' = buf /\ results' = results
  BY CloseEffect
<1>2. \A pc, sent : At(server'.pc, toServer', pc, sent)
  BY <1>1 DEF At
<1>3. CASE NotGreeted
  BY <1>1, <1>2, <1>3 DEF StepInv, NotGreeted, Bare, Silent, ServerAt, Comes
<1>4. CASE Introduced
  BY <1>1, <1>2, <1>4 DEF StepInv, Introduced, Sound, Alike, Bare, Silent, ServerHas
<1>5. CASE Admitted
  BY <1>1, <1>2, <1>5 DEF StepInv, Admitted, Sound, Alike, ServerAt, ComeBoth
<1>6. CASE Asked
  BY <1>1, <1>2, <1>6 DEF StepInv, Asked, Sound, Alike, Bare, ServerAt, Comes
<1>7. CASE Commanding
  BY <1>1, <1>2, <1>7 DEF StepInv, Commanding, Alike, Silent, ServerHas
<1>8. CASE Shut
  <2>1. AuthRefused'
    BY <1>1, <1>8, Zenon DEF Shut, AuthRefused
  <2>2. Shut'
    BY <1>1, <1>2, <1>8, <2>1 DEF Shut, Sound, Alike, Bare, Silent, ServerAt, ServerHas, Comes
  <2> QED
    BY <2>2 DEF StepInv
<1>9. CASE Trying
  BY <1>1, <1>2, <1>9 DEF StepInv, Trying, Exchange, Sound, Alike, Silent, ServerHas
<1>10. CASE Refused
  BY <1>1, <1>2, <1>10 DEF StepInv, Refused, Exchange, Sound, Alike, ServerAt, Comes
<1>11. CASE Challenged
  BY <1>1, <1>2, <1>11 DEF StepInv, Challenged, Exchange, Sound, Alike, ServerAt, Comes
<1>12. CASE Replied
  BY <1>1, <1>2, <1>12 DEF StepInv, Replied, Exchange, Sound, Alike, Silent, ServerHas
<1>13. CASE Puzzled
  BY <1>1, <1>2, <1>13 DEF StepInv, Puzzled, Exchange, ServerAt, Comes
<1>14. CASE Accepted
  BY <1>1, <1>2, <1>14 DEF StepInv, Accepted, Exchange, ServerAt, ComeBoth
<1>15. CASE Concluding
  BY <1>1, <1>2, <1>15 DEF StepInv, Concluding, Sound, Alike, ServerAt, Comes
<1>16. CASE Resting
  BY <1>1, <1>2, <1>16 DEF StepInv, Resting, Alike, Silent, ServerAt
<1>17. CASE Gone
  <2>1. Len(toServer') = 0
    BY <1>1, EmptySeq
  <2>2. Gone'
    BY <1>1, <1>17, <2>1 DEF Gone
  <2> QED
    BY <2>2 DEF StepInv
<1> QED
  BY <1>3, <1>4, <1>5, <1>6, <1>7, <1>8, <1>9, <1>10, <1>11, <1>12, <1>13, <1>14, <1>15,
     <1>16, <1>17 DEF StepInv

\* A connection that is gone stays so, and nothing is written to it.
LEMMA GoneStays ==
    ASSUME StepInv, client.pc = "gone", client' = client, toServer' = toServer \/ Len(toServer') <= 0
    PROVE  StepInv'
<1>1. Gone
  BY PlaceOf
<1>2. Len(toServer') <= 1
  BY <1>1 DEF Gone
<1>3. Gone'
  BY <1>1, <1>2 DEF Gone
<1> QED
  BY <1>3 DEF StepInv

\* The message the server reads tells where both are.
LEMMA WhoWrote ==
    ASSUME TypeInv, StepInv, toServer # <<>>, server.pc # "closed"
    PROVE  /\ Len(toServer) = 1
           /\ \/ Introduced /\ server.pc = "response"
              \/ Commanding /\ server.pc = "command"
              \/ Shut /\ server.pc = "mech" /\ client.pc = "authrequest" /\ Head(toServer).kind = "command"
              \/ Trying /\ server.pc = "mech" /\ Head(toServer).kind = client.mech
              \/ Shut /\ server.pc = "reply" /\ client.pc = "authrequest" /\ Head(toServer).kind = "command"
              \/ Replied /\ server.pc = "reply" /\ Head(toServer).kind = "reply"
              \/ Gone
           /\ Gone \/ Silent
<1>1. Len(toServer) = 1
  <2>1. Len(toServer) \in Nat /\ Len(toServer) # 0
    BY EmptySeq DEF TypeInv
  <2>2. Len(toServer) <= 1
    BY ShortWire
  <2> QED
    BY <2>1, <2>2
<1>2. \A pc : ~ServerAt(pc)
  BY DEF ServerAt, At
<1>3. \A pc, kind : ServerHas(pc, kind) => server.pc = pc /\ Head(toServer).kind = kind
  <2> TAKE pc, kind
  <2> HAVE ServerHas(pc, kind)
  <2>1. server.pc = pc /\ toServer = <<Msg(kind, client.layer)>>
    BY DEF ServerHas, At
  <2>2. Head(<<Msg(kind, client.layer)>>) = Msg(kind, client.layer)
    OBVIOUS
  <2> QED
    BY <2>1, <2>2, MsgFacts, Zenon
<1>4. \/ Introduced \/ Commanding \/ Trying \/ Replied \/ Gone
      \/ /\ Shut /\ client.pc = "authrequest" /\ Silent
         /\ ServerHas("mech", "command") \/ ServerHas("reply", "command")
  BY <1>2 DEF StepInv, NotGreeted, Admitted, Asked, Shut, Refused, Challenged, Puzzled, Accepted,
     Concluding, Resting
<1>5. CASE Introduced
  BY <1>1, <1>3, <1>5 DEF Introduced
<1>6. CASE Commanding
  BY <1>1, <1>3, <1>6 DEF Commanding
<1>7. CASE /\ Shut /\ client.pc = "authrequest" /\ Silent
           /\ ServerHas("mech", "command") \/ ServerHas("reply", "command")
  BY <1>1, <1>3, <1>7
<1>8. CASE Trying
  BY <1>1, <1>3, <1>8 DEF Trying
<1>9. CASE Replied
  BY <1>1, <1>3, <1>9 DEF Replied
<1>10. CASE Gone
  BY <1>1, <1>10
<1> QED
  BY <1>4, <1>5, <1>6, <1>7, <1>8, <1>9, <1>10

\* The message is taken: nothing is left on its way to the server.
LEMMA WireEmptied ==
    ASSUME TypeInv, StepInv, NEW kinds, Read(kinds)
    PROVE  toServer' = <<>> /\ Len(toServer') <= 0
<1>1. /\ toServer # <<>> /\ toServer' \in Seq(ToServerMsgs) /\ Len(toServer') = Len(toServer) - 1
  BY ReadEffect
<1>2. Len(toServer) \in Nat /\ Len(toServer') \in Nat
  BY <1>1 DEF TypeInv
<1>3. Len(toServer) <= 1
  BY ShortWire
<1>4. Len(toServer') = 0
  BY <1>1, <1>2, <1>3
<1> QED
  BY <1>1, <1>4, EmptySeq

\* The server greets from its first place.
LEMMA GreetStep ==
    ASSUME TypeInv, StepInv, Greet
    PROVE  StepInv'
<1>1. /\ client' = client /\ buf' = buf /\ toServer' = toServer
      /\ server.pc = "greet" /\ server'.pc = "response"
      /\ server'.session = server.session /\ server'.layer = server.layer
  BY GreetEffect
<1>2. PICK kind \in {"greeting", "oldgreeting"} :
         /\ toClient' = toClient \o <<Msg(kind, server.layer)>>
         /\ server'.odd = (server.odd \/ kind = "oldgreeting")
  BY GreetEffect
<1>3. NotGreeted \/ Gone
  BY <1>1 DEF StepInv, Introduced, Admitted, Asked, Commanding, Shut, Trying,
       Refused, Challenged, Replied, Puzzled, Accepted, Concluding, Resting, ServerAt,
       ServerHas, At
<1>4. CASE Gone
  BY <1>1, <1>4, GoneStays DEF Gone
<1>5. CASE NotGreeted
  <2>1. Bare /\ ~server.odd /\ Silent /\ ServerAt("greet")
    BY <1>1, <1>5 DEF NotGreeted, ServerAt, At
  <2>2. client.layer = FALSE /\ server.layer = FALSE /\ server.odd = FALSE
    BY <2>1 DEF Bare, TypeInv, ClientType, ServerType
  <2>3. PICK m : m = Msg(kind, FALSE)
    OBVIOUS
  <2>4. m \in ToClientMsgs
    BY <2>3, FewMsgs
  <2>5. toClient' = toClient \o <<m>>
    BY <1>2, <2>2, <2>3, Zenon
  <2>6. One(buf, toClient \o <<m>>, FALSE, m)
    BY <2>1, <2>4, Speak DEF Silent
  <2>7. One(buf', toClient', client'.layer, Msg(kind, FALSE))
    BY <1>1, <2>2, <2>3, <2>5, <2>6, Zenon
  <2>8. At(server'.pc, toServer', "response", <<>>)
    BY <1>1, <2>1, AtEmpty DEF At
  <2>9. kind = IF server'.odd THEN "oldgreeting" ELSE "greeting"
    BY <1>2, <2>2
  <2>10. One(buf', toClient', client'.layer, Msg(IF server'.odd THEN "oldgreeting" ELSE "greeting", FALSE))
    BY <2>7, <2>9, Zenon
  <2>11. NotGreeted'
    BY <1>1, <1>5, <2>8, <2>10 DEF NotGreeted, Bare, ServerAt, Comes
  <2> QED
    BY <2>11 DEF StepInv
<1> QED
  BY <1>3, <1>4, <1>5

\* The list of the server reaches a client that waits for it.
LEMMA ReadClientResponseStep ==
    ASSUME TypeInv, StepInv, ReadClientResponse
    PROVE  StepInv'
<1>1. Read({"response"})
  BY DEF ReadClientResponse
<1>2. /\ toServer # <<>> /\ client' = client /\ buf' = buf /\ results' = results
  BY <1>1, ReadEffect
<1>3. toServer' = <<>> /\ Len(toServer') <= 0
  BY <1>1, WireEmptied
<1>4. PICK offered \in SUBSET Mechs :
           /\ server.pc = "response"
           /\ server'.pc = IF offered = {} THEN "command" ELSE "mech"
           /\ server'.session = server.session /\ server'.layer = server.layer
           /\ server'.offered = offered /\ server'.odd = server.odd
           /\ toClient' = toClient \o <<AuthRequest(offered)>>
                 \o (IF offered = {} THEN <<Msg("reposinfo", FALSE)>> ELSE <<>>)
  BY ReadClientResponseEffect
<1>5. Introduced \/ Gone
  BY <1>2, <1>4, WhoWrote
<1>6. CASE Gone
  BY <1>2, <1>3, <1>6, GoneStays DEF Gone
<1>7. CASE Introduced
  <2>1. Sound /\ Bare /\ ~client.session /\ Silent /\ client.pc = "authrequest"
    BY <1>7 DEF Introduced
  <2>2. client.layer = FALSE /\ server.layer = FALSE /\ client.session = FALSE
    BY <2>1 DEF Bare, TypeInv, ClientType, ServerType
  <2>3. PICK m, n : m = AuthMsgOf(offered, FALSE) /\ n = Msg("reposinfo", FALSE)
    OBVIOUS
  <2>4. m \in ToClientMsgs /\ n \in ToClientMsgs
    BY <2>3, AuthMsg, FewMsgs DEF AuthMsgOf
  <2>5. AuthRequest(offered) = m
    BY <2>2, <2>3, Zenon DEF AuthRequest, AuthMsgOf
  <2>6. client'.session = server'.session /\ client'.layer = server'.layer /\ ~server'.odd
    BY <1>2, <1>4, <2>1 DEF Sound, Alike
  <2>7. CASE offered = {}
    <3>1. toClient' = toClient \o <<m>> \o <<n>> /\ server'.pc = "command"
      BY <1>4, <2>3, <2>5, <2>7, Zenon
    <3>2. Two(buf, toClient \o <<m>> \o <<n>>, FALSE, m, n)
      BY <2>1, <2>4, Speak DEF Silent
    <3>3. Two(buf', toClient', client'.layer, AuthMsgOf({}, client'.layer), Msg("reposinfo", client'.layer))
      BY <1>2, <2>2, <2>3, <2>7, <3>1, <3>2, Zenon
    <3>4. "reposinfo" \in Lasts(client'.session)
      BY <1>2, <2>2 DEF Lasts
    <3>5. At(server'.pc, toServer', "command", <<>>)
      BY <1>3, <3>1 DEF At
    <3>6. Admitted'
      BY <1>2, <2>1, <2>6, <3>3, <3>4, <3>5 DEF Admitted, Sound, Alike, ServerAt, ComeBoth
    <3> QED
      BY <3>6 DEF StepInv
  <2>8. CASE offered # {}
    <3>1. toClient' = toClient \o <<m>> \o <<>> /\ server'.pc = "mech"
      BY <1>4, <2>5, <2>8, Zenon
    <3>2. One(buf, toClient \o <<m>> \o <<>>, FALSE, m)
      BY <2>1, <2>4, Speak DEF Silent
    <3>3. One(buf', toClient', client'.layer, AuthMsgOf(server'.offered, FALSE))
      BY <1>2, <1>4, <2>2, <2>3, <3>1, <3>2, Zenon
    <3>4. At(server'.pc, toServer', "mech", <<>>)
      BY <1>3, <3>1 DEF At
    <3>5. ~client'.layer /\ ~server'.layer
      BY <1>2, <1>4, <2>2
    <3>6. Asked'
      BY <1>2, <1>4, <2>1, <2>6, <2>8, <3>3, <3>4, <3>5 DEF Asked, Sound, Alike, Bare, ServerAt, Comes
    <3> QED
      BY <3>6 DEF StepInv
  <2> QED
    BY <2>7, <2>8
<1> QED
  BY <1>5, <1>6, <1>7

\* The answer to a command, or the request before it, reaches a client that waits.
LEMMA ReadCommandStep ==
    ASSUME TypeInv, StepInv, LayerInv, ReadCommand
    PROVE  StepInv'
<1>1. Read({"command"})
  BY DEF ReadCommand
<1>2. /\ toServer # <<>> /\ client' = client /\ buf' = buf
  BY <1>1, ReadEffect
<1>3. toServer' = <<>> /\ Len(toServer') <= 0
  BY <1>1, WireEmptied
<1>4. /\ server.pc = "command"
      /\ server'.session = TRUE /\ server'.layer = server.layer /\ server'.odd = server.odd
      /\ \/ /\ server'.pc = "command"
            /\ \E answer \in {"success", "failure"} :
                 toClient' = toClient \o <<AuthRequest({}), Msg(answer, server.layer)>>
         \/ /\ server'.pc = "mech" /\ server.user # "user" /\ server'.offered # {}
            /\ toClient' = Append(toClient, AuthRequest(server'.offered))
  BY ReadCommandEffect
<1>5. Commanding \/ Gone
  BY <1>2, <1>4, WhoWrote
<1>6. CASE Gone
  BY <1>2, <1>3, <1>6, GoneStays DEF Gone
<1>7. CASE Commanding
  <2>1. Alike /\ client.session /\ Silent /\ client.pc = "authrequest"
    BY <1>7 DEF Commanding
  <2>2. client.layer \in BOOLEAN /\ server.layer = client.layer /\ client.session = TRUE
    BY <2>1 DEF Alike, TypeInv, ClientType, ServerType
  <2>3. client'.session = server'.session /\ client'.layer = server'.layer /\ ~server'.odd
    BY <1>2, <1>4, <2>1, <2>2 DEF Alike
  <2>4. CASE /\ server'.pc = "command"
             /\ \E answer \in {"success", "failure"} :
                 toClient' = toClient \o <<AuthRequest({}), Msg(answer, server.layer)>>
    <3>1. PICK answer \in {"success", "failure"} :
                 toClient' = toClient \o <<AuthRequest({}), Msg(answer, server.layer)>>
      BY <2>4
    <3>2. PICK m, n : m = AuthMsgOf({}, client.layer) /\ n = Msg(answer, client.layer)
      OBVIOUS
    <3>3. answer \in Lasts(client.session)
      BY <2>2 DEF Lasts
    <3>4. m \in ToClientMsgs /\ n \in ToClientMsgs
      BY <2>2, <3>2, <3>3, AuthMsg, LastKinds DEF AuthMsgOf
    <3>5. AuthRequest({}) = m /\ Msg(answer, server.layer) = n
      BY <2>2, <3>2, Zenon DEF AuthRequest, AuthMsgOf
    <3>6. toClient' = toClient \o <<m, n>>
      BY <3>1, <3>5, Zenon
    <3>7. Two(buf, toClient \o <<m, n>>, client.layer, m, n)
      BY <2>1, <2>2, <3>4, Speak DEF Silent
    <3>8. Two(buf', toClient', client'.layer, AuthMsgOf({}, client'.layer), Msg(answer, client'.layer))
      BY <1>2, <3>2, <3>6, <3>7, Zenon
    <3>9. At(server'.pc, toServer', "command", <<>>)
      BY <1>3, <2>4 DEF At
    <3>10. answer \in Lasts(client'.session)
      BY <1>2, <3>3, Zenon
    <3>11. Admitted'
      BY <1>2, <2>1, <2>3, <3>8, <3>9, <3>10 DEF Admitted, Sound, Alike, ServerAt, ComeBoth
    <3> QED
      BY <3>11 DEF StepInv
  <2>5. CASE /\ server'.pc = "mech" /\ server.user # "user" /\ server'.offered # {}
             /\ toClient' = Append(toClient, AuthRequest(server'.offered))
    <3>1. server.layer = FALSE /\ client.layer = FALSE
      BY <2>2, <2>5 DEF LayerInv
    <3>2. PICK offered : offered = server'.offered
      OBVIOUS
    <3>3. offered \in SUBSET Mechs
      <4>1. server' \in ServerType
        BY ReadCommandEffect
      <4> QED
        BY <3>2, <4>1 DEF ServerType
    <3>4. PICK m : m = AuthMsgOf(offered, FALSE)
      OBVIOUS
    <3>5. m \in ToClientMsgs
      BY <3>3, <3>4, AuthMsg DEF AuthMsgOf
    <3>6. AuthRequest(offered) = m
      BY <3>1, <3>4, Zenon DEF AuthRequest, AuthMsgOf
    <3>7. toClient' = Append(toClient, m)
      <4>1. toClient' = Append(toClient, [Msg("auth", server.layer) EXCEPT !.mechs = server'.offered])
        BY <2>5, Zenon DEF AuthRequest
      <4>2. m = [Msg("auth", server.layer) EXCEPT !.mechs = server'.offered]
        BY <3>1, <3>2, <3>4, Zenon DEF AuthMsgOf
      <4> QED
        BY <4>1, <4>2, Zenon
    <3>8. One(buf, Append(toClient, m), FALSE, m)
      BY <2>1, <3>5, Speak DEF Silent
    <3>9. One(buf', toClient', client'.layer, AuthMsgOf(server'.offered, FALSE))
      BY <1>2, <3>1, <3>2, <3>4, <3>7, <3>8, Zenon
    <3>10. At(server'.pc, toServer', "mech", <<>>)
      BY <1>3, <2>5 DEF At
    <3>11. ~client'.layer /\ ~server'.layer
      BY <1>2, <1>4, <3>1
    <3>12. Asked'
      BY <1>2, <2>1, <2>3, <2>5, <3>9, <3>10, <3>11 DEF Asked, Sound, Alike, Bare, ServerAt, Comes
    <3> QED
      BY <3>12 DEF StepInv
  <2> QED
    BY <1>4, <2>4, <2>5
<1> QED
  BY <1>5, <1>6, <1>7

\* One more message on a silent line.
LEMMA SayOne ==
    ASSUME TypeInv, Silent, client.layer = FALSE, server.layer = FALSE,
           NEW kind \in {"step", "failure"}, buf' = buf, client' = client,
           toClient' = toClient \o <<Msg(kind, server.layer)>>
    PROVE  One(buf', toClient', client'.layer, Msg(kind, FALSE))
<1>1. PICK m : m = Msg(kind, FALSE)
  OBVIOUS
<1>2. m \in ToClientMsgs
  BY <1>1, FewMsgs
<1>3. toClient' = toClient \o <<m>>
  BY <1>1, Zenon
<1>4. One(buf, toClient \o <<m>>, FALSE, m)
  BY <1>2, Speak DEF Silent
<1> QED
  BY <1>1, <1>3, <1>4, Zenon

\* The success and what comes with it.
LEMMA AcceptPlace ==
    ASSUME TypeInv, Silent, Exchange, Sound, NEW mech, Accept(mech),
           buf' = buf, client' = client, toServer' = <<>>,
           client.pc = "challenge" => mech # "DIGEST-MD5"
    PROVE  StepInv'
<1>1. /\ server'.pc = "command" /\ server' \in ServerType
      /\ server'.layer = server.layer \/ mech = "DIGEST-MD5" \/ server'.layer = FALSE
      /\ server'.session = server.session /\ server'.offered = server.offered
      /\ server'.odd = server.odd
      /\ toClient' = Append(toClient, Msg("success", server.layer))
                             \o <<Msg(Follows, server'.layer)>>
  <2>1. server'.pc = "command" /\ server' \in ServerType
    BY AcceptEffect
  <2>2. server'.layer = server.layer \/ mech = "DIGEST-MD5" \/ server'.layer = FALSE
    BY AcceptEffect
  <2>3. /\ server'.session = server.session /\ server'.offered = server.offered
        /\ server'.odd = server.odd
    BY AcceptEffect
  <2>4. toClient' = Append(toClient, Msg("success", server.layer))
                             \o <<Msg(Follows, server'.layer)>>
    BY AcceptEffect
  <2> QED
    BY <2>1, <2>2, <2>3, <2>4
<1>2. client.layer = FALSE /\ server.layer = FALSE /\ server'.layer \in BOOLEAN
      /\ client.session = server.session /\ client.session \in BOOLEAN /\ ~server.odd
  BY <1>1 DEF Exchange, Sound, Alike, TypeInv, ClientType, ServerType
<1>3. PICK kind : kind = Follows
  OBVIOUS
<1>4. kind \in Lasts(client.session)
  BY <1>2, <1>3 DEF Follows, Lasts
<1>5. PICK layer : layer = server'.layer
  OBVIOUS
<1>6. PICK m, n : m = Msg("success", FALSE) /\ n = Msg(kind, layer)
  OBVIOUS
<1>7. m \in ToClientMsgs /\ n \in ToClientMsgs
  BY <1>2, <1>4, <1>5, <1>6, FewMsgs, LastKinds
<1>8. toClient' = Append(toClient, m) \o <<n>>
  BY <1>1, <1>2, <1>3, <1>5, <1>6, Zenon
<1>9. Two(buf, Append(toClient, m) \o <<n>>, FALSE, m, n)
  BY <1>7, Speak DEF Silent
<1>10. Two(buf', toClient', client'.layer, Msg("success", FALSE), Msg(kind, server'.layer))
  BY <1>2, <1>5, <1>6, <1>8, <1>9, Zenon
<1>11. At(server'.pc, toServer', "command", <<>>)
  BY <1>1 DEF At
<1>12. Exchange'
  BY <1>1 DEF Exchange
<1>13. client'.pc = "challenge" => ~server'.layer
  BY <1>1, <1>2
<1>14. kind \in Lasts(client'.session)
  BY <1>4, Zenon
<1>15. Accepted'
  BY <1>1, <1>2, <1>10, <1>11, <1>12, <1>13, <1>14 DEF Accepted, ServerAt, ComeBoth
<1> QED
  BY <1>15 DEF StepInv

\* The answer to a mechanism reaches the client that has written it.
LEMMA ReadMechStep ==
    ASSUME TypeInv, StepInv, ReadMech
    PROVE  StepInv'
<1>0. PICK kinds : kinds = Mechs \cup {"command"}
  OBVIOUS
<1>1. Read(kinds)
  BY <1>0, Zenon DEF ReadMech
<1>2. toServer # <<>> /\ client' = client /\ buf' = buf /\ results' = results
  BY <1>1, ReadEffect
<1>3. toServer' = <<>> /\ Len(toServer') <= 0
  BY <1>1, WireEmptied
<1>4. PICK mech \in Mechs \cup {"command"} :
         /\ server.pc = "mech" /\ Head(toServer).kind = mech
         /\ \/ (mech \in TwoSteps => mech \notin server.offered) /\ Refuse(mech)
            \/ mech \in server.offered \ TwoSteps /\ Accept(mech)
            \/ /\ mech \in server.offered \ TwoSteps /\ Says(<<"step">>)
               /\ server' = [server EXCEPT !.odd = TRUE]
            \/ /\ mech \in server.offered \cap TwoSteps /\ Says(<<"step">>)
               /\ server' = [server EXCEPT !.pc = "reply", !.mech = mech]
  BY ReadMechCases
<1>5. (Shut /\ client.pc = "authrequest" /\ mech = "command") \/ (Trying /\ mech = client.mech) \/ Gone
  BY <1>2, <1>4, WhoWrote
<1>6. CASE Gone
  BY <1>2, <1>3, <1>6, GoneStays DEF Gone
<1>7. mech \in ToServerKinds
  BY <1>4 DEF ToServerKinds
<1>8. CASE Shut /\ client.pc = "authrequest" /\ mech = "command"
  <2>1. Sound /\ Bare /\ client.session /\ AuthRefused
    BY <1>8 DEF Shut
  <2>2. client.layer = FALSE /\ server.layer = FALSE
    BY <2>1 DEF Bare, TypeInv, ClientType, ServerType
  <2>3. mech \notin server.offered
    BY <1>8 DEF TypeInv, ServerType, Mechs
  <2>4. Refuse(mech) /\ Silent
    BY <1>2, <1>4, <2>3, WhoWrote, <1>8 DEF Gone
  <2>5. /\ server'.pc = "mech" /\ server'.layer = server.layer
        /\ server'.session = server.session /\ server'.odd = server.odd
        /\ toClient' = toClient \o <<Msg("failure", server.layer)>>
    BY <1>7, <2>4, RefuseEffect
  <2>6. One(buf', toClient', client'.layer, Msg("failure", FALSE))
    BY <1>2, <2>2, <2>4, <2>5, SayOne
  <2>7. At(server'.pc, toServer', "mech", <<>>)
    BY <1>3, <2>5 DEF At
  <2>8. AuthRefused'
    BY <1>2, <2>1, Zenon DEF AuthRefused
  <2>9. Shut'
    BY <1>2, <1>8, <2>1, <2>5, <2>6, <2>7, <2>8 DEF Shut, Sound, Alike, Bare, ServerAt, Comes
  <2> QED
    BY <2>9 DEF StepInv
<1>9. CASE Trying /\ mech = client.mech
  <2>1. /\ Exchange /\ Sound /\ Silent
        /\ client.pc = "sasl" => client.more = (client.mech \in TwoSteps)
    BY <1>9 DEF Trying
  <2>2. client.layer = FALSE /\ server.layer = FALSE /\ mech \in server.offered
    BY <1>9, <2>1 DEF Exchange, Sound, Alike, TypeInv, ClientType, ServerType
  <2>3. CASE Refuse(mech)
    <3>1. /\ server'.pc = "mech" /\ server'.layer = server.layer
          /\ server'.session = server.session /\ server'.odd = server.odd
          /\ server'.offered = server.offered /\ server'.refused = server.refused \cup {mech}
          /\ toClient' = toClient \o <<Msg("failure", server.layer)>>
      BY <1>7, <2>3, RefuseEffect
    <3>2. One(buf', toClient', client'.layer, Msg("failure", FALSE))
      BY <1>2, <2>1, <2>2, <3>1, SayOne
    <3>3. At(server'.pc, toServer', "mech", <<>>)
      BY <1>3, <3>1 DEF At
    <3>4. Exchange' /\ Sound' /\ client'.mech \in server'.refused
      BY <1>2, <1>9, <2>1, <3>1 DEF Exchange, Sound, Alike
    <3>5. Refused'
      BY <3>2, <3>3, <3>4 DEF Refused, ServerAt, Comes
    <3> QED
      BY <3>5 DEF StepInv
  <2>4. CASE mech \in server.offered \ TwoSteps /\ Accept(mech)
    <3>1. mech # "DIGEST-MD5"
      BY <2>4 DEF TwoSteps
    <3> QED
      BY <1>2, <1>3, <2>1, <2>4, <3>1, AcceptPlace
  <2>5. CASE /\ mech \in server.offered \ TwoSteps /\ Says(<<"step">>)
             /\ server' = [server EXCEPT !.odd = TRUE]
    <3>1. /\ server'.pc = "mech" /\ server'.layer = server.layer
          /\ server'.session = server.session /\ server'.odd = TRUE
          /\ server'.offered = server.offered
          /\ toClient' = toClient \o <<Msg("step", server.layer)>>
      BY <1>4, <2>5, PuzzleEffect
    <3>2. One(buf', toClient', client'.layer, Msg("step", FALSE))
      BY <1>2, <2>1, <2>2, <3>1, SayOne
    <3>3. At(server'.pc, toServer', "mech", <<>>)
      BY <1>3, <3>1 DEF At
    <3>4. Exchange' /\ client'.mech \notin TwoSteps
      BY <1>2, <1>9, <2>1, <2>5, <3>1 DEF Exchange
    <3>5. client'.pc = "sasl" => ~client'.more
      BY <1>2, <1>9, <2>1, <2>5
    <3>6. server'.odd /\ ~server'.layer
      BY <2>2, <3>1
    <3>7. Puzzled'
      BY <3>2, <3>3, <3>4, <3>5, <3>6 DEF Puzzled, ServerAt, Comes
    <3> QED
      BY <3>7 DEF StepInv
  <2>6. CASE /\ mech \in server.offered \cap TwoSteps /\ Says(<<"step">>)
             /\ server' = [server EXCEPT !.pc = "reply", !.mech = mech]
    <3>0. mech \in Mechs /\ mech \in TwoSteps
      BY <2>6 DEF TwoSteps, Mechs
    <3>1. /\ server'.pc = "reply" /\ server'.mech = mech /\ server'.layer = server.layer
          /\ server'.session = server.session /\ server'.odd = server.odd
          /\ server'.offered = server.offered
          /\ toClient' = toClient \o <<Msg("step", server.layer)>>
      BY <2>6, <3>0, AskEffect
    <3>2. One(buf', toClient', client'.layer, Msg("step", FALSE))
      BY <1>2, <2>1, <2>2, <3>1, SayOne
    <3>3. At(server'.pc, toServer', "reply", <<>>)
      BY <1>3, <3>1 DEF At
    <3>4. Exchange' /\ Sound' /\ server'.mech = client'.mech /\ client'.mech \in TwoSteps
      BY <1>2, <1>9, <2>1, <3>0, <3>1 DEF Exchange, Sound, Alike
    <3>5. client'.pc = "sasl" => client'.more
      BY <1>2, <1>9, <2>1, <3>0
    <3>6. Challenged'
      BY <3>2, <3>3, <3>4, <3>5 DEF Challenged, ServerAt, Comes
    <3> QED
      BY <3>6 DEF StepInv
  <2> QED
    BY <1>4, <2>3, <2>4, <2>5, <2>6
<1> QED
  BY <1>5, <1>6, <1>8, <1>9

\* The answer to a reply reaches the client that has written it.
LEMMA ReadReplyStep ==
    ASSUME TypeInv, StepInv, ReadReply
    PROVE  StepInv'
<1>1. Read({"reply", "command"}) /\ server.pc = "reply"
  BY DEF ReadReply
<1>2. toServer # <<>> /\ client' = client /\ buf' = buf /\ results' = results
  BY <1>1, ReadEffect
<1>3. toServer' = <<>> /\ Len(toServer') <= 0
  BY <1>1, WireEmptied
<1>4. PICK mech : mech = server.mech
  OBVIOUS
<1>5. /\ mech \in ToServerKinds
      /\ \/ Head(toServer).kind = "reply" /\ Accept(mech)
         \/ Refuse(mech)
         \/ /\ Head(toServer).kind = "command" /\ toClient' = toClient
            /\ server' = [server EXCEPT !.pc = "closed"]
  BY <1>4, ReplyCases
<1>6. \/ Replied /\ Head(toServer).kind = "reply"
      \/ Shut /\ client.pc = "authrequest" /\ Head(toServer).kind = "command"
      \/ Gone
  BY <1>1, <1>2, WhoWrote
<1>7. CASE Gone
  BY <1>2, <1>3, <1>7, GoneStays DEF Gone
<1>8. CASE Replied /\ Head(toServer).kind = "reply"
  <2>1. Exchange /\ Sound /\ Silent /\ mech = client.mech
    BY <1>4, <1>8 DEF Replied
  <2>2. client.layer = FALSE /\ server.layer = FALSE
    BY <2>1 DEF Exchange, Sound, Alike, TypeInv, ClientType, ServerType
  <2>3. CASE Accept(mech)
    <3>1. client.pc = "challenge" => mech # "DIGEST-MD5"
      BY <2>1 DEF Exchange
    <3> QED
      BY <1>2, <1>3, <2>1, <2>3, <3>1, AcceptPlace
  <2>4. CASE Refuse(mech)
    <3>1. /\ server'.pc = "mech" /\ server'.layer = server.layer
          /\ server'.session = server.session /\ server'.odd = server.odd
          /\ server'.offered = server.offered /\ server'.refused = server.refused \cup {mech}
          /\ toClient' = toClient \o <<Msg("failure", server.layer)>>
      BY <1>5, <2>4, RefuseEffect
    <3>2. One(buf', toClient', client'.layer, Msg("failure", FALSE))
      BY <1>2, <2>1, <2>2, <3>1, SayOne
    <3>3. At(server'.pc, toServer', "mech", <<>>)
      BY <1>3, <3>1 DEF At
    <3>4. Exchange' /\ Sound' /\ client'.mech \in server'.refused
      BY <1>2, <2>1, <3>1 DEF Exchange, Sound, Alike
    <3>5. Refused'
      BY <3>2, <3>3, <3>4 DEF Refused, ServerAt, Comes
    <3> QED
      BY <3>5 DEF StepInv
  <2> QED
    BY <1>5, <1>8, <2>3, <2>4
<1>9. CASE Shut /\ client.pc = "authrequest" /\ Head(toServer).kind = "command"
  <2>1. Sound /\ Bare /\ client.session /\ AuthRefused
    BY <1>9 DEF Shut
  <2>2. client.layer = FALSE /\ server.layer = FALSE
    BY <2>1 DEF Bare, TypeInv, ClientType, ServerType
  <2>3. Silent \/ Gone
    BY <1>1, <1>2, WhoWrote
  <2>4. Silent
    BY <1>9, <2>3 DEF Gone
  <2>5. AuthRefused'
    BY <1>2, <2>1, Zenon DEF AuthRefused
  <2>6. CASE Refuse(mech)
    <3>1. /\ server'.pc = "mech" /\ server'.layer = server.layer
          /\ server'.session = server.session /\ server'.odd = server.odd
          /\ toClient' = toClient \o <<Msg("failure", server.layer)>>
      BY <1>5, <2>6, RefuseEffect
    <3>2. One(buf', toClient', client'.layer, Msg("failure", FALSE))
      BY <1>2, <2>2, <2>4, <3>1, SayOne
    <3>3. At(server'.pc, toServer', "mech", <<>>)
      BY <1>3, <3>1 DEF At
    <3>4. Shut'
      BY <1>2, <1>9, <2>1, <2>5, <3>1, <3>2, <3>3 DEF Shut, Sound, Alike, Bare, ServerAt, Comes
    <3> QED
      BY <3>4 DEF StepInv
  <2>7. CASE toClient' = toClient /\ server' = [server EXCEPT !.pc = "closed"]
    <3>1. /\ server'.pc = "closed" /\ server'.layer = server.layer
          /\ server'.session = server.session /\ server'.odd = server.odd
      BY <2>7, HangUpEffect
    <3>2. ServerHas("reply", "command")'
      BY <1>3, <3>1 DEF ServerHas, At
    <3>3. Silent'
      BY <1>2, <2>4, <2>7 DEF Silent
    <3>4. Shut'
      BY <1>2, <1>9, <2>1, <2>5, <3>1, <3>2, <3>3 DEF Shut, Sound, Alike, Bare
    <3> QED
      BY <3>4 DEF StepInv
  <2> QED
    BY <1>5, <1>9, <2>6, <2>7
<1> QED
  BY <1>6, <1>7, <1>8, <1>9


-----------------------------------------------------------------------------
(* What the steps of the client leave alone.                               *)

\* No step of the client changes the server or the configuration.
LEMMA ClientKeeps ==
    ASSUME Progress \/ SendCommand
    PROVE  server' = server /\ config' = config
BY DEF Progress, Fill, ReadGreeting, ReadAuthRequest, ReadChallenge, ReadSasl, SaslStep, SaslGivesUp,
       SaslDone, ReadReposInfo, ReadResponse, ReadEof, ReadTimeout, SendCommand, Took

-----------------------------------------------------------------------------
(* The layer.                                                              *)

\* A success switches the layer on for DIGEST-MD5 only, and makes a user known.
LEMMA AcceptLayer ==
    ASSUME TypeInv, ~server.layer, NEW mech, Accept(mech)
    PROVE  LayerInv'
<1>1. server'.layer = server.layer \/ mech = "DIGEST-MD5" \/ server'.layer = FALSE
  BY AcceptEffect
<1>2. server'.pc = "command" /\ server'.user = IF mech = "ANONYMOUS" THEN "anonymous" ELSE "user"
  BY AcceptEffect
<1>3. server'.layer => mech = "DIGEST-MD5"
  BY <1>1
<1> QED
  BY <1>2, <1>3 DEF LayerInv

\* A refusal leaves the layer off.
LEMMA RefuseLayer ==
    ASSUME TypeInv, LayerInv, ~server.layer, NEW mech \in ToServerKinds, Refuse(mech)
    PROVE  LayerInv'
BY RefuseEffect DEF LayerInv

\* Every step keeps what is said of the layer.
LEMMA LayerStep == TypeInv /\ LayerInv /\ [Next]_vars => LayerInv'
<1> SUFFICES ASSUME TypeInv, LayerInv, [Next]_vars PROVE LayerInv'
  OBVIOUS
<1>1. CASE Progress \/ SendCommand \/ UNCHANGED vars
  BY <1>1, ClientKeeps DEF LayerInv, vars
<1>2. CASE Greet
  BY <1>2, GreetEffect DEF LayerInv
<1>3. CASE ReadClientResponse
  <2>1. server.pc = "response" /\ server'.layer = server.layer
    BY <1>3, ReadClientResponseEffect
  <2> QED
    BY <2>1 DEF LayerInv
<1>4. CASE ReadCommand
  <2>1. /\ server'.layer = server.layer /\ server'.user = server.user
        /\ server'.pc = "command" \/ (server'.pc = "mech" /\ server.user # "user")
    BY <1>4, ReadCommandEffect
  <2> QED
    BY <2>1 DEF LayerInv
<1>5. CASE ReadMech
  <2>1. PICK mech \in Mechs \cup {"command"} :
           /\ server.pc = "mech"
           /\ \/ Refuse(mech)
              \/ Accept(mech)
              \/ /\ Says(<<"step">>)
                 /\ server' = [server EXCEPT !.odd = TRUE]
              \/ /\ mech \in server.offered \cap TwoSteps /\ Says(<<"step">>)
                 /\ server' = [server EXCEPT !.pc = "reply", !.mech = mech]
    BY <1>5, ReadMechCases, Zenon
  <2>2. ~server.layer
    BY <2>1 DEF LayerInv
  <2>3. CASE Refuse(mech)
    <3>1. mech \in ToServerKinds
      BY DEF ToServerKinds
    <3> QED
      BY <2>2, <2>3, <3>1, RefuseLayer
  <2>4. CASE Accept(mech)
    BY <2>2, <2>4, AcceptLayer
  <2>5. CASE Says(<<"step">>) /\ server' = [server EXCEPT !.odd = TRUE]
    BY <2>2, <2>5, PuzzleEffect DEF LayerInv
  <2>6. CASE /\ mech \in server.offered \cap TwoSteps /\ Says(<<"step">>)
             /\ server' = [server EXCEPT !.pc = "reply", !.mech = mech]
    <3>1. mech \in Mechs
      BY <2>6 DEF TwoSteps, Mechs
    <3> QED
      BY <2>2, <2>6, <3>1, AskEffect DEF LayerInv
  <2> QED
    BY <2>1, <2>3, <2>4, <2>5, <2>6
<1>6. CASE ReadReply
  <2>1. PICK mech : mech = server.mech
    OBVIOUS
  <2>2. /\ mech \in ToServerKinds /\ server.pc = "reply"
        /\ Accept(mech) \/ Refuse(mech) \/ server' = [server EXCEPT !.pc = "closed"]
    BY <1>6, <2>1, ReplyCases
  <2>3. ~server.layer
    BY <2>2 DEF LayerInv
  <2>4. CASE server' = [server EXCEPT !.pc = "closed"]
    BY <2>3, <2>4, HangUpEffect DEF LayerInv
  <2> QED
    BY <2>2, <2>3, <2>4, AcceptLayer, RefuseLayer
<1>7. CASE Close
  BY <1>7, CloseEffect DEF LayerInv
<1> QED
  BY <1>1, <1>2, <1>3, <1>4, <1>5, <1>6, <1>7 DEF Next


-----------------------------------------------------------------------------
(* Who has been puzzled.                                                   *)

\* A new result that is no protocol error says nothing against the server.
LEMMA OddFrom ==
    ASSUME TypeInv, OddInv, server' = server, NEW result \in Results,
           results' = Append(results, result), result = "protocol" => server.odd
    PROVE  OddInv'
<1>1. results \in Seq(Results)
  BY DEF TypeInv
<1>2. (\E i \in DOMAIN results' : results'[i] = "protocol") =>
         result = "protocol" \/ \E i \in DOMAIN results : results[i] = "protocol"
  BY <1>1, RefusedStays
<1> QED
  BY <1>2 DEF OddInv

\* Without a new result, an odd server only has to stay odd.
LEMMA OddSame ==
    ASSUME OddInv, results' = results, server.odd => server'.odd
    PROVE  OddInv'
BY DEF OddInv

\* The choice of the next mechanism never ends in a protocol error.
LEMMA NextMechOdd ==
    ASSUME TypeInv, OddInv, server' = server, NEW offered \in SUBSET Mechs,
           NEW tries \in Seq(Mechs), NEW err \in AuthErrors, NextMech(offered, tries, err)
    PROVE  OddInv'
<1>1. results' = results \/ \E e \in AuthErrors : Fails(e)
  BY NextMechCases DEF TryMech
<1>2. \A e \in AuthErrors : e \in Results /\ e # "protocol"
  BY DEF Results, AuthErrors
<1>3. CASE results' = results
  BY <1>3, OddSame
<1>4. CASE \E e \in AuthErrors : Fails(e)
  <2>1. PICK e \in AuthErrors : Fails(e)
    BY <1>4
  <2> QED
    BY <1>2, <2>1, FailsEffect, OddFrom
<1> QED
  BY <1>1, <1>3, <1>4

\* The client reports a protocol error only to a server that was odd.
LEMMA ClientOdd ==
    ASSUME TypeInv, StepInv, OddInv, Progress \/ SendCommand
    PROVE  OddInv'
<1>0. server' = server
  BY ClientKeeps
<1>1. ASSUME NEW result \in Results, Fails(result), result = "protocol" => server.odd
      PROVE  OddInv'
  BY <1>0, <1>1, FailsEffect, OddFrom
<1>2. CASE results' = results
  BY <1>0, <1>2, OddSame
<1>3. CASE ReadGreeting
  <2>1. CASE Item = "greeting"
    <3>1. results' = results
      BY <1>3, <2>1 DEF ReadGreeting, Otherwise
    <3> QED
      BY <1>2, <3>1
  <2>2. CASE Item # "greeting"
    <3>1. Otherwise({"greeting"}) /\ client.pc = "greeting" /\ buf # <<>>
      BY <1>3, <2>2 DEF ReadGreeting
    <3>2. server.odd
      BY <2>2, <3>1, GreetingArrives
    <3> QED
      BY <1>1, <3>1, <3>2, OtherwiseFails
  <2> QED
    BY <2>1, <2>2
<1>4. CASE ReadAuthRequest
  <2>0. client.pc = "authrequest" /\ buf # <<>>
    BY <1>4 DEF ReadAuthRequest
  <2>1. PICK offered : offered = Head(buf).mechs
    OBVIOUS
  <2>2. offered \in SUBSET Mechs
    BY <1>4, <2>0, <2>1, TookEffect DEF ReadAuthRequest, ToClientMsgs, Messages
  <2>3. \/ Authenticated
        \/ NextMech(offered, SelectMechs(offered), "unavailable")
        \/ Otherwise({"auth"})
    BY <1>4, <2>1, Zenon DEF ReadAuthRequest
  <2>4. CASE Authenticated
    BY <1>2, <2>4 DEF Authenticated
  <2>5. CASE NextMech(offered, SelectMechs(offered), "unavailable")
    <3>1. SelectMechs(offered) \in Seq(Mechs) /\ "unavailable" \in AuthErrors
      BY <2>2, SelectFacts DEF TypeInv, AuthErrors
    <3> QED
      BY <1>0, <2>2, <2>5, <3>1, NextMechOdd
  <2>6. CASE Otherwise({"auth"})
    <3>1. Item \in {"auth", "failure"}
      BY <2>0, AuthArrives
    <3>2. Item = "failure"
      BY <2>6, <3>1, OtherwiseFails
    <3> QED
      BY <1>1, <2>6, <3>2, OtherwiseFails
  <2> QED
    BY <2>3, <2>4, <2>5, <2>6
<1>5. CASE ReadChallenge
  <2>0. client.pc = "challenge" /\ buf # <<>>
    BY <1>5 DEF ReadChallenge
  <2>1. CASE Authenticated
    BY <1>2, <2>1 DEF Authenticated
  <2>2. CASE NextMech(client.offered, client.tries, "failed")
    <3>1. client.offered \in SUBSET Mechs /\ client.tries \in Seq(Mechs) /\ "failed" \in AuthErrors
      BY DEF TypeInv, ClientType, AuthErrors
    <3> QED
      BY <1>0, <2>2, <3>1, NextMechOdd
  <2>3. CASE Item = "step" /\ client.mech # "CRAM-MD5" /\ Fails("protocol")
    <3>1. Exchange /\ (Challenged \/ Puzzled)
      BY <2>0, <2>3, AnswerArrives
    <3>2. client.mech # "DIGEST-MD5"
      BY <2>0, <3>1 DEF Exchange
    <3>3. server.odd
      BY <2>3, <3>1, <3>2 DEF Challenged, Puzzled, TwoSteps
    <3> QED
      BY <1>1, <2>3, <3>3 DEF Results
  <2> QED
    BY <1>2, <1>5, <2>1, <2>2, <2>3 DEF ReadChallenge
<1>6. CASE ReadSasl
  <2>0. client.pc = "sasl" /\ buf # <<>>
    BY <1>6 DEF ReadSasl
  <2>1. CASE Fails("failed")
    BY <1>1, <2>1 DEF Results, AuthErrors
  <2>2. CASE Item = "step" /\ ~client.more /\ Fails("protocol")
    <3>1. Challenged \/ Puzzled
      BY <2>0, <2>2, AnswerArrives
    <3>2. server.odd
      BY <2>0, <2>2, <3>1 DEF Challenged, Puzzled
    <3> QED
      BY <1>1, <2>2, <3>2 DEF Results
  <2> QED
    BY <1>2, <1>6, <2>1, <2>2 DEF ReadSasl, SaslStep, SaslGivesUp, SaslDone
<1>7. CASE ReadReposInfo
  <2>0. client.pc = "reposinfo" /\ buf # <<>>
    BY <1>7 DEF ReadReposInfo
  <2>1. Item \in {"reposinfo"}
    BY <2>0, LastArrives DEF TypeInv, ClientType
  <2>2. results' = Append(results, "ok")
    BY <1>7, <2>1 DEF ReadReposInfo, Otherwise, Done
  <2> QED
    BY <1>0, <2>2, OddFrom DEF Results
<1>8. CASE ReadResponse
  <2>0. client.pc = "response" /\ buf # <<>>
    BY <1>8 DEF ReadResponse
  <2>1. Item \in {"success", "failure"}
    BY <2>0, LastArrives DEF TypeInv, ClientType
  <2>2. CASE Item = "success"
    <3>1. results' = Append(results, "ok")
      BY <1>8, <2>2 DEF ReadResponse, Otherwise, Done
    <3> QED
      BY <1>0, <3>1, OddFrom DEF Results
  <2>3. CASE Item = "failure"
    <3>1. Fails("server")
      BY <1>8, <2>3 DEF ReadResponse, Otherwise
    <3> QED
      BY <1>1, <3>1 DEF Results
  <2> QED
    BY <2>1, <2>2, <2>3
<1>9. CASE ReadEof \/ ReadTimeout
  <2>1. PICK result \in {"eof", "timeout"} : Fails(result)
    BY <1>9 DEF ReadEof, ReadTimeout
  <2> QED
    BY <1>1, <2>1 DEF Results
<1>10. CASE Fill \/ SendCommand
  BY <1>2, <1>10 DEF Fill, SendCommand
<1> QED
  BY <1>3, <1>4, <1>5, <1>6, <1>7, <1>8, <1>9, <1>10 DEF Progress

\* A server that has been odd stays so, and says nothing of the results.
LEMMA ServerOdd ==
    ASSUME TypeInv, Greet \/ ReadClientResponse \/ ReadCommand \/ ReadMech \/ ReadReply \/ Close
    PROVE  results' = results /\ client' = client /\ config' = config /\ buf' = buf
           /\ (server.odd => server'.odd)
<1>1. CASE Greet
  BY <1>1, GreetEffect
<1>2. CASE ReadClientResponse
  <2>1. server'.odd = server.odd
    BY <1>2, ReadClientResponseEffect
  <2> QED
    BY <1>2, <2>1 DEF ReadClientResponse, Read, Quiet
<1>3. CASE ReadCommand
  <2>1. server'.odd = server.odd
    BY <1>3, ReadCommandEffect
  <2> QED
    BY <1>3, <2>1 DEF ReadCommand, Read, Quiet
<1>4. CASE ReadMech
  <2>1. PICK mech \in Mechs \cup {"command"} :
           \/ Refuse(mech)
           \/ Accept(mech)
           \/ Says(<<"step">>) /\ server' = [server EXCEPT !.odd = TRUE]
           \/ /\ mech \in server.offered \cap TwoSteps /\ Says(<<"step">>)
              /\ server' = [server EXCEPT !.pc = "reply", !.mech = mech]
    BY <1>4, ReadMechCases, Zenon
  <2>2. mech \in ToServerKinds /\ (mech \in TwoSteps => mech \in Mechs)
    BY DEF ToServerKinds, TwoSteps, Mechs
  <2>3. server.odd => server'.odd
    BY <2>1, <2>2, RefuseEffect, AcceptEffect, PuzzleEffect, AskEffect
  <2>4. results' = results /\ client' = client /\ config' = config /\ buf' = buf
    BY <1>4, Zenon DEF ReadMech, Read, Quiet
  <2> QED
    BY <2>3, <2>4
<1>5. CASE ReadReply
  <2>1. PICK mech : mech = server.mech
    OBVIOUS
  <2>2. mech \in ToServerKinds
    BY <1>5, <2>1, ReplyCases
  <2>3. Accept(mech) \/ Refuse(mech) \/ server' = [server EXCEPT !.pc = "closed"]
    BY <1>5, <2>1, ReplyCases
  <2>4. server'.odd = server.odd
    BY <2>2, <2>3, AcceptEffect, RefuseEffect, HangUpEffect
  <2> QED
    BY <1>5, <2>4 DEF ReadReply, Read, Quiet
<1>6. CASE Close
  BY <1>6, CloseEffect
<1> QED
  BY <1>1, <1>2, <1>3, <1>4, <1>5, <1>6

\* Every step keeps protocol errors for servers that were odd.
LEMMA OddStep == TypeInv /\ StepInv /\ OddInv /\ [Next]_vars => OddInv'
<1> SUFFICES ASSUME TypeInv, StepInv, OddInv, [Next]_vars PROVE OddInv'
  OBVIOUS
<1>1. CASE UNCHANGED vars
  BY <1>1 DEF OddInv, vars
<1>2. CASE Progress \/ SendCommand
  BY <1>2, ClientOdd
<1>3. CASE Greet \/ ReadClientResponse \/ ReadCommand \/ ReadMech \/ ReadReply \/ Close
  BY <1>3, ServerOdd, OddSame
<1> QED
  BY <1>1, <1>2, <1>3 DEF Next

-----------------------------------------------------------------------------

\* Both stay in their place while nothing happens.
LEMMA PlaceStays ==
    ASSUME StepInv, UNCHANGED vars
    PROVE  StepInv'
<1>1. /\ client' = client /\ server' = server /\ toServer' = toServer /\ toClient' = toClient
      /\ buf' = buf /\ results' = results
  BY DEF vars
<1>2. CASE NotGreeted
  BY <1>1, <1>2 DEF StepInv, NotGreeted, Bare, Silent, ServerAt, Comes
<1>3. CASE Introduced
  BY <1>1, <1>3 DEF StepInv, Introduced, Sound, Alike, Bare, Silent, ServerHas
<1>4. CASE Admitted
  BY <1>1, <1>4 DEF StepInv, Admitted, Sound, Alike, ServerAt, ComeBoth
<1>5. CASE Asked
  BY <1>1, <1>5 DEF StepInv, Asked, Sound, Alike, Bare, ServerAt, Comes
<1>6. CASE Commanding
  BY <1>1, <1>6 DEF StepInv, Commanding, Alike, Silent, ServerHas
<1>7. CASE Trying
  BY <1>1, <1>7 DEF StepInv, Trying, Exchange, Sound, Alike, Silent, ServerHas
<1>8. CASE Refused
  BY <1>1, <1>8 DEF StepInv, Refused, Exchange, Sound, Alike, ServerAt, Comes
<1>9. CASE Challenged
  BY <1>1, <1>9 DEF StepInv, Challenged, Exchange, Sound, Alike, ServerAt, Comes
<1>10. CASE Replied
  BY <1>1, <1>10 DEF StepInv, Replied, Exchange, Sound, Alike, Silent, ServerHas
<1>11. CASE Puzzled
  BY <1>1, <1>11 DEF StepInv, Puzzled, Exchange, ServerAt, Comes
<1>12. CASE Accepted
  BY <1>1, <1>12 DEF StepInv, Accepted, Exchange, ServerAt, ComeBoth
<1>13. CASE Concluding
  BY <1>1, <1>13 DEF StepInv, Concluding, Sound, Alike, ServerAt, Comes
<1>14. CASE Resting
  BY <1>1, <1>14 DEF StepInv, Resting, Alike, Silent, ServerAt
<1>15. CASE Gone
  BY <1>1, <1>15 DEF StepInv, Gone
<1>16. CASE Shut
  <2>1. AuthRefused'
    BY <1>1, <1>16, Zenon DEF Shut, AuthRefused
  <2>2. Shut'
    BY <1>1, <1>16, <2>1 DEF Shut, Sound, Alike, Bare, Silent, ServerAt, ServerHas, Comes
  <2> QED
    BY <2>2 DEF StepInv
<1> QED
  BY <1>2, <1>3, <1>4, <1>5, <1>6, <1>7, <1>8, <1>9, <1>10, <1>11, <1>12, <1>13, <1>14, <1>15, <1>16 DEF StepInv

\* Every step leads from place to place.
LEMMA StepStep == TypeInv /\ StepInv /\ LayerInv /\ TriedInv /\ [Next]_vars => StepInv'
<1> SUFFICES ASSUME TypeInv, StepInv, LayerInv, TriedInv, [Next]_vars PROVE StepInv'
  OBVIOUS
<1>1. CASE UNCHANGED vars
  BY <1>1, PlaceStays
<1>2. CASE Progress
  BY <1>2, FillStep, ReadGreetingStep, ReadAuthRequestStep, ReadChallengeStep, ReadSaslStep,
     ReadReposInfoStep, ReadResponseStep, ClientFailsStep DEF Progress
<1>3. CASE SendCommand
  BY <1>3, SendCommandStep
<1>4. CASE Greet \/ ReadClientResponse \/ ReadCommand \/ ReadMech \/ ReadReply \/ Close
  BY <1>4, GreetStep, ReadClientResponseStep, ReadCommandStep, ReadMechStep, ReadReplyStep, CloseStep
<1> QED
  BY <1>1, <1>2, <1>3, <1>4 DEF Next


-----------------------------------------------------------------------------
(* The order in which the mechanisms are tried.                            *)

\* A mechanism is fair when every stronger one that the client has and the
\* server offers has been refused.
Fair(mech, offered, refused, names) ==
    /\ mech = "PLAIN" => "CRAM-MD5" \notin offered \/ "CRAM-MD5" \in refused
    /\ mech = "ANONYMOUS" => offered \cap names \subseteq refused

\* What is on its way to the server was fair when it was written and still is.
FairInv ==
    \A i \in 1 .. Len(toServer) :
        toServer[i].kind \in Mechs =>
            /\ client.offered = server.offered
            /\ Fair(toServer[i].kind, server.offered, server.refused, NamesTheUser)

\* The list depends on the configuration only, which never changes.
LEMMA SelectSame ==
    ASSUME NEW offered, config' = config
    PROVE  SelectMechs(offered)' = SelectMechs(offered)
BY DEF SelectMechs

\* A place of the list with all before it refused is what has been tried.
LEMMA TriedFrom ==
    ASSUME NEW offered \in SUBSET Mechs, NEW list \in Seq(Mechs), list = SelectMechs(offered),
           config' = config, client'.offered = offered, NEW k \in 1 .. Len(list),
           client'.mech = list[k], client'.tries = SubSeq(list, k + 1, Len(list)),
           \A j \in 1 .. k - 1 : list[j] \in server'.refused
    PROVE  TriedInv'
<1>1. list = SelectMechs(offered)'
  BY SelectSame
<1>2. \E o \in SUBSET Mechs, l \in Seq(Mechs) :
           /\ o = client'.offered /\ l = SelectMechs(o)'
           /\ \E n \in 1 .. Len(l) :
                /\ client'.mech = l[n]
                /\ client'.tries = SubSeq(l, n + 1, Len(l))
                /\ \A j \in 1 .. n - 1 : l[j] \in server'.refused
  BY <1>1, Zenon
<1> QED
  BY <1>2, Zenon DEF TriedInv

\* What has been tried stays so while no refusal is forgotten.
LEMMA TriedSame ==
    ASSUME TriedInv, config' = config, client' = client \/ client'.pc # "challenge",
           client.pc = "challenge" => server.refused \subseteq server'.refused
    PROVE  TriedInv'
<1>1. CASE client'.pc # "challenge"
  BY <1>1 DEF TriedInv
<1>2. CASE client' = client /\ client.pc = "challenge"
  <2>1. PICK offered \in SUBSET Mechs, list \in Seq(Mechs) :
           /\ offered = client.offered /\ list = SelectMechs(offered)
           /\ \E k \in 1 .. Len(list) :
                /\ client.mech = list[k]
                /\ client.tries = SubSeq(list, k + 1, Len(list))
                /\ \A j \in 1 .. k - 1 : list[j] \in server.refused
    BY <1>2 DEF TriedInv
  <2>2. PICK k \in 1 .. Len(list) :
                /\ client.mech = list[k]
                /\ client.tries = SubSeq(list, k + 1, Len(list))
                /\ \A j \in 1 .. k - 1 : list[j] \in server.refused
    BY <2>1
  <2>3. \A j \in 1 .. k - 1 : list[j] \in server'.refused
    BY <1>2, <2>2
  <2> QED
    BY <1>2, <2>1, <2>2, <2>3, TriedFrom
<1> QED
  BY <1>1, <1>2

\* The order of the list makes every mechanism of it fair once the ones before
\* it have been refused.
LEMMA ListFair ==
    ASSUME config \in Configs, NEW offered \in SUBSET Mechs, NEW refused,
           NEW list, list = SelectMechs(offered), NEW k \in 1 .. Len(list),
           \A j \in 1 .. k - 1 : list[j] \in refused
    PROVE  Fair(list[k], offered, refused, NamesTheUser)
<1>1. /\ list[k] = "PLAIN" /\ "CRAM-MD5" \in offered => Before(list, k, "CRAM-MD5")
      /\ list[k] = "ANONYMOUS" => \A mech \in offered \cap NamesTheUser : Before(list, k, mech)
  BY SelectFacts
<1>2. \A mech : Before(list, k, mech) => mech \in refused
  BY DEF Before
<1> QED
  BY <1>1, <1>2 DEF Fair

\* SASL is asked when the built-in mechanisms have all been refused.
LEMMA LibraryFair ==
    ASSUME config \in Configs, NEW offered \in SUBSET Mechs, NEW refused,
           NEW list, list = SelectMechs(offered), NEW mech \in LibraryMechs(offered),
           \A j \in 1 .. Len(list) : list[j] \in refused
    PROVE  Fair(mech, offered, refused, NamesTheUser)
<1>1. \A m \in offered \cap NamesTheUser : m \in refused
  <2>1. \A m \in offered \cap NamesTheUser : \E j \in 1 .. Len(list) : list[j] = m
    BY SelectFacts
  <2> QED
    BY <2>1
<1>2. mech = "PLAIN" => "CRAM-MD5" \in NamesTheUser
  BY LibraryFacts DEF NamesTheUser
<1> QED
  BY <1>1, <1>2 DEF Fair

\* A line with one mechanism on it is fair if the mechanism is.
LEMMA FairWrite ==
    ASSUME toServer = <<>>, NEW kind \in ToServerKinds, NEW layer \in BOOLEAN,
           toServer' = Append(toServer, Msg(kind, layer)),
           kind \in Mechs => /\ client'.offered = server'.offered
                             /\ Fair(kind, server'.offered, server'.refused, NamesTheUser')
    PROVE  FairInv'
<1>1. PICK m \in ToServerMsgs : m = Msg(kind, layer) /\ m.kind = kind
  BY MsgFacts
<1>2. toServer' = <<m>>
  BY <1>1, Grown
<1>3. Len(toServer') = 1 /\ toServer'[1] = m
  BY <1>2
<1>4. \A i \in 1 .. Len(toServer') : toServer'[i].kind = kind
  BY <1>1, <1>3
<1>5. \A i \in 1 .. Len(toServer') :
        toServer'[i].kind \in Mechs =>
            /\ client'.offered = server'.offered
            /\ Fair(toServer'[i].kind, server'.offered, server'.refused, NamesTheUser')
  BY <1>4, Zenon
<1> QED
  BY <1>5, Zenon DEF FairInv

\* A line that nobody touches stays fair.
LEMMA FairSame ==
    ASSUME FairInv, toServer' = toServer, config' = config, client'.offered = client.offered,
           server'.offered = server.offered, server'.refused = server.refused
    PROVE  FairInv'
<1>1. \A i \in 1 .. Len(toServer') :
        toServer'[i].kind \in Mechs =>
            /\ client'.offered = server'.offered
            /\ Fair(toServer'[i].kind, server'.offered, server'.refused, NamesTheUser')
  BY NamesSame, Zenon DEF FairInv
<1> QED
  BY <1>1, Zenon DEF FairInv

\* An empty line is fair.
LEMMA FairEmpty ==
    ASSUME toServer' = <<>>
    PROVE  FairInv'
<1>1. Len(toServer') = 0
  BY EmptySeq
<1>2. \A i \in 1 .. Len(toServer') : FALSE
  BY <1>1
<1>3. \A i \in 1 .. Len(toServer') :
        toServer'[i].kind \in Mechs =>
            /\ client'.offered = server'.offered
            /\ Fair(toServer'[i].kind, server'.offered, server'.refused, NamesTheUser')
  BY <1>2, Zenon
<1> QED
  BY <1>3, Zenon DEF FairInv

\* The next mechanism of the list is tried, or SASL, or the client gives up.
LEMMA NextMechFair ==
    ASSUME TypeInv, FairInv, server' = server, config' = config, toServer = <<>>,
           NEW offered \in SUBSET Mechs, offered = server.offered,
           client.offered = offered \/ client.pc # "challenge",
           NEW list \in Seq(Mechs), list = SelectMechs(offered), NEW k \in 0 .. Len(list),
           \A j \in 1 .. k : list[j] \in server.refused,
           NEW tries, tries = SubSeq(list, k + 1, Len(list)),
           NEW err \in AuthErrors, NextMech(offered, tries, err)
    PROVE  TriedInv' /\ FairInv'
<1>0. Len(list) \in Nat /\ k \in Nat /\ client.layer \in BOOLEAN
  BY DEF TypeInv, ClientType
<1>1. tries \in Seq(Mechs)
  <2>1. \A i \in k + 1 .. Len(list) : list[i] \in Mechs
    BY <1>0, ElementOfSeq
  <2>2. k + 1 \in Int /\ Len(list) \in Int
    BY <1>0
  <2> QED
    BY <2>1, <2>2, SubSeqProperties
<1>2. CASE /\ tries # <<>> /\ Head(tries) \in Mechs /\ Tail(tries) \in Seq(Mechs)
           /\ TryMech(offered, Head(tries), "challenge", Tail(tries))
  <2>1. PICK mech, rest : mech = Head(tries) /\ rest = Tail(tries)
    OBVIOUS
  <2>2. mech \in Mechs /\ rest \in Seq(Mechs) /\ TryMech(offered, mech, "challenge", rest)
    BY <1>2, <2>1, Zenon
  <2>3. /\ client'.pc = "challenge" /\ client'.mech = mech /\ client'.tries = rest
        /\ client'.offered = offered /\ toServer' = Append(toServer, Msg(mech, client.layer))
    BY <2>2, TryEffect DEF ExchangePcs
  <2>4. k < Len(list)
    <3>1. k = Len(list) => tries = <<>>
      BY LeftToTry
    <3> QED
      BY <1>0, <1>2, <3>1
  <2>5. /\ mech = list[k + 1] /\ k + 1 \in 1 .. Len(list)
        /\ rest = SubSeq(list, k + 2, Len(list))
    BY <2>1, <2>4, LeftToTry
  <2>6. PICK n \in 1 .. Len(list) : n = k + 1
    BY <2>5
  <2>7. n + 1 = k + 2 /\ n - 1 = k
    BY <1>0, <2>6
  <2>8. client'.mech = list[n] /\ client'.tries = SubSeq(list, n + 1, Len(list))
    BY <2>3, <2>5, <2>6, <2>7
  <2>9. \A j \in 1 .. n - 1 : list[j] \in server.refused
    BY <2>7
  <2>10. TriedInv'
    BY <2>3, <2>8, <2>9, TriedFrom
  <2>11. Fair(list[n], offered, server.refused, NamesTheUser)
    BY <2>9, ListFair DEF TypeInv
  <2>12. FairInv'
    <3>1. mech \in ToServerKinds
      BY <2>2 DEF ToServerKinds
    <3>2. /\ client'.offered = server'.offered
          /\ Fair(mech, server'.offered, server'.refused, NamesTheUser')
      BY <2>3, <2>5, <2>6, <2>11, NamesSame, Zenon
    <3> QED
      BY <1>0, <2>3, <3>1, <3>2, FairWrite
  <2> QED
    BY <2>10, <2>12
<1>3. ASSUME tries = <<>>
      PROVE  \A j \in 1 .. Len(list) : list[j] \in server.refused
  <2>1. ~(k < Len(list))
    BY <1>3, LeftToTry
  <2>2. k = Len(list)
    BY <1>0, <2>1
  <2> QED
    BY <2>2
<1>4. CASE tries = <<>> /\ \E mech \in LibraryMechs(offered) : TryMech(offered, mech, "sasl", <<>>)
  <2>1. PICK mech \in LibraryMechs(offered) : TryMech(offered, mech, "sasl", <<>>)
    BY <1>4
  <2>2. mech \in Mechs /\ <<>> \in Seq(Mechs)
    BY LibraryFacts, EmptySeq
  <2>3. /\ client'.pc = "sasl" /\ client'.offered = offered
        /\ toServer' = Append(toServer, Msg(mech, client.layer))
    BY <2>1, <2>2, TryEffect DEF ExchangePcs
  <2>4. TriedInv'
    BY <2>3 DEF TriedInv
  <2>5. Fair(mech, offered, server.refused, NamesTheUser)
    BY <1>3, <1>4, LibraryFair DEF TypeInv
  <2>6. mech \in ToServerKinds
    BY <2>2 DEF ToServerKinds
  <2>7. /\ client'.offered = server'.offered
        /\ Fair(mech, server'.offered, server'.refused, NamesTheUser')
    BY <2>3, <2>5, NamesSame, Zenon
  <2>8. FairInv'
    BY <1>0, <2>3, <2>6, <2>7, FairWrite
  <2> QED
    BY <2>4, <2>8
<1>5. CASE \E e \in AuthErrors : Fails(e)
  <2>1. PICK e \in AuthErrors : Fails(e)
    BY <1>5
  <2>2. client'.pc \in {"gone", "ready"} /\ toServer' = <<>>
    BY <2>1, FailsEffect DEF Results
  <2>3. TriedInv'
    BY <2>2 DEF TriedInv
  <2> QED
    BY <2>2, <2>3, FairEmpty
<1> QED
  BY <1>1, <1>2, <1>4, <1>5, NextMechCases


\* A failure writes nothing and ends the exchange.
LEMMA FailsFair ==
    ASSUME TypeInv, TriedInv, FairInv, server' = server, config' = config,
           NEW result \in Results, Fails(result)
    PROVE  TriedInv' /\ FairInv'
<1>1. client'.pc \in {"gone", "ready"} /\ toServer' = toServer /\ client'.offered = client.offered
  BY FailsEffect
<1> QED
  BY <1>1, TriedSame, FairSame

\* The end of an exchange writes nothing.
LEMMA AuthenticatedFair ==
    ASSUME TypeInv, TriedInv, server' = server, config' = config, toServer = <<>>, Authenticated
    PROVE  TriedInv' /\ FairInv'
<1>1. PICK c : c = Resume(client)
  OBVIOUS
<1>2. client' = c /\ toServer' = <<>>
  BY <1>1, Zenon DEF Authenticated
<1>3. client'.pc # "challenge"
  BY <1>1, <1>2, ResumeEffect
<1> QED
  BY <1>2, <1>3, TriedSame, FairEmpty

\* The client does not write on a line that still holds something, and what it
\* writes is no mechanism.
LEMMA OtherWrite ==
    ASSUME TypeInv, TriedInv, server' = server, config' = config, toServer = <<>>,
           NEW kind \in {"response", "reply", "command"}, Write(kind),
           client' = client \/ client'.pc # "challenge"
    PROVE  TriedInv' /\ FairInv'
<1>1. kind \in ToServerKinds /\ kind \notin Mechs /\ client.layer \in BOOLEAN
  BY DEF ToServerKinds, Mechs, TypeInv, ClientType
<1>2. toServer' = Append(toServer, Msg(kind, client.layer))
  BY DEF Write
<1> QED
  BY <1>1, <1>2, TriedSame, FairWrite

\* A request for authentication starts with the first mechanism of the list.
LEMMA ReadAuthRequestFair ==
    ASSUME TypeInv, StepInv, TriedInv, FairInv, server' = server, config' = config, ReadAuthRequest
    PROVE  TriedInv' /\ FairInv'
<1>0. client.pc = "authrequest" /\ buf # <<>>
  BY DEF ReadAuthRequest
<1>1. PICK offered : offered = Head(buf).mechs
  OBVIOUS
<1>2. offered \in SUBSET Mechs
  BY <1>0, <1>1, TookEffect DEF ReadAuthRequest, ToClientMsgs, Messages
<1>3. toServer = <<>>
  BY <1>0, AuthArrives, AtEmpty
<1>4. CASE Authenticated
  BY <1>3, <1>4, AuthenticatedFair
<1>5. CASE Otherwise({"auth"})
  BY <1>5, OtherwiseFails, FailsFair
<1>6. CASE Item = "auth" /\ offered # {} /\ NextMech(offered, SelectMechs(offered), "unavailable")
  <2>1. offered = server.offered
    <3>1. Item # "failure"
      BY <1>6
    <3> QED
      BY <1>0, <1>1, <1>6, <3>1, AuthArrives
  <2>2. PICK list : list = SelectMechs(offered)
    OBVIOUS
  <2>3. list \in Seq(Mechs) /\ "unavailable" \in AuthErrors
    BY <1>2, <2>2, SelectFacts DEF TypeInv, AuthErrors
  <2>4. list = SubSeq(list, 1, Len(list))
    BY <2>3, SubSeqFull
  <2>5. PICK k : k = 0
    OBVIOUS
  <2>6. /\ k \in 0 .. Len(list) /\ list = SubSeq(list, k + 1, Len(list))
        /\ \A j \in 1 .. k : list[j] \in server.refused
    BY <2>3, <2>4, <2>5
  <2>7. NextMech(offered, list, "unavailable")
    BY <1>6, <2>2, Zenon
  <2> QED
    BY <1>0, <1>2, <1>3, <2>1, <2>2, <2>3, <2>6, <2>7, NextMechFair
<1> QED
  BY <1>1, <1>4, <1>5, <1>6, Zenon DEF ReadAuthRequest

\* An answer to a built-in mechanism leads to the next one of the list.
LEMMA ReadChallengeFair ==
    ASSUME TypeInv, StepInv, TriedInv, FairInv, server' = server, config' = config, ReadChallenge
    PROVE  TriedInv' /\ FairInv'
<1>0. client.pc = "challenge" /\ buf # <<>>
  BY DEF ReadChallenge
<1>1. Exchange /\ toServer = <<>>
  BY <1>0, AnswerArrives, AtEmpty DEF Refused, Challenged, Puzzled, Accepted
<1>2. CASE Write("reply") /\ UNCHANGED <<client, results>>
  BY <1>1, <1>2, OtherWrite
<1>3. CASE Authenticated
  BY <1>1, <1>3, AuthenticatedFair
<1>4. CASE Fails("protocol")
  BY <1>4, FailsFair DEF Results
<1>5. CASE Item = "failure" /\ NextMech(client.offered, client.tries, "failed")
  <2>1. client.mech \in server.refused
    BY <1>0, <1>5, AnswerArrives DEF Refused
  <2>2. PICK offered \in SUBSET Mechs, list \in Seq(Mechs) :
           /\ offered = client.offered /\ list = SelectMechs(offered)
           /\ \E k \in 1 .. Len(list) :
                /\ client.mech = list[k]
                /\ client.tries = SubSeq(list, k + 1, Len(list))
                /\ \A j \in 1 .. k - 1 : list[j] \in server.refused
    BY <1>0 DEF TriedInv
  <2>3. PICK k \in 1 .. Len(list) :
                /\ client.mech = list[k]
                /\ client.tries = SubSeq(list, k + 1, Len(list))
                /\ \A j \in 1 .. k - 1 : list[j] \in server.refused
    BY <2>2
  <2>4. \A j \in 1 .. k : list[j] \in server.refused
    <3>1. \A j \in 1 .. k : j \in 1 .. k - 1 \/ j = k
      BY <2>2
    <3> QED
      BY <2>1, <2>3, <3>1, Zenon
  <2>5. PICK tries : tries = client.tries
    OBVIOUS
  <2>6. NextMech(offered, tries, "failed")
    BY <1>5, <2>2, <2>5, Zenon
  <2>7. offered = server.offered /\ client.offered = offered
    BY <1>1, <2>2 DEF Exchange
  <2>8. k \in 0 .. Len(list) /\ tries = SubSeq(list, k + 1, Len(list)) /\ list = SelectMechs(offered)
    BY <2>2, <2>3, <2>5
  <2>9. "failed" \in AuthErrors
    BY DEF AuthErrors
  <2> QED
    BY <1>1, <2>4, <2>6, <2>7, <2>8, <2>9, NextMechFair
<1> QED
  BY <1>2, <1>3, <1>4, <1>5 DEF ReadChallenge

\* An answer to a mechanism of SASL leads to no other mechanism.
LEMMA ReadSaslFair ==
    ASSUME TypeInv, StepInv, TriedInv, FairInv, server' = server, config' = config, ReadSasl
    PROVE  TriedInv' /\ FairInv'
<1>0. client.pc = "sasl" /\ buf # <<>>
  BY DEF ReadSasl
<1>1. toServer = <<>>
  BY <1>0, AnswerArrives, AtEmpty DEF Refused, Challenged, Puzzled, Accepted
<1>2. CASE SaslStep
  <2>1. client'.pc = client.pc
    <3>1. client' = [client EXCEPT !.more = client.mech = "DIGEST-MD5"]
      BY <1>2, Zenon DEF SaslStep
    <3> QED
      BY <3>1 DEF TypeInv, ClientType
  <2>2. Write("reply") /\ client'.pc # "challenge"
    BY <1>0, <1>2, <2>1 DEF SaslStep
  <2> QED
    BY <1>1, <2>2, OtherWrite
<1>3. CASE SaslDone
  <2>1. client'.pc # "challenge" /\ toServer' = <<>>
    BY <1>0, <1>1, <1>3, SaslDoneEffect
  <2> QED
    BY <2>1, TriedSame, FairEmpty
<1>4. CASE Fails("failed") \/ Fails("protocol")
  BY <1>4, FailsFair DEF Results, AuthErrors
<1> QED
  BY <1>2, <1>3, <1>4 DEF ReadSasl, SaslGivesUp

\* The client writes only mechanisms that are fair.
LEMMA ClientFair ==
    ASSUME TypeInv, StepInv, TriedInv, FairInv, Progress \/ SendCommand
    PROVE  TriedInv' /\ FairInv'
<1>0. server' = server /\ config' = config
  BY ClientKeeps
<1>1. CASE Fill
  BY <1>0, <1>1, TriedSame, FairSame DEF Fill
<1>2. CASE ReadGreeting
  <2>1. CASE Write("response") /\ client' = [client EXCEPT !.pc = "authrequest"]
    <3>1. client'.pc # "challenge"
      BY <2>1 DEF TypeInv, ClientType
    <3>2. toServer = <<>>
      BY <1>2, GreetingArrives, AtEmpty DEF ReadGreeting
    <3> QED
      BY <1>0, <2>1, <3>1, <3>2, OtherWrite
  <2>2. CASE Otherwise({"greeting"})
    BY <1>0, <2>2, OtherwiseFails, FailsFair
  <2> QED
    BY <1>2, <2>1, <2>2 DEF ReadGreeting
<1>3. CASE ReadReposInfo
  <2>1. CASE UNCHANGED toServer /\ client' = [client EXCEPT !.pc = "ready", !.session = TRUE]
    <3>1. client'.pc # "challenge" /\ client'.offered = client.offered
      BY <2>1 DEF TypeInv, ClientType
    <3> QED
      BY <1>0, <2>1, <3>1, TriedSame, FairSame
  <2>2. CASE Otherwise({"reposinfo"})
    BY <1>0, <2>2, OtherwiseFails, FailsFair
  <2> QED
    BY <1>3, <2>1, <2>2 DEF ReadReposInfo
<1>4. CASE ReadResponse
  <2>1. CASE UNCHANGED toServer /\ client' = [client EXCEPT !.pc = "ready"]
    <3>1. client'.pc # "challenge" /\ client'.offered = client.offered
      BY <2>1 DEF TypeInv, ClientType
    <3> QED
      BY <1>0, <2>1, <3>1, TriedSame, FairSame
  <2>2. CASE Otherwise({"success"})
    BY <1>0, <2>2, OtherwiseFails, FailsFair
  <2> QED
    BY <1>4, <2>1, <2>2 DEF ReadResponse
<1>5. CASE ReadEof \/ ReadTimeout
  <2>1. \E result \in Results : Fails(result)
    BY <1>5 DEF ReadEof, ReadTimeout, Results
  <2> QED
    BY <1>0, <2>1, FailsFair
<1>6. CASE SendCommand
  <2>1. client'.pc # "challenge" /\ Write("command")
    BY <1>6, SendCommandEffect DEF SendCommand
  <2>2. toServer = <<>>
    BY <1>6, PlaceOf, AtEmpty DEF SendCommand, Shut, Resting
  <2> QED
    BY <1>0, <2>1, <2>2, OtherWrite
<1> QED
  BY <1>0, <1>1, <1>2, <1>3, <1>4, <1>5, <1>6, ReadAuthRequestFair, ReadChallengeFair,
     ReadSaslFair DEF Progress

\* The server forgets what it has refused only when it reads a command.
LEMMA ServerRefused ==
    ASSUME TypeInv, StepInv,
           Greet \/ ReadClientResponse \/ ReadCommand \/ ReadMech \/ ReadReply \/ Close
    PROVE  client.pc = "challenge" => server.refused \subseteq server'.refused
<1>1. CASE Greet
  BY <1>1, GreetEffect
<1>2. CASE ReadClientResponse
  <2>1. server'.refused = server.refused
    BY <1>2, ReadClientResponseEffect
  <2> QED
    BY <2>1
<1>3. CASE ReadCommand
  <2>1. Read({"command"})
    BY <1>3 DEF ReadCommand
  <2>2. toServer # <<>> /\ server.pc = "command"
    BY <1>3, <2>1, ReadEffect DEF ReadCommand
  <2>3. Commanding \/ Gone
    BY <2>2, WhoWrote
  <2> QED
    BY <2>3 DEF Commanding, Gone
<1>4. CASE ReadMech
  <2>1. PICK mech \in Mechs \cup {"command"} :
           \/ Refuse(mech)
           \/ Accept(mech)
           \/ Says(<<"step">>) /\ server' = [server EXCEPT !.odd = TRUE]
           \/ /\ mech \in server.offered \cap TwoSteps /\ Says(<<"step">>)
              /\ server' = [server EXCEPT !.pc = "reply", !.mech = mech]
    BY <1>4, ReadMechCases, Zenon
  <2>2. mech \in ToServerKinds /\ (mech \in TwoSteps => mech \in Mechs)
    BY DEF ToServerKinds, TwoSteps, Mechs
  <2>3. server'.refused = server.refused \/ server'.refused = server.refused \cup {mech}
    BY <2>1, <2>2, RefuseEffect, AcceptEffect, PuzzleEffect, AskEffect
  <2> QED
    BY <2>3
<1>5. CASE ReadReply
  <2>1. PICK mech : mech = server.mech
    OBVIOUS
  <2>2. mech \in ToServerKinds
    BY <1>5, <2>1, ReplyCases
  <2>3. Accept(mech) \/ Refuse(mech) \/ server' = [server EXCEPT !.pc = "closed"]
    BY <1>5, <2>1, ReplyCases
  <2>4. server'.refused = server.refused \/ server'.refused = server.refused \cup {mech}
    BY <2>2, <2>3, AcceptEffect, RefuseEffect, HangUpEffect
  <2> QED
    BY <2>4
<1>6. CASE Close
  BY <1>6, CloseEffect
<1> QED
  BY <1>1, <1>2, <1>3, <1>4, <1>5, <1>6

\* Every step keeps what is under way fair, and the list in order.
LEMMA FairStep == TypeInv /\ StepInv /\ TriedInv /\ FairInv /\ [Next]_vars => TriedInv' /\ FairInv'
<1> SUFFICES ASSUME TypeInv, StepInv, TriedInv, FairInv, [Next]_vars PROVE TriedInv' /\ FairInv'
  OBVIOUS
<1>1. CASE UNCHANGED vars
  BY <1>1, TriedSame, FairSame DEF vars
<1>2. CASE Progress \/ SendCommand
  BY <1>2, ClientFair
<1>3. CASE Greet \/ ReadClientResponse \/ ReadCommand \/ ReadMech \/ ReadReply \/ Close
  <2>1. TriedInv'
    BY <1>3, ServerOdd, ServerRefused, TriedSame
  <2>2. FairInv'
    <3>1. CASE Greet
      BY <3>1, GreetEffect, FairSame
    <3>2. CASE ReadClientResponse \/ ReadCommand \/ ReadMech \/ ReadReply
      <4>1. \E kinds : Read(kinds)
        BY <3>2, Zenon DEF ReadClientResponse, ReadCommand, ReadMech, ReadReply
      <4> QED
        BY <4>1, WireEmptied, FairEmpty
    <3>3. CASE Close
      BY <3>3, CloseEffect, FairEmpty
    <3> QED
      BY <1>3, <3>1, <3>2, <3>3
  <2> QED
    BY <2>1, <2>2
<1> QED
  BY <1>1, <1>2, <1>3 DEF Next

\* A client is not taken as anonymous before the mechanisms that name the user have
\* been refused: ANONYMOUS would not have been fair.
LEMMA AnonymousStep == TypeInv /\ FairInv /\ AnonymousLast /\ [Next]_vars => AnonymousLast'
<1> SUFFICES ASSUME TypeInv, FairInv, AnonymousLast, [Next]_vars PROVE AnonymousLast'
  OBVIOUS
<1>1. CASE Progress \/ SendCommand \/ UNCHANGED vars
  BY <1>1, ClientKeeps, NamesSame DEF AnonymousLast, vars
<1>2. CASE Greet
  BY <1>2, GreetEffect DEF AnonymousLast
<1>3. CASE ReadClientResponse
  <2>1. server'.pc # "command" \/ server'.offered = {}
    BY <1>3, ReadClientResponseEffect
  <2> QED
    BY <2>1 DEF AnonymousLast
<1>4. CASE ReadCommand
  <2>1. server'.pc # "command" \/ server'.offered = {}
    BY <1>4, ReadCommandEffect
  <2> QED
    BY <2>1 DEF AnonymousLast
<1>5. CASE ReadMech
  <2>1. PICK mech \in Mechs \cup {"command"} :
           /\ server.pc = "mech" /\ toServer # <<>> /\ Head(toServer).kind = mech
           /\ \/ Refuse(mech)
              \/ mech \in server.offered /\ Accept(mech)
              \/ Says(<<"step">>) /\ server' = [server EXCEPT !.odd = TRUE]
              \/ /\ mech \in server.offered \cap TwoSteps /\ Says(<<"step">>)
                 /\ server' = [server EXCEPT !.pc = "reply", !.mech = mech]
    BY <1>5, ReadMechCases, Zenon
  <2>2. mech \in ToServerKinds /\ (mech \in TwoSteps => mech \in Mechs)
    BY DEF ToServerKinds, TwoSteps, Mechs
  <2>3. CASE mech \in server.offered /\ Accept(mech)
    <3>1. /\ server'.user = IF mech = "ANONYMOUS" THEN "anonymous" ELSE "user"
          /\ server'.offered = server.offered /\ server'.refused = server.refused
      BY <2>3, AcceptEffect
    <3>2. mech \in Mechs
      BY <2>3 DEF TypeInv, ServerType
    <3>3. Len(toServer) \in Nat /\ Len(toServer) # 0 /\ Head(toServer) = toServer[1]
      BY <2>1, EmptySeq DEF TypeInv
    <3>4. toServer[1].kind = mech /\ 1 \in 1 .. Len(toServer)
      BY <2>1, <3>3
    <3>5. Fair(mech, server.offered, server.refused, NamesTheUser)
      BY <3>2, <3>4 DEF FairInv
    <3>6. config' = config
      BY <1>5, ServerOdd
    <3> QED
      BY <3>1, <3>5, <3>6, NamesSame DEF Fair, AnonymousLast
  <2>4. CASE ~Accept(mech)
    <3>1. server'.pc # "command"
      BY <2>1, <2>2, <2>4, RefuseEffect, PuzzleEffect, AskEffect
    <3> QED
      BY <3>1 DEF AnonymousLast
  <2> QED
    BY <2>1, <2>2, <2>3, <2>4, RefuseEffect, PuzzleEffect, AskEffect DEF AnonymousLast
<1>6. CASE ReadReply
  <2>1. PICK mech : mech = server.mech
    OBVIOUS
  <2>2. mech \in ToServerKinds /\ mech # "ANONYMOUS"
    BY <1>6, <2>1, ReplyCases DEF TwoSteps
  <2>3. Accept(mech) \/ Refuse(mech) \/ server' = [server EXCEPT !.pc = "closed"]
    BY <1>6, <2>1, ReplyCases
  <2>4. server'.user # "anonymous" \/ server'.pc # "command"
    BY <2>2, <2>3, AcceptEffect, RefuseEffect, HangUpEffect
  <2> QED
    BY <2>4 DEF AnonymousLast
<1>7. CASE Close
  BY <1>7, CloseEffect DEF AnonymousLast
<1> QED
  BY <1>1, <1>2, <1>3, <1>4, <1>5, <1>6, <1>7 DEF Next


-----------------------------------------------------------------------------
(* The inductive invariant.                                                *)

IInv ==
    /\ TypeInv /\ StepInv /\ LayerInv /\ OddInv
    /\ TriedInv /\ FairInv /\ AnonymousLast

\* The inductive invariant holds at first.
LEMMA InitInv == Init => IInv
<1> SUFFICES ASSUME Init PROVE IInv
  OBVIOUS
<1>1. TypeInv
  BY TypeInit
<1>2. /\ client.pc = "greeting" /\ ~client.session /\ ~client.layer
      /\ server.pc = "greet" /\ ~server.session /\ ~server.layer /\ ~server.odd
      /\ server.user = NoMech /\ toServer = <<>> /\ toClient = <<>> /\ buf = <<>>
      /\ results = <<>>
  BY DEF Init
<1>3. StepInv
  <2>1. NotGreeted
    BY <1>2 DEF NotGreeted, Bare, Silent, None, ServerAt, At
  <2> QED
    BY <2>1 DEF StepInv
<1>4. LayerInv
  BY <1>2 DEF LayerInv
<1>5. OddInv
  <2>1. DOMAIN results = {}
    BY <1>2
  <2> QED
    BY <2>1 DEF OddInv
<1>6. TriedInv
  BY <1>2 DEF TriedInv
<1>7. FairInv
  <2>1. Len(toServer) = 0
    BY <1>2, EmptySeq
  <2> QED
    BY <2>1 DEF FairInv
<1>8. AnonymousLast
  BY <1>2 DEF AnonymousLast
<1> QED
  BY <1>1, <1>3, <1>4, <1>5, <1>6, <1>7, <1>8 DEF IInv

\* The inductive invariant is kept by every step.
LEMMA InvStep == IInv /\ [Next]_vars => IInv'
BY TypeStep, StepStep, LayerStep, OddStep, FairStep, AnonymousStep DEF IInv

\* The inductive invariant holds in every state.
LEMMA Inductive == Spec => []IInv
<1> QED
  BY InitInv, InvStep, PTL DEF Spec

\* Whatever lists the server sends and however often it asks, the two sides
\* agree on what is said: the client never takes a message of a server that
\* follows the protocol for something else, decoded or not, and a connection
\* that goes back to its owner has the server waiting for a command under the
\* same layer, with nothing under way and nothing left in the buffer.
THEOREM Agreement == Spec => []InStep
<1>1. IInv => InStep
  <2> SUFFICES ASSUME IInv PROVE InStep
    OBVIOUS
  <2>1. TypeInv /\ StepInv /\ OddInv /\ TriedInv
    BY DEF IInv
  <2>2. TypeOK
    <3>1. /\ toServer \in Seq(Messages(ToServerKinds))
          /\ toClient \in Seq(Messages(ToClientKinds)) /\ buf \in Seq(Messages(ToClientKinds))
      BY <2>1 DEF TypeInv, ToServerMsgs, ToClientMsgs
    <3>2. config \in Configs /\ client.offered \subseteq Mechs /\ server.offered \subseteq Mechs
      BY <2>1 DEF TypeInv, ClientType, ServerType
    <3>3. client.pc = "challenge" => ToSet(client.tries) \subseteq client.offered
      <4> SUFFICES ASSUME client.pc = "challenge" PROVE ToSet(client.tries) \subseteq client.offered
        OBVIOUS
      <4>1. \A i \in 1 .. Len(client.tries) : client.tries[i] \in client.offered
        BY <2>1, TriesOffered
      <4>2. client.tries \in Seq(Mechs)
        BY <2>1 DEF TypeInv, ClientType
      <4>3. DOMAIN client.tries = 1 .. Len(client.tries)
        BY <4>2
      <4> QED
        BY <4>1, <4>3, Zenon DEF ToSet
    <3>4. \A i \in DOMAIN results : results[i] \in Results
      BY <2>1 DEF TypeInv
    <3> QED
      BY <3>1, <3>2, <3>3, <3>4 DEF TypeOK, Results
  <2>3. NeverMisread
    BY <2>1 DEF OddInv, NeverMisread
  <2>4. AtRestTogether
    <3> SUFFICES ASSUME client.pc = "ready", ~AuthRefused, server.pc # "closed"
                 PROVE  /\ server.pc = "command" /\ client.layer = server.layer
                        /\ toServer = <<>> /\ toClient = <<>> /\ buf = <<>>
      BY DEF AtRestTogether
    <3>1. Resting
      BY <2>1, PlaceOf DEF Shut
    <3> QED
      BY <3>1, AtEmpty DEF Resting, Silent, None, Alike
  <2> QED
    BY <2>2, <2>3, <2>4 DEF InStep
<1> QED
  BY <1>1, Inductive, PTL

\* Whatever the server offers and refuses, over all the requests of a
\* connection, PLAIN is written only where CRAM-MD5 cannot be used any more, and
\* a client becomes anonymous only where every built-in mechanism that the server
\* offers and by which the client can say who the user is was refused.
THEOREM StrongestFirst == Spec => []WeakestLast
<1>1. IInv => WeakestLast
  <2> SUFFICES ASSUME IInv PROVE WeakestLast
    OBVIOUS
  <2>1. TypeInv /\ FairInv /\ AnonymousLast
    BY DEF IInv
  <2>2. DOMAIN toServer = 1 .. Len(toServer)
    BY <2>1 DEF TypeInv
  <2>3. PasswordLast
    <3>1. "PLAIN" \in Mechs
      BY DEF Mechs
    <3> QED
      BY <2>1, <2>2, <3>1, Zenon DEF FairInv, Fair, PasswordLast
  <2> QED
    BY <2>1, <2>3 DEF WeakestLast
<1> QED
  BY <1>1, Inductive, PTL

\* A layer is on only where the user is known, and it is off as long as the
\* server asks, waits for a mechanism or for a reply: whoever has a layer is not
\* asked again.
THEOREM LayerOfAUser == Spec => []LayerInv
<1>1. IInv => LayerInv
  BY DEF IInv
<1> QED
  BY <1>1, Inductive, PTL

==============================================================================
