---------------------------- MODULE LengthProofs ----------------------------
(***************************************************************************)
(* Proofs about the three Content-Length body parsers, for every stream,   *)
(* every declared value and every machine word.                            *)
(***************************************************************************)
EXTENDS LengthParsers, CodingLemmas

Inv == TypeOK /\ NeverBeyondTheBody /\ SplitExact

-----------------------------------------------------------------------------
LEMMA Lengths ==
  ASSUME TypeOK
  PROVE  /\ input \in Seq(STRING) /\ Len(input) \in Nat /\ pos \in Nat
         /\ body \in Seq(STRING) /\ Len(body) \in Nat
         /\ surplus \in Seq(STRING) /\ Len(surplus) \in Nat
         /\ expected \in Nat /\ pos <= Len(input)
         /\ <<>> \in Seq(STRING) /\ Len(<<>>) = 0
<1>1. /\ input \in Seq(STRING) /\ body \in Seq(STRING) /\ surplus \in Seq(STRING)
      /\ <<>> \in Seq(STRING) /\ Len(<<>>) = 0
  BY InputAssumption, EmptySeq DEF TypeOK
<1>2. Len(input) \in Nat /\ Len(body) \in Nat /\ Len(surplus) \in Nat
  BY <1>1, LenProperties
<1>3. expected \in Nat
  BY SizeMaxAssumption DEF TypeOK, Size
<1> QED BY <1>1, <1>2, <1>3 DEF TypeOK

\* The pieces of a call of k bytes of which t are taken.
LEMMA Pieces ==
  ASSUME TypeOK, NEW k \in Calls, NEW t \in 0 .. k
  PROVE  /\ pos + t \in 0 .. Len(input) /\ pos + k \in 0 .. Len(input)
         /\ Bytes(1, t) \in Seq(STRING) /\ Len(Bytes(1, t)) = t
         /\ Bytes(t + 1, k) \in Seq(STRING)
         /\ t = k => Bytes(t + 1, k) = <<>>
         /\ SubSeq(input, 1, pos) \o Bytes(1, t) = SubSeq(input, 1, pos + t)
         /\ SubSeq(input, 1, pos + t) \o Bytes(t + 1, k) = SubSeq(input, 1, pos + k)
<1>1. /\ pos + t \in 0 .. Len(input) /\ pos + k \in 0 .. Len(input) /\ pos \in Nat
      /\ pos + 1 \in Nat \ {0} /\ pos + (t + 1) \in Nat \ {0} /\ t \in Nat /\ k \in Nat
      /\ pos + (t + 1) = (pos + t) + 1 /\ input \in Seq(STRING)
      /\ pos \in 0 .. pos + t /\ pos + t \in 0 .. pos + k
      /\ 1 \in 1 .. pos + 1 /\ 1 \in 1 .. (pos + t) + 1
  BY Lengths DEF Calls
<1>2. /\ SubSeq(input, pos + 1, pos + t) \in Seq(STRING)
      /\ Len(SubSeq(input, pos + 1, pos + t)) =
           IF pos + 1 <= pos + t THEN pos + t - (pos + 1) + 1 ELSE 0
  BY ONLY <1>1, WindowType
<1>3. SubSeq(input, pos + (t + 1), pos + k) \in Seq(STRING)
  BY ONLY <1>1, WindowType
<1>4. t = k => SubSeq(input, pos + (t + 1), pos + k) = <<>>
  BY <1>1, SubSeqEmpty
<1>5. SubSeq(input, 1, pos) \o SubSeq(input, pos + 1, pos + t) = SubSeq(input, 1, pos + t)
  BY ONLY <1>1, WindowsJoin
<1>6. SubSeq(input, 1, pos + t) \o SubSeq(input, (pos + t) + 1, pos + k)
        = SubSeq(input, 1, pos + k)
  BY ONLY <1>1, WindowsJoin
<1>7. Len(SubSeq(input, pos + 1, pos + t)) = t
  BY ONLY <1>1, <1>2
<1> QED BY <1>1, <1>2, <1>3, <1>4, <1>5, <1>6, <1>7 DEF Bytes

LEMMA Joined ==
  ASSUME NEW s \in Seq(STRING), NEW t \in Seq(STRING)
  PROVE  s \o t \in Seq(STRING) /\ Len(s \o t) = Len(s) + Len(t)
BY ConcatProperties

LEMMA Regroup ==
  ASSUME NEW s \in Seq(STRING), NEW t \in Seq(STRING), NEW u \in Seq(STRING)
  PROVE  s \o (t \o u) = (s \o t) \o u
BY ConcatAssociative

\* While no call has failed, SplitExact is about all the bytes handed in.
Whole ==
  /\ body \o surplus = SubSeq(input, 1, pos)
  /\ state = "incomplete" => surplus = <<>>
  /\ state = "complete" => Len(body) = expected

LEMMA WholeUntilFailure ==
  ASSUME Inv, rc = 0
  PROVE  Whole /\ Len(body) + Len(surplus) = pos
BY DEF Inv, SplitExact, Kept, Whole

\* Two pieces of a stream that make up its first n bytes are n bytes long.
LEMMA PiecesLength ==
  ASSUME NEW in \in Seq(STRING), NEW n \in 0 .. Len(in),
         NEW s \in Seq(STRING), NEW t \in Seq(STRING), s \o t = SubSeq(in, 1, n)
  PROVE  Len(s) + Len(t) = n
<1>1. n \in Nat /\ Len(SubSeq(in, 1, n)) = n
  BY WindowType, LenProperties
<1> QED BY <1>1, Joined

\* A call that takes its first t bytes for the body of an open message.
LEMMA TakenStep ==
  ASSUME Inv, rc = 0, state = "incomplete", NEW k \in Calls, NEW t \in 0 .. k,
         t <= Needed, UNCHANGED <<input, expected>>, pos' = pos + k,
         body' = body \o Bytes(1, t), surplus' = surplus \o Bytes(t + 1, k)
  PROVE  /\ body' \in Seq(STRING) /\ Len(body') = Len(body) + t /\ Len(body') <= expected
         /\ surplus' \in Seq(STRING) /\ (t = k => surplus' = <<>>)
         /\ body' \o surplus' = SubSeq(input, 1, pos + k)
<1>1. /\ body \in Seq(STRING) /\ Len(body) \in Nat /\ expected \in Nat
      /\ SubSeq(input, 1, pos) \in Seq(STRING)
  BY Lengths, WindowType DEF Inv
<1>2. surplus = <<>> /\ body = SubSeq(input, 1, pos)
  <2>1. surplus = <<>> /\ body \o surplus = SubSeq(input, 1, pos)
    BY WholeUntilFailure DEF Whole
  <2> QED BY <1>1, <2>1, ConcatEmptySeq
<1>3. surplus' = Bytes(t + 1, k)
  BY <1>2, Pieces, ConcatEmptySeq DEF Inv
<1>4. Len(body') = Len(body) + t /\ body' \in Seq(STRING)
  BY <1>1, Pieces, Joined DEF Inv
<1>5. body' = SubSeq(input, 1, pos + t)
  BY <1>2, Pieces DEF Inv
<1>6. Len(body') <= expected
  BY <1>1, <1>4 DEF Needed
<1> QED BY <1>3, <1>4, <1>5, <1>6, Pieces DEF Inv

\* A call behind the message: everything is kept.
LEMMA KeptStep ==
  ASSUME Inv, rc = 0, NEW k \in Calls, KeepAll(k)
  PROVE  /\ surplus' \in Seq(STRING)
         /\ body' \o surplus' = SubSeq(input, 1, pos + k)
<1>1. /\ body \in Seq(STRING) /\ surplus \in Seq(STRING)
      /\ Bytes(1, k) \in Seq(STRING) /\ k \in 0 .. k
      /\ SubSeq(input, 1, pos) \o Bytes(1, k) = SubSeq(input, 1, pos + k)
  <2>1. k \in 0 .. k
    BY Lengths DEF Calls, Inv
  <2> QED BY <2>1, Lengths, Pieces DEF Inv
<1>2. body \o (surplus \o Bytes(1, k)) = (body \o surplus) \o Bytes(1, k)
  BY ONLY <1>1, Regroup
<1> QED BY <1>1, <1>2, Joined, WholeUntilFailure DEF KeepAll, Whole

\* A call that fails between its two appends has filled the body.
LEMMA FilledStep ==
  ASSUME Inv, rc = 0, state = "incomplete", NEW k \in Calls, Needed < k,
         body' = body \o Bytes(1, Needed), UNCHANGED surplus
  PROVE  /\ surplus = <<>> /\ Len(body') = expected
         /\ body' \o surplus' = SubSeq(input, 1, Len(body') + Len(surplus'))
         /\ Len(body') + Len(surplus') > pos
<1>1. /\ body \in Seq(STRING) /\ Len(body) \in Nat /\ expected \in Nat /\ pos \in Nat
      /\ Len(<<>>) = 0 /\ k \in Nat
  BY Lengths DEF Inv, Calls
<1>2. surplus = <<>> /\ body = SubSeq(input, 1, pos) /\ Len(body) = pos
  <2>1. surplus = <<>> /\ body \o surplus = SubSeq(input, 1, pos)
        /\ Len(body) + Len(surplus) = pos
    BY WholeUntilFailure DEF Whole
  <2> QED BY <1>1, <2>1, ConcatEmptySeq
<1>3. Len(body) < expected
  BY DEF Inv, NeverBeyondTheBody
<1>4. Needed \in 0 .. k /\ Needed > 0 /\ pos + Needed = expected
  BY <1>1, <1>2, <1>3 DEF Needed
<1>5. /\ body' = SubSeq(input, 1, expected) /\ expected \in 0 .. Len(input)
  BY <1>2, <1>4, Pieces DEF Inv
<1>6. /\ body' \in Seq(STRING) /\ Len(body') = Len(body) + Needed
  <2>1. Bytes(1, Needed) \in Seq(STRING) /\ Len(Bytes(1, Needed)) = Needed
    BY <1>4, Pieces DEF Inv
  <2>2. body' = body \o Bytes(1, Needed)
    OBVIOUS
  <2> QED BY ONLY <1>1, <2>1, <2>2, Joined
<1>7. Len(body') = expected /\ Len(body') + Len(<<>>) = expected /\ expected > pos
  <2>1. Needed \in Nat
    BY ONLY <1>1, <1>4
  <2> QED BY ONLY <1>1, <1>2, <1>4, <1>6, <2>1
<1>8. body' \o <<>> = body'
  BY <1>6, ConcatEmptySeq
<1> QED BY <1>2, <1>5, <1>7, <1>8

-----------------------------------------------------------------------------
LEMMA InitInv == Init => Inv
<1> SUFFICES ASSUME Init PROVE Inv
  OBVIOUS
<1>1. /\ input \in Seq(STRING) /\ Len(input) \in Nat /\ pos = 0 /\ rc = 0
      /\ body = <<>> /\ surplus = <<>> /\ Len(body) = 0
      /\ body \in Seq(STRING) /\ body \o surplus = <<>> /\ SubSeq(input, 1, 0) = <<>>
  BY InputAssumption, EmptySeq, LenProperties, SubSeqEmpty, ConcatEmptySeq DEF Init
<1>2. /\ lang \in {"c", "go", "rust"} /\ expected \in Size
      /\ \/ state = "invalid"
         \/ state = "complete" /\ expected = 0
         \/ state = "incomplete" /\ expected > 0
  BY SizeMaxAssumption DEF Init, InitC, InitGo, InitRust, InitParser, Size, GoInt
<1> QED BY <1>1, <1>2, SizeMaxAssumption
        DEF Inv, TypeOK, NeverBeyondTheBody, SplitExact, Kept, Init, Size

LEMMA InvNext ==
  ASSUME Inv, NEW k \in Calls, FeedC(k) \/ FeedGo(k) \/ FeedRust(k) \/ NoMemoryC(k)
  PROVE  Inv'
<1> USE DEF Same
<1>0. /\ input \in Seq(STRING) /\ k \in Nat /\ pos + k \in 0 .. Len(input)
      /\ Len(body) \in Nat /\ expected \in Nat /\ Len(body) <= expected
      /\ Needed \in Nat
  BY Lengths DEF Calls, Inv, NeverBeyondTheBody, Needed
<1>1. ASSUME rc = 0, rc' = 0, pos' = pos + k, lang' = lang, UNCHANGED <<input, expected>>,
             state # "incomplete", KeepAll(k)
      PROVE  Inv'
  <2>1. surplus' \in Seq(STRING) /\ body' \o surplus' = SubSeq(input', 1, pos')
    BY <1>1, KeptStep
  <2>2. TypeOK' /\ NeverBeyondTheBody'
    BY <1>0, <1>1, <2>1 DEF Inv, TypeOK, NeverBeyondTheBody, KeepAll
  <2>3. Kept' = pos'
    <3>1. body' \in Seq(STRING) /\ input' = input
      BY <1>1, Lengths DEF KeepAll, Inv
    <3> QED BY <1>0, <1>1, <2>1, <3>1, PiecesLength DEF Kept
  <2>4. SplitExact'
    BY <1>1, <2>1, <2>3, WholeUntilFailure DEF SplitExact, Whole, KeepAll
  <2> QED BY <2>2, <2>4 DEF Inv
<1>2. ASSUME rc = 0, rc' = 0, pos' = pos + k, lang' = lang, UNCHANGED <<input, expected>>,
             state = "incomplete", NEW t \in 0 .. k, t <= Needed,
             t = k \/ t = Needed,
             body' = body \o Bytes(1, t), surplus' = surplus \o Bytes(t + 1, k),
             state' = IF Len(body') = expected THEN "complete" ELSE "incomplete"
      PROVE  Inv'
  <2>1. /\ body' \in Seq(STRING) /\ Len(body') = Len(body) + t /\ Len(body') <= expected
        /\ surplus' \in Seq(STRING) /\ (t = k => surplus' = <<>>)
        /\ body' \o surplus' = SubSeq(input', 1, pos')
    BY <1>2, TakenStep
  <2>2. Len(body') \in Nat
    BY <2>1, LenProperties
  <2>3. state' = "incomplete" => t = k /\ Len(body') < expected
    BY <1>0, <1>2, <2>1, <2>2 DEF Needed
  <2>4. TypeOK' /\ NeverBeyondTheBody'
    BY <1>0, <1>2, <2>1, <2>3 DEF Inv, TypeOK, NeverBeyondTheBody
  <2>5. Kept' = pos'
    BY <1>0, <1>2, <2>1, PiecesLength DEF Kept
  <2>6. SplitExact'
    BY <1>2, <2>1, <2>3, <2>5 DEF SplitExact
  <2> QED BY <2>4, <2>6 DEF Inv
<1>3. CASE FeedC(k)
  <2>1. CASE state # "incomplete"
    BY <1>1, <1>3, <2>1 DEF FeedC
  <2>2. CASE state = "incomplete"
    <3> DEFINE t == IF k < Needed THEN k ELSE Needed
    <3>1. t \in 0 .. k /\ t <= Needed /\ (t = k \/ t = Needed)
      BY <1>0
    <3>2. Split(k, t)
      BY <1>3, <2>2 DEF FeedC
    <3> HIDE DEF t
    <3> QED BY <1>2, <1>3, <2>2, <3>1, <3>2 DEF FeedC, Split
  <2> QED BY <2>1, <2>2
<1>4. CASE FeedGo(k)
  <2>0. rc = 0
    BY <1>4 DEF FeedGo, Inv, TypeOK
  <2>1. CASE state # "incomplete"
    BY <1>1, <1>4, <2>0, <2>1 DEF FeedGo
  <2>2. CASE state = "incomplete"
    <3> DEFINE t == IF k > Needed THEN Needed ELSE k
    <3>1. t \in 0 .. k /\ t <= Needed /\ (t = k \/ t = Needed)
      BY <1>0
    <3>2. Split(k, t)
      BY <1>4, <2>2 DEF FeedGo
    <3> HIDE DEF t
    <3> QED BY <1>2, <1>4, <2>0, <2>2, <3>1, <3>2 DEF FeedGo, Split
  <2> QED BY <2>1, <2>2
<1>5. CASE FeedRust(k)
  <2>0. rc = 0
    BY <1>5 DEF FeedRust, Inv, TypeOK
  <2>1. CASE state # "incomplete"
    BY <1>1, <1>5, <2>0, <2>1 DEF FeedRust
  <2>2. CASE state = "incomplete"
    <3> DEFINE t == Min({Needed, k})
    <3>1. t \in 0 .. k /\ t <= Needed /\ (t = k \/ t = Needed)
      BY <1>0, MinOfTwo
    <3> HIDE DEF t
    <3>2. body' = body \o Bytes(1, t)
      BY <1>5, <2>2 DEF FeedRust, t
    <3>3. Len(body') = Len(body) + t
      <4>1. /\ body \in Seq(STRING) /\ Bytes(1, t) \in Seq(STRING)
            /\ Len(Bytes(1, t)) = t
        BY <3>1, Pieces, Lengths DEF Inv
      <4> QED BY ONLY <3>2, <4>1, Joined
    <3>4. CASE Len(body') = expected
      <4>1. state' = "complete" /\ surplus' = surplus \o Bytes(t + 1, k)
        BY <1>5, <2>2, <3>4 DEF FeedRust, t
      <4> QED BY <1>2, <1>5, <2>0, <2>2, <3>1, <3>2, <3>4, <4>1 DEF FeedRust
    <3>5. CASE Len(body') # expected
      <4>1. state' = "incomplete" /\ surplus' = surplus
        BY <1>5, <2>2, <3>5 DEF FeedRust
      <4>2. t = k
        BY <1>0, <3>1, <3>3, <3>5 DEF Needed
      <4>3. surplus \o Bytes(t + 1, k) = surplus
        <5>1. Bytes(t + 1, k) = <<>> /\ surplus \in Seq(STRING)
          BY <3>1, <4>2, Pieces, Lengths DEF Inv
        <5> QED BY <5>1, ConcatEmptySeq
      <4> QED BY <1>2, <1>5, <2>0, <2>2, <3>1, <3>2, <3>5, <4>1, <4>3 DEF FeedRust
    <3> QED BY <3>4, <3>5
  <2> QED BY <2>1, <2>2
<1>6. CASE NoMemoryC(k)
  <2>1. body' \in Seq(STRING) /\ Len(body') <= expected
    <3>1. CASE body' = body
      BY <1>0, <3>1, Lengths DEF Inv
    <3>2. CASE body' = body \o Bytes(1, Needed) /\ Needed < k
      <4>1. Bytes(1, Needed) \in Seq(STRING) /\ Len(Bytes(1, Needed)) = Needed
        BY <1>0, <3>2, Pieces DEF Inv
      <4>2. body' \in Seq(STRING) /\ Len(body') = Len(body) + Needed
        <5>1. body \in Seq(STRING)
          BY Lengths DEF Inv
        <5> QED BY ONLY <3>2, <4>1, <5>1, Joined
      <4> QED BY <1>0, <4>2 DEF Needed
    <3> QED BY <1>6, <3>1, <3>2 DEF NoMemoryC
  <2>2. TypeOK'
    BY <1>6, <2>1 DEF NoMemoryC, Inv, TypeOK
  <2>3. SplitExact'
    <3>1. rc = 0 /\ UNCHANGED <<input, pos, state, surplus, expected>> /\ rc' = -1
      BY <1>6 DEF NoMemoryC
    <3>2. CASE body' = body
      BY <3>1, <3>2, WholeUntilFailure DEF SplitExact, Kept, Whole
    <3>3. CASE state = "incomplete" /\ Needed < k /\ body' = body \o Bytes(1, Needed)
      BY <3>1, <3>3, FilledStep DEF SplitExact, Kept
    <3> QED BY <1>6, <3>2, <3>3 DEF NoMemoryC
  <2> QED BY <1>6, <2>1, <2>2, <2>3 DEF NoMemoryC, Inv, NeverBeyondTheBody
<1> QED BY <1>3, <1>4, <1>5, <1>6

LEMMA InvStep == Inv /\ [Next]_vars => Inv'
<1> SUFFICES ASSUME Inv, [Next]_vars PROVE Inv'
  OBVIOUS
<1>1. CASE Next
  BY <1>1, InvNext DEF Next
<1>2. CASE UNCHANGED vars
  BY <1>2 DEF vars, Inv, TypeOK, NeverBeyondTheBody, SplitExact, Kept
<1> QED BY <1>1, <1>2

-----------------------------------------------------------------------------
(* The theorems. *)

\* The inductive invariant of the Content-Length parsers: types, the bound on
\* the body and the exact split need one another.
THEOREM Invariance == Spec => []Inv
BY InitInv, InvStep, PTL DEF Spec

\* Every value stays within the type the code declares for it.
THEOREM TypeCorrect == Spec => []TypeOK
BY Invariance, PTL DEF Inv

\* No parser takes more than the declared bytes, so expected - length of body
\* never wraps; not even when C runs out of memory halfway through a call.
THEOREM BodyStaysWithinLength == Spec => []NeverBeyondTheBody
BY Invariance, PTL DEF Inv

\* No byte is lost, duplicated or reordered, and the cut is where declared; a
\* call that fails half-way has filled the body and lost only what followed it.
THEOREM SplitIsExact == Spec => []SplitExact
BY Invariance, PTL DEF Inv

LEMMA AbstractStep ==
  ASSUME state' \in {"incomplete", "complete", "invalid"},
         IsPrefix(body, body'), IsPrefix(surplus, surplus'),
         \/ state = "incomplete" /\ (state' = "complete" \/ surplus' = surplus)
         \/ state # "incomplete" /\ state' = state /\ body' = body
  PROVE  Promise!Next
BY DEF Promise!Next, Promise!Decode, Promise!Keep, Promise!Verdict,
       Promise!IsPrefix, IsPrefix

\* Each Content-Length parser is a body decoder: its body only grows, its
\* verdict is final, and it keeps later bytes only once it has a verdict.
THEOREM LengthIsABodyDecoder == Spec => DecodesABody
<1>1. Init => Promise!Init
  <2> SUFFICES ASSUME Init PROVE Promise!Init
    OBVIOUS
  <2>1. state \in {"incomplete", "complete", "invalid"}
    BY InitInv DEF Inv, TypeOK
  <2> QED BY <2>1 DEF Init, Promise!Init, Promise!Verdict
<1>2. Inv /\ Inv' /\ [Next]_vars => [Promise!Next]_<<state, body, surplus>>
  <2> SUFFICES ASSUME Inv, Inv', Next
               PROVE  Promise!Next \/ UNCHANGED <<state, body, surplus>>
    BY DEF vars
  <2>1. PICK k \in Calls : FeedC(k) \/ FeedGo(k) \/ FeedRust(k) \/ NoMemoryC(k)
    BY DEF Next
  <2>2. /\ state' \in {"incomplete", "complete", "invalid"}
        /\ body \in Seq(STRING) /\ surplus \in Seq(STRING) /\ Needed \in Nat
        /\ state = "incomplete" /\ rc = 0 => surplus = <<>>
        /\ state' = "incomplete" /\ rc' = 0 => surplus' = <<>>
    BY Lengths DEF Inv, TypeOK, NeverBeyondTheBody, SplitExact, Needed
  <2>3. \A t \in 0 .. k : /\ Bytes(1, t) \in Seq(STRING)
                          /\ Bytes(t + 1, k) \in Seq(STRING)
    BY Pieces DEF Inv
  <2>4. IsPrefix(body, body) /\ IsPrefix(surplus, surplus)
    BY <2>2, EmptySeq, PrefixOfConcat
  <2>5. \A t \in 0 .. k : /\ IsPrefix(body, body \o Bytes(1, t))
                          /\ IsPrefix(surplus, surplus \o Bytes(t + 1, k))
    BY <2>2, <2>3, PrefixOfConcat
  <2>6. /\ k \in Nat /\ 0 \in 0 .. k /\ IsPrefix(surplus, surplus \o Bytes(1, k))
        /\ rc = 0 \/ lang = "c"
    <3>1. k \in Nat /\ 0 \in 0 .. k /\ 0 + 1 = 1
      BY Lengths DEF Calls, Inv
    <3> QED BY <2>5, <3>1 DEF Inv, TypeOK
  <2>7. CASE rc' = 0
    <3>1. CASE state # "incomplete"
      <4>1. KeepAll(k)
        BY <2>1, <2>7, <3>1 DEF FeedC, FeedGo, FeedRust, NoMemoryC
      <4> QED BY <2>2, <2>4, <2>6, <3>1, <4>1, AbstractStep DEF KeepAll
    <3>2. CASE state = "incomplete"
      <4>1. /\ rc = 0
            /\ \E t \in 0 .. k : body' = body \o Bytes(1, t)
        <5> DEFINE a == IF k < Needed THEN k ELSE Needed
                   b == IF k > Needed THEN Needed ELSE k
                   c == Min({Needed, k})
        <5>1. a \in 0 .. k /\ b \in 0 .. k /\ c \in 0 .. k
          BY <2>2, <2>6, MinOfTwo
        <5> HIDE DEF a, b, c
        <5>2. \/ body' = body \o Bytes(1, a) \/ body' = body \o Bytes(1, b)
              \/ body' = body \o Bytes(1, c)
          <6>1. CASE FeedC(k)
            BY <3>2, <6>1 DEF FeedC, Split, a
          <6>2. CASE FeedGo(k)
            BY <3>2, <6>2 DEF FeedGo, Split, b
          <6>3. CASE FeedRust(k)
            BY <3>2, <6>3 DEF FeedRust, c
          <6>4. CASE NoMemoryC(k)
            BY <2>7, <6>4 DEF NoMemoryC
          <6> QED BY <2>1, <6>1, <6>2, <6>3, <6>4
        <5>3. rc = 0
          BY <2>1, <2>6, <2>7 DEF FeedC, FeedGo, FeedRust, NoMemoryC
        <5> QED BY <5>1, <5>2, <5>3
      <4>2. surplus = <<>>
        BY <2>2, <3>2, <4>1
      <4>3. state' = "complete" \/ surplus' = surplus
        <5>1. state' \in {"complete", "incomplete"}
          BY <2>1, <2>7, <3>2 DEF FeedC, FeedGo, FeedRust, NoMemoryC, Split
        <5> QED BY <2>2, <2>7, <4>2, <5>1
      <4>4. IsPrefix(surplus, surplus')
        <5>1. surplus' \in Seq(STRING) /\ <<>> \in Seq(STRING)
          BY EmptySeq DEF Inv, TypeOK
        <5>2. IsPrefix(<<>>, <<>> \o surplus') /\ <<>> \o surplus' = surplus'
          BY <5>1, PrefixOfConcat, ConcatEmptySeq
        <5> QED BY <4>2, <5>2
      <4> QED BY <2>2, <2>5, <3>2, <4>1, <4>3, <4>4, AbstractStep
    <3> QED BY <3>1, <3>2
  <2>8. CASE rc' # 0
    <3>1. /\ UNCHANGED <<state, surplus>>
          /\ \/ body' = body
             \/ state = "incomplete" /\ Needed < k /\ body' = body \o Bytes(1, Needed)
      BY <2>1, <2>6, <2>8 DEF FeedC, FeedGo, FeedRust, NoMemoryC
    <3>2. CASE body' = body
      BY <3>1, <3>2
    <3>3. CASE state = "incomplete" /\ Needed < k /\ body' = body \o Bytes(1, Needed)
      <4>1. Needed \in 0 .. k
        BY <2>2, <2>6, <3>3
      <4> QED BY <2>2, <2>4, <2>5, <3>1, <3>3, <4>1, AbstractStep
    <3> QED BY <3>1, <3>2, <3>3
  <2> QED BY <2>7, <2>8
<1> QED BY <1>1, <1>2, Invariance, PTL DEF Spec, DecodesABody, Promise!Spec

-----------------------------------------------------------------------------
(* The verdict is that of the declared number.                             *)

\* What the constructor decided, and no call changes: which number is waited
\* for, and whether the value was none.
Parsed ==
  /\ value \subseteq Seq(STRING)
  /\ value = {} => expected = 0 /\ state # "invalid"
  /\ \A v \in value :
       IF DecSize(v, Limit) = BAD THEN state = "invalid" /\ body = <<>>
       ELSE expected = DecSize(v, Limit) /\ state # "invalid"

LEMMA ParsesInLang ==
  ASSUME NEW v \in Seq(STRING)
  PROVE  /\ lang = "c" => ParseContentLengthC(v) = DecSize(v, Limit)
         /\ lang = "go" => ParseContentLengthGo(v) = DecSize(v, Limit)
         /\ lang = "rust" => ParseContentLengthRust(v) = DecSize(v, Limit)
         /\ DecSize(v, Limit) \in (0 .. Limit) \cup {BAD}
         /\ Size = 0 .. SIZE_MAX /\ GoInt = 0 .. SIZE_MAX \div 2
<1>1. Limit \in Nat
  BY SizeMaxAssumption DEF Limit
<1> QED BY <1>1, LengthValues, SizeType DEF Limit, Size, GoInt

LEMMA InitParsed == Init => Parsed
<1> SUFFICES ASSUME Init PROVE Parsed
  OBVIOUS
<1>1. /\ body = <<>>
      /\ value = {} \/ \E v \in Seq(STRING) : value = {v}
  BY InputAssumption DEF Init
<1>2. CASE value = {}
  BY <1>2 DEF Init, InitC, InitGo, InitRust, InitParser, ParseC, ParseGo, ParseRust, Parsed
<1>3. CASE \E v \in Seq(STRING) : value = {v}
  <2>1. PICK v \in Seq(STRING) : value = {v}
    BY <1>3
  <2> DEFINE n == DecSize(v, Limit)
  <2>2. BAD \notin 0 .. Limit
    BY DEF BAD
  <2>3. IF n \in 0 .. Limit
        THEN expected = n /\ state # "invalid"
        ELSE state = "invalid"
    <3>1. CASE InitC
      <4>1. ParseC = {n} /\ Size = 0 .. Limit
        BY <2>1, <3>1, ParsesInLang DEF InitC, ParseC, Limit
      <4> QED BY <3>1, <4>1 DEF InitC, InitParser
    <3>2. CASE InitGo
      <4>1. ParseGo = {n} /\ GoInt = 0 .. Limit
        BY <2>1, <3>2, ParsesInLang DEF InitGo, ParseGo, Limit
      <4> QED BY <3>2, <4>1 DEF InitGo, InitParser
    <3>3. CASE InitRust
      <4>1. ParseRust = {n} /\ Size = 0 .. Limit
        BY <2>1, <3>3, ParsesInLang DEF InitRust, ParseRust, Limit
      <4> QED BY <3>3, <4>1 DEF InitRust, InitParser
    <3> QED BY <3>1, <3>2, <3>3 DEF Init
  <2>4. n \in 0 .. Limit \/ n = BAD
    BY ParsesInLang
  <2> QED BY <1>1, <2>1, <2>2, <2>3, <2>4 DEF Parsed
<1> QED BY <1>1, <1>2, <1>3

LEMMA ParsedStep == Inv /\ Parsed /\ [Next]_vars => Parsed'
<1> SUFFICES ASSUME Inv, Parsed, [Next]_vars PROVE Parsed'
  OBVIOUS
<1>1. /\ UNCHANGED <<lang, value, expected>>
      /\ state = "invalid" => state' = "invalid" /\ body' = body
      /\ state # "invalid" => state' # "invalid"
  BY DEF Next, vars, FeedC, FeedGo, FeedRust, NoMemoryC, Same, Split, KeepAll
<1>2. Limit' = Limit
  BY <1>1 DEF Limit
<1> QED BY <1>1, <1>2 DEF Parsed

LEMMA ParsedVerdict == Inv /\ Parsed => VerdictAsDeclared
<1> SUFFICES ASSUME Inv, Parsed, rc = 0 PROVE VerdictAsDeclared
  BY DEF VerdictAsDeclared
<1>1. /\ input \in Seq(STRING) /\ pos \in 0 .. Len(input) /\ Len(input) \in Nat
      /\ body \in Seq(STRING) /\ surplus \in Seq(STRING)
      /\ Len(body) \in Nat /\ Len(surplus) \in Nat /\ expected \in Nat /\ pos \in Nat
  BY Lengths DEF Inv, TypeOK
<1>2. Len(body) + Len(surplus) = pos
  BY WholeUntilFailure
<1>3. ASSUME state # "invalid" PROVE Declared(expected)
  <2>1. CASE state = "incomplete"
    <3>1. surplus = <<>> /\ Len(body) < expected
      BY <2>1 DEF Inv, SplitExact, NeverBeyondTheBody
    <3>2. Len(body) = pos /\ pos < expected
      BY <1>1, <1>2, <3>1
    <3> QED BY <1>1, <2>1, <3>2, MinOfTwo DEF Declared
  <2>2. CASE state = "complete"
    <3>1. Len(body) = expected /\ ~(pos < expected)
      BY <1>1, <1>2, <2>2 DEF Inv, SplitExact
    <3> QED BY <1>1, <2>2, <3>1, MinOfTwo DEF Declared
  <2> QED BY <1>3, <2>1, <2>2 DEF Inv, TypeOK
<1>4. CASE value = {}
  BY <1>3, <1>4 DEF Parsed, VerdictAsDeclared
<1>5. CASE value # {}
  <2> SUFFICES ASSUME NEW v \in value
               PROVE  IF AllIn(v, DecDigit) /\ Number(v, 10) <= Limit
                      THEN Declared(Number(v, 10))
                      ELSE state = "invalid" /\ body = <<>>
    BY <1>5 DEF VerdictAsDeclared
  <2>1. CASE AllIn(v, DecDigit) /\ Number(v, 10) <= Limit
    <3>1. v \in Seq(STRING) /\ DecSize(v, Limit) = Number(v, 10)
      BY <2>1 DEF Parsed, DecSize
    <3>2. Number(v, 10) \in Nat
      BY <2>1, <3>1, NumberType DEF Bases
    <3>3. expected = Number(v, 10) /\ state # "invalid"
      BY <3>1, <3>2 DEF Parsed, BAD
    <3> QED BY <1>3, <2>1, <3>3
  <2>2. CASE ~(AllIn(v, DecDigit) /\ Number(v, 10) <= Limit)
    <3>1. DecSize(v, Limit) = BAD
      BY <2>2 DEF DecSize
    <3> QED BY <2>2, <3>1 DEF Parsed
  <2> QED BY <2>1, <2>2
<1> QED BY <1>4, <1>5

\* However the stream is cut, and for every machine word: the verdict, and how
\* much of the stream is body, are those of the number the value denotes; text
\* that is no number of the language's range is refused before the first byte.
THEOREM VerdictIsAsDeclared == Spec => []VerdictAsDeclared
<1>1. Inv /\ Parsed /\ [Next]_vars => (Inv /\ Parsed)'
  BY InvStep, ParsedStep
<1> QED BY InitInv, InitParsed, <1>1, ParsedVerdict, PTL DEF Spec
=============================================================================
