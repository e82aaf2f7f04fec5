---------------------------- MODULE ChunkedProofs ----------------------------
(***************************************************************************)
(* Proofs about the three chunked decoders, for every set of streams and   *)
(* every machine word: types, the counter that cannot wrap, the trailer    *)
(* parser in step, the surplus, that each implements BodyDecoding, and     *)
(* that what each decodes is what the grammar of the coding says.          *)
(***************************************************************************)
EXTENDS ChunkedParsers, CodingLemmas

\* What is kept behind a message is a tail of what was consumed, apart from the
\* payload, and nothing is kept before the message is complete.
LastConsumed(n) == SubSeq(input, pos - n + 1, pos)
SurplusIsTail ==
  /\ surplus # <<>> => state = "complete"
  /\ Len(surplus) + Len(body) <= pos
  /\ LastConsumed(Len(surplus)) = surplus

Inv == TypeOK /\ NoUnderflow /\ TrailersInStep /\ SurplusIsTail

-----------------------------------------------------------------------------
(* Arithmetic of the machine word. *)

LEMMA WordFacts ==
  /\ SIZE_MAX \in Nat /\ GoInt \subseteq Size /\ 0 \in Size
  /\ \A n \in 1 .. SIZE_MAX : (n - 1) % (SIZE_MAX + 1) = n - 1
BY SizeMaxAssumption DEF Size, GoInt

\* The byte of a running loop is a byte, and pos may advance over it.
LEMMA ByteFacts ==
  ASSUME ValuesOK, pos < lim
  PROVE  /\ Byte \in STRING /\ input \in Seq(STRING)
         /\ pos + 1 \in Nat /\ pos + 1 <= lim /\ lim <= Len(input)
         /\ Len(input) \in Nat
<1>1. input \in Seq(STRING) /\ pos + 1 \in 1 .. Len(input)
  BY StreamsAssumption DEF ValuesOK
<1>2. Len(input) \in Nat
  BY <1>1, LenProperties
<1> QED BY <1>1, <1>2, ElementOfSeq DEF ValuesOK, Byte

\* What the loops append keeps its type.
LEMMA AppendType ==
  ASSUME NEW s \in Seq(STRING), NEW b \in STRING
  PROVE  Append(s, b) \in Seq(STRING) /\ Len(Append(s, b)) = Len(s) + 1
BY AppendProperties

LEMMA ConcatType ==
  ASSUME NEW s \in Seq(STRING), NEW t \in Seq(STRING)
  PROVE  s \o t \in Seq(STRING) /\ Len(s \o t) = Len(s) + Len(t)
BY ConcatProperties

LEMMA HeaderFeedType ==
  ASSUME ValuesOK, NEW b \in STRING, HeaderFeedC(b) \/ HeaderFeedRust(b)
  PROVE  /\ hstate' \in {"incomplete", "complete", "invalid"}
         /\ hline' \in Seq(STRING)
<1>1. <<>> \in Seq(STRING)
  BY EmptySeq
<1>2. hstate \in {"incomplete", "complete", "invalid"}
      /\ hline \in Seq(STRING) /\ Append(hline, b) \in Seq(STRING)
  BY AppendType DEF ValuesOK
<1>3. hstate' \in {"incomplete", "complete", "invalid"}
  BY <1>2 DEF HeaderFeedC, HeaderFeedRust, FeedHeaderByte
<1>4. hline' \in Seq(STRING)
  BY <1>1, <1>2 DEF HeaderFeedC, HeaderFeedRust, FeedHeaderByte
<1> QED BY <1>3, <1>4

\* What Go stores behind the end of a message.
LEMMA RestType ==
  ASSUME ValuesOK, NEW n \in 1 .. 2, pos < lim
  PROVE  /\ RestOfCall(pos + n) \in Seq(STRING)
         /\ surplus \o RestOfCall(pos + n) \in Seq(STRING)
         /\ Len(surplus \o RestOfCall(pos + n)) = Len(surplus) + (lim - (pos + n) + 1)
<1>1. /\ input \in Seq(STRING) /\ lim \in 0 .. Len(input) /\ pos + n \in Nat \ {0}
      /\ pos + n <= lim + 1
  BY ByteFacts DEF ValuesOK
<1>2. /\ SubSeq(input, pos + n, lim) \in Seq(STRING)
      /\ Len(SubSeq(input, pos + n, lim)) =
           IF pos + n <= lim THEN lim - (pos + n) + 1 ELSE 0
  BY ONLY <1>1, WindowType
<1>3. /\ RestOfCall(pos + n) \in Seq(STRING)
      /\ Len(RestOfCall(pos + n)) = lim - (pos + n) + 1
  BY <1>1, <1>2 DEF RestOfCall, ValuesOK
<1>4. surplus \in Seq(STRING)
  BY DEF ValuesOK
<1> QED BY ONLY <1>3, <1>4, ConcatType

-----------------------------------------------------------------------------
(* Type correctness, one loop iteration at a time. *)

LEMMA InitInv == Init => Inv
<1> SUFFICES ASSUME Init PROVE Inv
  OBVIOUS
<1> USE DEF Init, ChunkedInit, HeaderInit
<1>1. <<>> \in Seq(STRING) /\ Len(<<>>) = 0 /\ 0 \in Size /\ input \in Seq(STRING)
  BY EmptySeq, WordFacts, StreamsAssumption
<1>2. Len(input) \in Nat
  BY <1>1, LenProperties
<1>3. ValuesOK
  BY <1>1, <1>2 DEF ValuesOK
<1>6. FlagsOK
  BY Zenon DEF FlagsOK
<1>4. NoUnderflow /\ TrailersInStep
  BY DEF NoUnderflow, TrailersInStep
<1>5. SurplusIsTail
  BY <1>1, SubSeqEmpty DEF SurplusIsTail, LastConsumed
<1> QED BY <1>3, <1>4, <1>5, <1>6 DEF Inv, TypeOK

LEMMA TypeC ==
  ASSUME ValuesOK, NoUnderflow, CNext
  PROVE  ValuesOK'
<1> USE DEF ValuesOK, NoUnderflow, caller, output, framing, hvars, InCall, InC, StepC
<1>0. /\ pos < lim => Byte \in STRING /\ pos + 1 \in Nat /\ pos + 1 <= lim
      /\ lim <= Len(input) /\ Len(input) \in Nat
  BY ByteFacts, StreamsAssumption, LenProperties
<1>e. <<>> \in Seq(STRING)
  BY EmptySeq
<1>1. CASE CInvalidReturns
  BY <1>0, <1>e, <1>1, AppendType, WordFacts DEF CInvalidReturns
<1>2. CASE CKeepSurplus
  BY <1>0, <1>e, <1>2, AppendType, WordFacts DEF CKeepSurplus
<1>3. CASE CSize
  BY <1>0, <1>e, <1>3, AppendType, WordFacts DEF CSize
<1>4. CASE CSizeLf
  BY <1>0, <1>e, <1>4, AppendType, WordFacts DEF CSizeLf
<1>5. CASE CData
  BY <1>0, <1>e, <1>5, AppendType, WordFacts DEF CData, SizeLimit, Size
<1>6. CASE CDataCr
  BY <1>0, <1>e, <1>6, AppendType, WordFacts DEF CDataCr
<1>7. CASE CDataLf
  BY <1>0, <1>e, <1>7, AppendType, WordFacts DEF CDataLf
<1>8. CASE CTrailers
  BY <1>0, <1>e, <1>8, HeaderFeedType DEF CTrailers
<1>9. CASE CNoMemory
  BY <1>0, <1>e, <1>9, WordFacts DEF CNoMemory, HeaderNoMemoryC
<1> QED BY <1>1, <1>2, <1>3, <1>4, <1>5, <1>6, <1>7, <1>8, <1>9 DEF CNext

LEMMA TypeGo ==
  ASSUME ValuesOK, NoUnderflow, GoNext
  PROVE  ValuesOK'
<1> USE DEF ValuesOK, NoUnderflow, caller, output, framing, hvars, InCall, InGo, StepGo
<1>0. /\ pos < lim => Byte \in STRING /\ pos + 1 \in Nat /\ pos + 1 <= lim
      /\ lim <= Len(input) /\ Len(input) \in Nat
  BY ByteFacts, StreamsAssumption, LenProperties
<1>e. <<>> \in Seq(STRING)
  BY EmptySeq
<1>1. CASE GoCallAfterVerdict
  <2>1. surplus' \in Seq(STRING)
    <3>1. surplus \o RestOfCall(pos + 1) \in Seq(STRING)
      BY <1>1, RestType DEF GoCallAfterVerdict
    <3> QED BY <1>1, <3>1 DEF GoCallAfterVerdict
  <2> QED BY <1>0, <1>1, <2>1 DEF GoCallAfterVerdict
<1>2. CASE GoData
  BY <1>0, <1>e, <1>2, AppendType, WordFacts DEF GoData, SizeLimit, Size
<1>3. CASE GoDataCr
  BY <1>0, <1>e, <1>3, AppendType, WordFacts DEF GoDataCr
<1>4. CASE GoDataLf
  BY <1>0, <1>e, <1>4, AppendType, WordFacts DEF GoDataLf
<1>5. CASE GoLineByte
  <2>1. state' \in {"incomplete", "complete", "invalid"}
    BY <1>5 DEF GoLineByte
  <2>2. line' \in Seq(STRING)
    BY <1>0, <1>5, AppendType DEF GoLineByte
  <2> QED BY <1>0, <1>5, <2>1, <2>2 DEF GoLineByte
<1>6. CASE GoFinishSize
  <2>1. state' \in {"incomplete", "complete", "invalid"}
        /\ line' \in Seq(STRING) /\ phase' \in {"SIZE", "DATA", "TRAILERS"}
    BY <1>e, <1>6 DEF GoFinishSize
  <2>2. rem' \in Size
    BY <1>6, WordFacts DEF GoFinishSize
  <2> QED BY <1>0, <1>6, <2>1, <2>2 DEF GoFinishSize
<1>7. CASE GoFinishTrailer
  <2>1. state' \in {"incomplete", "complete", "invalid"} /\ line' \in Seq(STRING)
    BY <1>e, <1>7 DEF GoFinishTrailer
  <2>2. surplus' \in Seq(STRING)
    <3>1. surplus \o RestOfCall(pos + 2) \in Seq(STRING)
      BY <1>7, RestType DEF GoFinishTrailer, RestOfChunk
    <3> QED BY <1>7, <3>1 DEF GoFinishTrailer, RestOfChunk
  <2> QED BY <1>0, <1>7, <2>1, <2>2 DEF GoFinishTrailer
<1> QED BY <1>1, <1>2, <1>3, <1>4, <1>5, <1>6, <1>7 DEF GoNext

LEMMA TypeRust ==
  ASSUME ValuesOK, NoUnderflow, RustNext
  PROVE  ValuesOK'
<1> USE DEF ValuesOK, NoUnderflow, caller, output, framing, hvars, InCall, InRust, StepRust
<1>0. /\ pos < lim => Byte \in STRING /\ pos + 1 \in Nat /\ pos + 1 <= lim
      /\ lim <= Len(input) /\ Len(input) \in Nat
  BY ByteFacts, StreamsAssumption, LenProperties
<1>e. <<>> \in Seq(STRING)
  BY EmptySeq
<1>1. CASE RustAfterVerdict
  BY <1>0, <1>e, <1>1, AppendType, WordFacts DEF RustAfterVerdict
<1>2. CASE RustSize
  BY <1>0, <1>e, <1>2, AppendType, WordFacts DEF RustSize
<1>3. CASE RustSizeLf
  BY <1>0, <1>e, <1>3, AppendType, WordFacts DEF RustSizeLf
<1>4. CASE RustData
  BY <1>0, <1>e, <1>4, AppendType, WordFacts DEF RustData, SizeLimit, Size
<1>5. CASE RustDataCr
  BY <1>0, <1>e, <1>5, AppendType, WordFacts DEF RustDataCr
<1>6. CASE RustDataLf
  BY <1>0, <1>e, <1>6, AppendType, WordFacts DEF RustDataLf
<1>7. CASE RustTrailers
  BY <1>0, <1>e, <1>7, HeaderFeedType DEF RustTrailers
<1> QED BY <1>1, <1>2, <1>3, <1>4, <1>5, <1>6, <1>7 DEF RustNext

LEMMA FlagsStep ==
  ASSUME FlagsOK, Next
  PROVE  FlagsOK'
<1> USE DEF FlagsOK, framing, hvars
<1>1. CASE Feed
  BY <1>1 DEF Feed
<1>2. CASE CNext
  BY <1>2 DEF CNext, CInvalidReturns, CKeepSurplus, CSize, CSizeLf, CData, CDataCr, CDataLf, CTrailers, CNoMemory,
              HeaderFeedC, FeedHeaderByte, HeaderNoMemoryC
<1>3. CASE GoNext
  BY <1>3 DEF GoNext, GoCallAfterVerdict, GoData, GoDataCr, GoDataLf, GoLineByte, GoFinishSize, GoFinishTrailer
<1>4. CASE RustNext
  BY <1>4 DEF RustNext, RustAfterVerdict, RustSize, RustSizeLf, RustData, RustDataCr, RustDataLf, RustTrailers,
              HeaderFeedRust, FeedHeaderByte
<1> QED BY <1>1, <1>2, <1>3, <1>4 DEF Next

LEMMA TypeStep ==
  ASSUME TypeOK, NoUnderflow, [Next]_vars
  PROVE  TypeOK'
<1> USE DEF TypeOK
<1>1. CASE Next
  <2>1. FlagsOK'
    BY <1>1, FlagsStep
  <2>2. CASE Feed
    <3>1. Len(input) \in Nat
      BY StreamsAssumption, LenProperties DEF ValuesOK
    <3> QED BY <2>1, <2>2, <3>1 DEF Feed, ValuesOK, output, framing, hvars
  <2> QED BY <1>1, <2>1, <2>2, TypeC, TypeGo, TypeRust DEF Next
<1>2. CASE UNCHANGED vars
  BY <1>2 DEF vars, caller, output, framing, hvars, ValuesOK, FlagsOK
<1> QED BY <1>1, <1>2

-----------------------------------------------------------------------------
(* The counter of bytes still due. *)

LEMMA NoUnderflowStep ==
  ASSUME TypeOK, NoUnderflow, [Next]_vars
  PROVE  NoUnderflow'
<1> USE DEF NoUnderflow, TypeOK, ValuesOK, SizeLimit, Size, GoInt,
            caller, output, framing, InCall, InC, InGo, InRust
<1>1. CASE UNCHANGED vars
  BY <1>1 DEF vars
<1>2. CASE Feed
  BY <1>2 DEF Feed
<1>3. CASE CInvalidReturns
  BY <1>3 DEF CInvalidReturns, StepC
<1>4. CASE CKeepSurplus
  BY <1>4 DEF CKeepSurplus, StepC
<1>5. CASE CSize
  BY <1>5 DEF CSize, StepC
<1>6. CASE CSizeLf
  BY <1>6, WordFacts DEF CSizeLf, StepC
<1>7. CASE CData
  BY <1>7, WordFacts DEF CData, StepC
<1>8. CASE CDataCr
  BY <1>8 DEF CDataCr, StepC
<1>9. CASE CDataLf
  BY <1>9 DEF CDataLf, StepC
<1>10. CASE CTrailers
  BY <1>10 DEF CTrailers, StepC
<1>11. CASE CNoMemory
  BY <1>11 DEF CNoMemory, StepC
<1>12. CASE GoCallAfterVerdict
  BY <1>12 DEF GoCallAfterVerdict, StepGo
<1>13. CASE GoData
  BY <1>13, WordFacts DEF GoData, StepGo
<1>14. CASE GoDataCr
  BY <1>14 DEF GoDataCr, StepGo
<1>15. CASE GoDataLf
  BY <1>15 DEF GoDataLf, StepGo
<1>16. CASE GoLineByte
  BY <1>16 DEF GoLineByte, StepGo
<1>17. CASE GoFinishSize
  BY <1>17, WordFacts DEF GoFinishSize, StepGo
<1>18. CASE GoFinishTrailer
  BY <1>18 DEF GoFinishTrailer, StepGo
<1>19. CASE RustAfterVerdict
  BY <1>19 DEF RustAfterVerdict, StepRust
<1>20. CASE RustSize
  BY <1>20, WordFacts DEF RustSize, StepRust
<1>21. CASE RustSizeLf
  BY <1>21, WordFacts DEF RustSizeLf, StepRust
<1>22. CASE RustData
  BY <1>22, WordFacts DEF RustData, StepRust
<1>23. CASE RustDataCr
  BY <1>23 DEF RustDataCr, StepRust
<1>24. CASE RustDataLf
  BY <1>24 DEF RustDataLf, StepRust
<1>25. CASE RustTrailers
  BY <1>25 DEF RustTrailers, StepRust
<1> QED BY <1>1, <1>2, <1>3, <1>4, <1>5, <1>6, <1>7, <1>8, <1>9, <1>10, <1>11, <1>12, <1>13, <1>14, <1>15, <1>16, <1>17, <1>18, <1>19, <1>20, <1>21, <1>22, <1>23, <1>24, <1>25
       DEF Next, CNext, GoNext, RustNext

-----------------------------------------------------------------------------
(* The embedded trailer parser. *)

LEMMA TrailersInStepStep ==
  ASSUME TypeOK, TrailersInStep, [Next]_vars
  PROVE  TrailersInStep'
<1> USE DEF TrailersInStep, TypeOK, ValuesOK, caller, output, framing, hvars,
            InCall, InC, InGo, InRust
<1>1. CASE UNCHANGED vars
  BY <1>1 DEF vars
<1>2. CASE Feed
  BY <1>2 DEF Feed
<1>3. CASE CInvalidReturns
  BY <1>3 DEF CInvalidReturns, StepC
<1>4. CASE CKeepSurplus
  BY <1>4 DEF CKeepSurplus, StepC
<1>5. CASE CSize
  BY <1>5 DEF CSize, StepC
<1>6. CASE CSizeLf
  BY <1>6 DEF CSizeLf, StepC
<1>7. CASE CData
  BY <1>7 DEF CData, StepC
<1>8. CASE CDataCr
  BY <1>8 DEF CDataCr, StepC
<1>9. CASE CDataLf
  BY <1>9 DEF CDataLf, StepC
<1>10. CASE CTrailers
  BY <1>10 DEF CTrailers, StepC
<1>11. CASE CNoMemory
  BY <1>11 DEF CNoMemory, StepC, HeaderNoMemoryC
<1>12. CASE GoCallAfterVerdict
  BY <1>12 DEF GoCallAfterVerdict, StepGo
<1>13. CASE GoData
  BY <1>13 DEF GoData, StepGo
<1>14. CASE GoDataCr
  BY <1>14 DEF GoDataCr, StepGo
<1>15. CASE GoDataLf
  BY <1>15 DEF GoDataLf, StepGo
<1>16. CASE GoLineByte
  BY <1>16 DEF GoLineByte, StepGo
<1>17. CASE GoFinishSize
  BY <1>17 DEF GoFinishSize, StepGo
<1>18. CASE GoFinishTrailer
  BY <1>18 DEF GoFinishTrailer, StepGo
<1>19. CASE RustAfterVerdict
  BY <1>19 DEF RustAfterVerdict, StepRust
<1>20. CASE RustSize
  BY <1>20 DEF RustSize, StepRust
<1>21. CASE RustSizeLf
  BY <1>21 DEF RustSizeLf, StepRust
<1>22. CASE RustData
  BY <1>22 DEF RustData, StepRust
<1>23. CASE RustDataCr
  BY <1>23 DEF RustDataCr, StepRust
<1>24. CASE RustDataLf
  BY <1>24 DEF RustDataLf, StepRust
<1>25. CASE RustTrailers
  BY <1>25 DEF RustTrailers, StepRust
<1> QED BY <1>1, <1>2, <1>3, <1>4, <1>5, <1>6, <1>7, <1>8, <1>9, <1>10, <1>11, <1>12, <1>13, <1>14, <1>15, <1>16, <1>17, <1>18, <1>19, <1>20, <1>21, <1>22, <1>23, <1>24, <1>25
       DEF Next, CNext, GoNext, RustNext

-----------------------------------------------------------------------------
(* The surplus.  Steps that store nothing, steps that store one byte (C and *)
(* Rust) and steps that store the rest of a buffer (Go).                    *)

LEMMA EmptyWindow ==
  ASSUME NEW s, NEW n \in Nat
  PROVE  SubSeq(s, n + 1, n) = <<>>
BY SubSeqEmpty

LEMMA NothingStored ==
  ASSUME TypeOK, TypeOK', SurplusIsTail, UNCHANGED <<input, surplus>>,
         state = "incomplete" \/ state' = state, pos <= pos',
         \/ surplus = <<>>
         \/ pos' = pos,
         Len(body') - Len(body) <= pos' - pos
  PROVE  SurplusIsTail'
<1>1. /\ body \in Seq(STRING) /\ body' \in Seq(STRING) /\ surplus \in Seq(STRING)
      /\ pos \in Nat /\ pos' \in Nat
  BY DEF TypeOK, ValuesOK
<1>2. Len(body) \in Nat /\ Len(body') \in Nat /\ Len(surplus) \in Nat /\ Len(<<>>) = 0
  BY <1>1, LenProperties, EmptySeq
<1>3. (surplus # <<>> => state = "complete")'
  BY DEF SurplusIsTail
<1>4. Len(surplus') + Len(body') <= pos'
  BY <1>1, <1>2 DEF SurplusIsTail
<1>5. LastConsumed(Len(surplus))' = surplus'
  <2>1. CASE surplus = <<>>
    <3>1. SubSeq(input', pos' + 1, pos') = <<>>
      BY ONLY <1>1, EmptyWindow
    <3>2. Len(surplus') = 0 /\ pos' - 0 + 1 = pos' + 1
      BY <1>1, <1>2, <2>1
    <3> QED BY <2>1, <3>1, <3>2 DEF LastConsumed
  <2>2. CASE pos' = pos
    BY <2>2 DEF SurplusIsTail, LastConsumed
  <2> QED BY <2>1, <2>2
<1> QED BY <1>3, <1>4, <1>5 DEF SurplusIsTail

LEMMA ByteStored ==
  ASSUME TypeOK, SurplusIsTail, pos < lim, UNCHANGED <<input, body, state>>,
         state = "complete", pos' = pos + 1, surplus' = Append(surplus, Byte)
  PROVE  SurplusIsTail'
<1>1. /\ input \in Seq(STRING) /\ pos \in 0 .. Len(input) - 1 /\ surplus \in Seq(STRING)
      /\ Len(surplus) \in Nat /\ Byte \in STRING /\ Len(body) \in Nat
  BY ByteFacts, LenProperties DEF TypeOK, ValuesOK
<1> DEFINE a == pos - Len(surplus) + 1
<1>2. a \in 1 .. pos + 1 /\ surplus = SubSeq(input, a, pos)
  BY <1>1 DEF SurplusIsTail, LastConsumed
<1>3. Append(SubSeq(input, a, pos), input[pos + 1]) = SubSeq(input, a, pos + 1)
  BY <1>1, <1>2, WindowGrows
<1>4. Len(surplus') = Len(surplus) + 1
  BY <1>1, AppendType
<1>5. pos' - Len(surplus') + 1 = a
  <2>1. pos' = pos + 1
    OBVIOUS
  <2> QED BY ONLY <1>1, <1>4, <2>1
<1>6. LastConsumed(Len(surplus))' = SubSeq(input, a, pos + 1)
  BY <1>5 DEF LastConsumed
<1>7. LastConsumed(Len(surplus))' = surplus'
  BY <1>2, <1>3, <1>6 DEF Byte
<1>8. Len(surplus') + Len(body') <= pos'
  BY <1>1, <1>4 DEF SurplusIsTail
<1> QED BY <1>7, <1>8 DEF SurplusIsTail

\* n is 1 when the call starts with a verdict and 2 when its byte pos + 1
\* completes the message.
LEMMA RestStored ==
  ASSUME TypeOK, SurplusIsTail, pos < lim, UNCHANGED <<input, body, lim>>,
         state' = "complete", pos' = lim, NEW n \in 1 .. 2,
         n = 1 \/ surplus = <<>>, surplus' = surplus \o RestOfCall(pos + n)
  PROVE  SurplusIsTail'
<1>1. /\ input \in Seq(STRING) /\ lim \in 0 .. Len(input) /\ pos \in Nat
      /\ pos + n <= lim + 1 /\ surplus \in Seq(STRING) /\ Len(surplus) \in Nat
      /\ Len(body) \in Nat /\ lim \in Nat
  BY ByteFacts, LenProperties DEF TypeOK, ValuesOK
<1>2. Len(surplus') = Len(surplus) + (lim - (pos + n) + 1)
  BY RestType DEF TypeOK
<1>3. CASE n = 1
  <2> DEFINE a == pos - Len(surplus) + 1
  <2>1. /\ a \in 1 .. pos + 1 /\ surplus = SubSeq(input, a, pos)
        /\ pos \in 0 .. lim
    BY <1>1 DEF SurplusIsTail, LastConsumed
  <2>2. SubSeq(input, a, pos) \o SubSeq(input, pos + 1, lim) = SubSeq(input, a, lim)
    BY <1>1, <2>1, WindowsJoin
  <2>3. lim - Len(surplus') + 1 = a
    BY ONLY <1>1, <1>2, <1>3
  <2>4. LastConsumed(Len(surplus))' = SubSeq(input, a, lim)
    BY <2>3 DEF LastConsumed
  <2>5. LastConsumed(Len(surplus))' = surplus'
    BY <1>3, <2>1, <2>2, <2>4 DEF RestOfCall
  <2>6. Len(surplus') + Len(body') <= pos'
    BY <1>1, <1>2, <1>3 DEF SurplusIsTail
  <2> QED BY <2>5, <2>6 DEF SurplusIsTail
<1>4. CASE n = 2 /\ surplus = <<>>
  <2>1. RestOfCall(pos + 2) \in Seq(STRING) /\ Len(surplus) = 0
    BY <1>1, <1>4, RestType, EmptySeq DEF TypeOK
  <2>2. surplus' = RestOfCall(pos + 2)
    BY <1>4, <2>1, ConcatEmptySeq
  <2>3. lim - Len(surplus') + 1 = pos + 2
    BY <1>1, <1>2, <1>4, <2>1
  <2>4. SubSeq(input', pos' - Len(surplus') + 1, pos') = surplus'
    BY <2>2, <2>3 DEF RestOfCall
  <2> QED BY <1>1, <1>2, <1>4, <2>1, <2>4 DEF SurplusIsTail, LastConsumed
<1> QED BY <1>3, <1>4

LEMMA SurplusIsTailStep ==
  ASSUME TypeOK, TypeOK', SurplusIsTail, [Next]_vars
  PROVE  SurplusIsTail'
<1> USE DEF caller, output, InCall, InC, InGo, InRust
<1>0. /\ pos \in Nat /\ lim \in Nat /\ pos <= lim /\ pos' \in Nat
      /\ Len(body) \in Nat /\ Len(<<>>) = 0
      /\ surplus # <<>> => state = "complete"
      /\ pos < lim => pos + 1 <= lim /\ Len(Append(body, Byte)) = Len(body) + 1
  BY ByteFacts, AppendType, LenProperties, EmptySeq DEF TypeOK, ValuesOK, SurplusIsTail
<1>1. CASE UNCHANGED vars
  BY <1>0, <1>1, NothingStored DEF vars
<1>2. CASE Feed
  BY <1>0, <1>2, NothingStored DEF Feed
<1>3. CASE CInvalidReturns
  BY <1>0, <1>3, NothingStored DEF CInvalidReturns, StepC
<1>4. CASE CKeepSurplus
  BY <1>4, ByteStored DEF CKeepSurplus, StepC
<1>5. CASE CSize
  BY <1>0, <1>5, NothingStored DEF CSize, StepC
<1>6. CASE CSizeLf
  BY <1>0, <1>6, NothingStored DEF CSizeLf, StepC
<1>7. CASE CData
  BY <1>0, <1>7, NothingStored DEF CData, StepC
<1>8. CASE CDataCr
  BY <1>0, <1>8, NothingStored DEF CDataCr, StepC
<1>9. CASE CDataLf
  BY <1>0, <1>9, NothingStored DEF CDataLf, StepC
<1>10. CASE CTrailers
  BY <1>0, <1>10, NothingStored DEF CTrailers, StepC
<1>11. CASE CNoMemory
  BY <1>0, <1>11, NothingStored DEF CNoMemory, StepC
<1>12. CASE GoCallAfterVerdict
  <2>1. CASE state = "complete"
    BY <1>12, <2>1, RestStored DEF GoCallAfterVerdict
  <2>2. CASE state # "complete"
    BY <1>0, <1>12, <2>2, NothingStored DEF GoCallAfterVerdict
  <2> QED BY <2>1, <2>2
<1>13. CASE GoData
  BY <1>0, <1>13, NothingStored DEF GoData, StepGo
<1>14. CASE GoDataCr
  BY <1>0, <1>14, NothingStored DEF GoDataCr, StepGo
<1>15. CASE GoDataLf
  BY <1>0, <1>15, NothingStored DEF GoDataLf, StepGo
<1>16. CASE GoLineByte
  BY <1>0, <1>16, NothingStored DEF GoLineByte, StepGo
<1>17. CASE GoFinishSize
  BY <1>0, <1>17, NothingStored DEF GoFinishSize, StepGo
<1>18. CASE GoFinishTrailer
  <2>1. CASE line = <<>>
    BY <1>0, <1>18, <2>1, RestStored DEF GoFinishTrailer, RestOfChunk, StepGo
  <2>2. CASE line # <<>>
    BY <1>0, <1>18, <2>2, NothingStored DEF GoFinishTrailer, RestOfChunk, StepGo
  <2> QED BY <2>1, <2>2
<1>19. CASE RustAfterVerdict
  <2>1. CASE state = "complete"
    BY <1>19, <2>1, ByteStored DEF RustAfterVerdict, StepRust
  <2>2. CASE state # "complete"
    BY <1>0, <1>19, <2>2, NothingStored DEF RustAfterVerdict, StepRust
  <2> QED BY <2>1, <2>2
<1>20. CASE RustSize
  BY <1>0, <1>20, NothingStored DEF RustSize, StepRust
<1>21. CASE RustSizeLf
  BY <1>0, <1>21, NothingStored DEF RustSizeLf, StepRust
<1>22. CASE RustData
  BY <1>0, <1>22, NothingStored DEF RustData, StepRust
<1>23. CASE RustDataCr
  BY <1>0, <1>23, NothingStored DEF RustDataCr, StepRust
<1>24. CASE RustDataLf
  BY <1>0, <1>24, NothingStored DEF RustDataLf, StepRust
<1>25. CASE RustTrailers
  BY <1>0, <1>25, NothingStored DEF RustTrailers, StepRust
<1> QED BY <1>1, <1>2, <1>3, <1>4, <1>5, <1>6, <1>7, <1>8, <1>9, <1>10, <1>11, <1>12, <1>13, <1>14, <1>15, <1>16, <1>17, <1>18, <1>19, <1>20, <1>21, <1>22, <1>23, <1>24, <1>25
       DEF Next, CNext, GoNext, RustNext

-----------------------------------------------------------------------------
(* The theorems. *)

LEMMA InvStep == Inv /\ [Next]_vars => Inv'
BY TypeStep, NoUnderflowStep, TrailersInStepStep, SurplusIsTailStep DEF Inv

\* The inductive invariant of the three decoders: the types, the counter of
\* bytes due, the trailer parser and the surplus, which need one another.
THEOREM Invariance == Spec => []Inv
BY InitInv, InvStep, PTL DEF Spec

\* Every value stays within the type the code declares for it.
THEOREM TypeCorrect == Spec => []TypeOK
BY Invariance, PTL DEF Inv

\* chunk_remaining never wraps, in any language, for any stream and word size.
THEOREM CounterNeverWraps == Spec => []NoUnderflow
BY Invariance, PTL DEF Inv

\* The decoder and its trailer parser reach their verdicts together.
THEOREM TrailersAgree == Spec => []TrailersInStep
BY Invariance, PTL DEF Inv

-----------------------------------------------------------------------------
(* Implementation of the abstract body decoder. *)

\* What the abstract step asks for, in one place.
LEMMA AbstractStep ==
  ASSUME state' \in {"incomplete", "complete", "invalid"},
         IsPrefix(body, body'), IsPrefix(surplus, surplus'),
         \/ state = "incomplete" /\ (state' = "complete" \/ surplus' = surplus)
         \/ state # "incomplete" /\ state' = state /\ body' = body
  PROVE  Promise!Next
BY DEF Promise!Next, Promise!Decode, Promise!Keep, Promise!Verdict,
       Promise!IsPrefix, IsPrefix

LEMMA DecoderStep ==
  ASSUME TypeOK, TypeOK', [Next]_vars
  PROVE  Promise!Next \/ UNCHANGED <<state, body, surplus>>
<1> USE DEF caller, output, InCall, InC, InGo, InRust
<1>0. /\ state' \in {"incomplete", "complete", "invalid"}
      /\ IsPrefix(body, body) /\ IsPrefix(surplus, surplus)
      /\ pos < lim => /\ IsPrefix(body, Append(body, Byte))
                      /\ IsPrefix(surplus, Append(surplus, Byte))
      /\ pos < lim => /\ IsPrefix(surplus, surplus \o RestOfCall(pos + 1))
                      /\ IsPrefix(surplus, surplus \o RestOfCall(pos + 2))
  <2>1. /\ state' \in {"incomplete", "complete", "invalid"}
        /\ body \in Seq(STRING) /\ surplus \in Seq(STRING) /\ <<>> \in Seq(STRING)
    BY EmptySeq DEF TypeOK, ValuesOK
  <2>2. pos < lim => /\ Byte \in STRING
                     /\ RestOfCall(pos + 1) \in Seq(STRING)
                     /\ RestOfCall(pos + 2) \in Seq(STRING)
    BY ByteFacts, RestType DEF TypeOK
  <2> QED BY <2>1, <2>2, PrefixOfAppend, PrefixOfConcat
<1>1. CASE UNCHANGED vars
  BY <1>0, <1>1, AbstractStep DEF vars
<1>2. CASE Feed
  BY <1>0, <1>2, AbstractStep DEF Feed
<1>3. CASE CInvalidReturns
  BY <1>0, <1>3, AbstractStep DEF CInvalidReturns
<1>4. CASE CKeepSurplus
  BY <1>0, <1>4, AbstractStep DEF CKeepSurplus
<1>5. CASE CSize
  BY <1>0, <1>5, AbstractStep DEF CSize
<1>6. CASE CSizeLf
  BY <1>0, <1>6, AbstractStep DEF CSizeLf
<1>7. CASE CData
  BY <1>0, <1>7, AbstractStep DEF CData
<1>8. CASE CDataCr
  BY <1>0, <1>8, AbstractStep DEF CDataCr
<1>9. CASE CDataLf
  BY <1>0, <1>9, AbstractStep DEF CDataLf
<1>10. CASE CTrailers
  BY <1>0, <1>10, AbstractStep DEF CTrailers
<1>11. CASE CNoMemory
  BY <1>0, <1>11, AbstractStep DEF CNoMemory
<1>12. CASE GoCallAfterVerdict
  BY <1>0, <1>12, AbstractStep DEF GoCallAfterVerdict
<1>13. CASE GoData
  BY <1>0, <1>13, AbstractStep DEF GoData
<1>14. CASE GoDataCr
  BY <1>0, <1>14, AbstractStep DEF GoDataCr
<1>15. CASE GoDataLf
  BY <1>0, <1>15, AbstractStep DEF GoDataLf
<1>16. CASE GoLineByte
  BY <1>0, <1>16, AbstractStep DEF GoLineByte
<1>17. CASE GoFinishSize
  BY <1>0, <1>17, AbstractStep DEF GoFinishSize
<1>18. CASE GoFinishTrailer
  BY <1>0, <1>18, AbstractStep DEF GoFinishTrailer, RestOfChunk
<1>19. CASE RustAfterVerdict
  BY <1>0, <1>19, AbstractStep DEF RustAfterVerdict
<1>20. CASE RustSize
  BY <1>0, <1>20, AbstractStep DEF RustSize
<1>21. CASE RustSizeLf
  BY <1>0, <1>21, AbstractStep DEF RustSizeLf
<1>22. CASE RustData
  BY <1>0, <1>22, AbstractStep DEF RustData
<1>23. CASE RustDataCr
  BY <1>0, <1>23, AbstractStep DEF RustDataCr
<1>24. CASE RustDataLf
  BY <1>0, <1>24, AbstractStep DEF RustDataLf
<1>25. CASE RustTrailers
  BY <1>0, <1>25, AbstractStep DEF RustTrailers
<1> QED BY <1>1, <1>2, <1>3, <1>4, <1>5, <1>6, <1>7, <1>8, <1>9, <1>10, <1>11, <1>12, <1>13, <1>14, <1>15, <1>16, <1>17, <1>18, <1>19, <1>20, <1>21, <1>22, <1>23, <1>24, <1>25
       DEF Next, CNext, GoNext, RustNext

\* Each chunked decoder is a body decoder: its body only grows, its verdict is
\* final, and it keeps later bytes only once it has a verdict.
THEOREM ChunkedIsABodyDecoder == Spec => DecodesABody
<1>1. Init => Promise!Init
  BY DEF Init, ChunkedInit, Promise!Init, Promise!Verdict
<1>2. TypeOK /\ TypeOK' /\ [Next]_vars => [Promise!Next]_<<state, body, surplus>>
  BY DecoderStep
<1> QED BY <1>1, <1>2, TypeCorrect, PTL DEF Spec, DecodesABody, Promise!Spec

-----------------------------------------------------------------------------
(* The meaning of the coding.  Resume(w) is what w would decode to if it    *)
(* came next; Tracks ties it to the grammar, and Collects says which bytes  *)
(* the line buffers hold.                                                   *)

Mode == IF phase = "SIZE_LF" THEN "SIZE" ELSE phase
Collected == IF phase = "TRAILERS" /\ lang # "go" THEN hline ELSE line
AtCr == IF lang = "go" THEN pendingCR
        ELSE IF phase = "TRAILERS" THEN hpending ELSE phase = "SIZE_LF"
Resume(w) == Rest(Mode, Collected, AtCr, rem, w, SizeInLang)
Meaning(t) == Decode(t, SizeInLang)

InChunk == phase \in {"DATA", "DATA_CR", "DATA_LF"}
Collects ==
  state = "incomplete" /\ rc = 0 =>
    /\ Plain(line) /\ Plain(hline)
    /\ lang = "go" => phase # "SIZE_LF" /\ (InChunk => ~pendingCR)
    /\ InChunk /\ lang # "rust" => line = <<>>
    /\ phase # "TRAILERS" => hline = <<>> /\ ~hpending
    /\ lang = "rust" /\ phase = "SIZE_LF" => rem = ParseChunkSizeRust(line)

Tracks ==
  rc = 0 =>
    /\ state = "incomplete" =>
         \A w \in Seq(STRING) : Meaning(Consumed \o w) = Behind(body, Resume(w))
    /\ state = "complete" =>
         \A w \in Seq(STRING) : Meaning(Consumed \o w) = Finished(body, surplus \o w)
    /\ state = "invalid" =>
         /\ \A w \in Seq(STRING) \ {<<>>} : Meaning(Consumed \o w) = Malformed(body)
         /\ \/ Meaning(Consumed) = Malformed(body)
            \/ lang = "rust" /\ Meaning(Consumed) = Open(body)

LEMMA Sizes ==
  ASSUME lang \in {"c", "go", "rust"}
  PROVE  /\ SizeInLang \in SizeFunction
         /\ \A l \in Seq(STRING) :
              /\ lang = "c" => SizeInLang[l] = ParseChunkSizeC(l)
              /\ lang = "go" => SizeInLang[l] = FinishChunkSizeGo(l)
              /\ lang = "rust" => SizeInLang[l] = ParseChunkSizeRust(l)
              /\ SizeInLang[l] \in (0 .. SizeLimit) \cup {BAD}
<1>1. SizeLimit \in Nat /\ SIZE_MAX \in Nat /\ SIZE_MAX \div 2 \in Nat
  BY SizeMaxAssumption DEF SizeLimit
<1>2. ASSUME NEW l \in Seq(STRING)
      PROVE  /\ SizeInLang[l] = HexSize(UnsignedPart(l), SizeLimit)
             /\ UnsignedPart(l) = IF lang = "rust" THEN Unsigned(l) ELSE l
             /\ UnsignedPart(l) \in Seq(STRING)
  <2>1. Unsigned(l) \in Seq(STRING)
    BY SizeLines
  <2>2. UnsignedPart(l) = IF lang = "rust" THEN Unsigned(l) ELSE l
    BY DEF UnsignedPart, Unsigned
  <2> QED BY <2>1, <2>2 DEF SizeInLang
<1>3. \A l \in Seq(STRING) : SizeInLang[l] \in (0 .. SizeLimit) \cup {BAD}
  BY <1>1, <1>2, SizeType
<1>4. SizeInLang \in SizeFunction
  <2>1. SizeInLang = [l \in Seq(STRING) |-> SizeInLang[l]]
    BY DEF SizeInLang
  <2>2. \A l \in Seq(STRING) : SizeInLang[l] \in Nat \cup {BAD}
    BY <1>1, <1>3
  <2> HIDE DEF SizeInLang
  <2> QED BY <2>1, <2>2 DEF SizeFunction
<1>5. ASSUME NEW l \in Seq(STRING)
      PROVE  /\ lang = "c" => SizeInLang[l] = ParseChunkSizeC(l)
             /\ lang = "go" => SizeInLang[l] = FinishChunkSizeGo(l)
             /\ lang = "rust" => SizeInLang[l] = ParseChunkSizeRust(l)
  BY <1>2, SizeLines DEF SizeLimit
<1> QED BY <1>3, <1>4, <1>5

\* The three header parsers accept exactly the field lines of the grammar.
LEMMA FieldLines ==
  ASSUME NEW l \in Seq(STRING), l # <<>>
  PROVE  /\ ParseHeaderLineC(l) # {} <=> FieldLine(l)
         /\ AddHeaderGo(l) # {} <=> FieldLine(l)
         /\ AddHeaderRust(l) # {} <=> FieldLine(l)
<1>1. Len(l) \in Nat /\ DOMAIN l = 1 .. Len(l)
  BY LenProperties
<1>2. ":" \notin Control /\ OptionalWhitespace \subseteq Control
  BY DEF Control, OptionalWhitespace
<1>3. (l[1] \notin OptionalWhitespace /\ \E c \in ColonWalk(l) : c # 1) <=> FieldLine(l)
  <2>1. ASSUME NEW c \in ColonWalk(l), c # 1
        PROVE  FieldLine(l)
    <3>1. c \in 2 .. Len(l) /\ l[c] = ":" /\ \A i \in 1 .. c - 1 : l[i] \notin Control \cup {":"}
      BY <1>1, <2>1 DEF ColonWalk
    <3> QED BY <3>1 DEF FieldLine
  <2>2. ASSUME FieldLine(l)
        PROVE  l[1] \notin OptionalWhitespace /\ \E c \in ColonWalk(l) : c # 1
    <3>1. PICK c \in 2 .. Len(l) : l[c] = ":" /\ \A i \in 1 .. c - 1 : l[i] \notin Control \cup {":"}
      BY <2>2 DEF FieldLine
    <3>2. c \in ColonWalk(l) /\ c # 1 /\ 1 \in 1 .. c - 1
      BY <1>1, <3>1 DEF ColonWalk
    <3> QED BY <1>2, <3>1, <3>2
  <2> QED BY <2>1, <2>2
<1>4. ParseHeaderLineC(l) # {} <=> FieldLine(l)
  BY <1>3 DEF ParseHeaderLineC
<1>5. AddHeaderGo(l) # {} <=> FieldLine(l)
  BY <1>3 DEF AddHeaderGo
<1>6. AddHeaderRust(l) # {} <=> FieldLine(l)
  <2> DEFINE colons == {c \in DOMAIN l : l[c] = ":"}
             d == Min(colons)
  <2>1. AddHeaderRust(l) # {} <=>
          /\ l[1] \notin OptionalWhitespace /\ colons # {}
          /\ d # 1 /\ \A i \in 1 .. d - 1 : l[i] \notin Control
    BY DEF AddHeaderRust
  <2>2. colons \in SUBSET Nat /\ \A c : c \in colons <=> c \in 1 .. Len(l) /\ l[c] = ":"
    BY <1>1
  <2> HIDE DEF colons
  <2>3. colons # {} => d \in colons /\ \A c \in colons : d <= c
    BY <2>2, MinFacts
  <2> HIDE DEF d
  <2>4. ASSUME l[1] \notin OptionalWhitespace, colons # {}, d # 1,
               \A i \in 1 .. d - 1 : l[i] \notin Control
        PROVE  FieldLine(l)
    <3>1. d \in 2 .. Len(l) /\ l[d] = ":"
      BY <1>1, <2>2, <2>3, <2>4
    <3>2. \A i \in 1 .. d - 1 : l[i] # ":"
      <4> SUFFICES ASSUME NEW i \in 1 .. d - 1, l[i] = ":" PROVE FALSE
        OBVIOUS
      <4>1. i \in colons /\ i < d
        BY <1>1, <2>2, <3>1
      <4> QED BY <2>3, <2>4, <3>1, <4>1
    <3> QED BY <2>4, <3>1, <3>2 DEF FieldLine
  <2>5. ASSUME FieldLine(l)
        PROVE  /\ l[1] \notin OptionalWhitespace /\ colons # {}
               /\ d # 1 /\ \A i \in 1 .. d - 1 : l[i] \notin Control
    <3>1. PICK c \in 2 .. Len(l) : l[c] = ":" /\ \A i \in 1 .. c - 1 : l[i] \notin Control \cup {":"}
      BY <2>5 DEF FieldLine
    <3>2. c \in colons
      BY <1>1, <2>2, <3>1
    <3>3. d \in colons /\ d <= c /\ d \in 1 .. Len(l) /\ l[d] = ":"
      BY <2>2, <2>3, <3>2
    <3>4. d = c
      BY <1>1, <3>1, <3>3
    <3>5. 1 \in 1 .. c - 1 /\ c # 1
      BY <1>1
    <3> QED BY <1>2, <3>1, <3>2, <3>4, <3>5
  <2> QED BY <2>1, <2>4, <2>5
<1> QED BY <1>4, <1>5, <1>6

\* The bytes a step passes over, behind those consumed before it.
Passed == SubSeq(input, pos + 1, pos')

LEMMA PassedBytes ==
  ASSUME ValuesOK, ValuesOK', pos < lim, pos < pos', input' = input
  PROVE  /\ Consumed \in Seq(STRING) /\ Passed \in Seq(STRING) /\ Passed # <<>>
         /\ Consumed' = Consumed \o Passed
         /\ Passed = <<Byte>> \o SubSeq(input, pos + 2, pos')
         /\ SubSeq(input, pos + 2, pos') \in Seq(STRING)
         /\ pos' = pos + 1 => SubSeq(input, pos + 2, pos') = <<>> /\ Passed = <<Byte>>
<1> DEFINE n == pos'
           rest == SubSeq(input, pos + 2, n)
<1>1. /\ input \in Seq(STRING) /\ pos \in Nat /\ n \in Nat /\ pos < n /\ Len(input) \in Nat
      /\ n \in 0 .. Len(input) /\ pos \in 0 .. Len(input)
  BY StreamsAssumption, LenProperties DEF ValuesOK
<1> HIDE DEF n
<1>2. /\ pos + 1 \in Nat \ {0} /\ pos + 2 \in Nat \ {0} /\ 1 \in Nat \ {0} /\ 1 \in 1 .. pos + 1
      /\ pos \in 0 .. n /\ (pos + 1) + 1 = pos + 2 /\ pos + 1 \in 0 .. n
      /\ pos + 1 \in 1 .. (pos + 1) + 1 /\ pos \in 0 .. Len(input) - 1
  BY <1>1
<1>3. /\ SubSeq(input, 1, pos) \in Seq(STRING)
      /\ rest \in Seq(STRING)
      /\ SubSeq(input, pos + 1, n) \in Seq(STRING)
      /\ Len(SubSeq(input, pos + 1, n)) = IF pos + 1 <= n THEN n - (pos + 1) + 1 ELSE 0
  BY <1>1, <1>2, WindowType
<1>4. SubSeq(input, pos + 1, n) # <<>>
  <2>1. Len(SubSeq(input, pos + 1, n)) # 0
    BY <1>1, <1>3
  <2> QED BY <2>1, EmptySeq
<1>5. SubSeq(input, 1, pos) \o SubSeq(input, pos + 1, n) = SubSeq(input, 1, n)
  BY <1>1, <1>2, WindowsJoin
<1>6. SubSeq(input, pos + 1, pos + 1) \o SubSeq(input, (pos + 1) + 1, n) = SubSeq(input, pos + 1, n)
  BY <1>1, <1>2, WindowsJoin
<1>7. SubSeq(input, pos + 1, pos + 1) = <<Byte>>
  <2> DEFINE e == SubSeq(input, pos + 1, pos)
             b == input[pos + 1]
  <2>1. Append(e, b) = SubSeq(input, pos + 1, pos + 1)
    BY <1>1, <1>2, WindowGrows
  <2>2. e = <<>>
    BY <1>1, SubSeqEmpty
  <2> HIDE DEF e, b
  <2>3. Append(<<>>, b) = <<b>>
    OBVIOUS
  <2>4. <<b>> = SubSeq(input, pos + 1, pos + 1)
    BY <2>1, <2>2, <2>3
  <2> QED BY <2>4 DEF b, Byte
<1>8. n = pos + 1 => rest = <<>>
  BY <1>1, SubSeqEmpty
<1>9. SubSeq(input, pos + 1, n) = <<Byte>> \o rest
  BY <1>2, <1>6, <1>7
<1> QED BY <1>3, <1>4, <1>5, <1>7, <1>8, <1>9 DEF Consumed, Passed, n

\* What a step does with the byte it reads, in terms of Resume.
Skipped == SubSeq(input, pos + 2, pos')
ReadsOn ==
  /\ state' = "incomplete" /\ pos' = pos + 1
  /\ \/ /\ body' = body
        /\ \A w \in Seq(STRING) : Resume(<<Byte>> \o w) = Resume(w)'
     \/ /\ body' = Append(body, Byte)
        /\ \A w \in Seq(STRING) : Resume(<<Byte>> \o w) = Behind(<<Byte>>, Resume(w)')
Completes ==
  /\ state' = "complete" /\ body' = body /\ surplus' = Skipped
  /\ \A w \in Seq(STRING) : Resume(<<Byte>> \o w) = Finished(<<>>, w)
Breaks ==
  /\ state' = "invalid" /\ body' = body
  /\ \A w \in Seq(STRING) : Resume(<<Byte>> \o w) = Malformed(<<>>)
BreaksEarly ==
  /\ state' = "invalid" /\ body' = body /\ pos' = pos + 1 /\ lang = "rust"
  /\ Resume(<<Byte>>) = Open(<<>>)
  /\ \A w \in Seq(STRING) \ {<<>>} : Resume(<<Byte>> \o w) = Malformed(<<>>)

LEMMA ResumeTypeNext ==
  ASSUME TypeOK', NEW w \in Seq(STRING)
  PROVE  Resume(w)' \in Result
<1>1. Mode' \in Modes /\ Collected' \in Seq(STRING) /\ rem' \in Nat
  BY SizeMaxAssumption DEF TypeOK, ValuesOK, Mode, Modes, Collected, Size
<1>2. AtCr' \in BOOLEAN
  BY Zenon DEF TypeOK, FlagsOK, AtCr
<1>3. SizeInLang' \in SizeFunction
  <2>1. SizeLimit' \in Nat
    BY SizeMaxAssumption DEF SizeLimit
  <2>2. ASSUME NEW l \in Seq(STRING)
        PROVE  HexSize(UnsignedPart(l)', SizeLimit') \in Nat \cup {BAD}
    <3>1. UnsignedPart(l)' = IF lang' = "rust" THEN Unsigned(l) ELSE l
      BY DEF UnsignedPart, Unsigned
    <3>2. UnsignedPart(l)' \in Seq(STRING)
      BY <3>1, SizeLines
    <3> QED BY <2>1, <3>2, SizeType
  <2> QED BY <2>2 DEF SizeInLang, SizeFunction
<1> QED BY <1>1, <1>2, <1>3, RestResult DEF Resume

LEMMA Tracking ==
  ASSUME TypeOK, TypeOK', Tracks, state = "incomplete", rc = 0, pos < lim, pos < pos',
         UNCHANGED <<input, lang>>, ReadsOn \/ Completes \/ Breaks \/ BreaksEarly
  PROVE  Tracks'
<1>0. body \in Seq(STRING) /\ Byte \in STRING /\ <<Byte>> \in Seq(STRING)
  BY ByteFacts, OneElement DEF TypeOK, ValuesOK
<1>1. /\ Consumed \in Seq(STRING) /\ Passed \in Seq(STRING)
      /\ Consumed' = Consumed \o Passed /\ Passed = <<Byte>> \o Skipped
      /\ Skipped \in Seq(STRING)
      /\ pos' = pos + 1 => Skipped = <<>> /\ Passed = <<Byte>>
  BY PassedBytes DEF TypeOK, Skipped
<1>2. ASSUME NEW w \in Seq(STRING)
      PROVE  /\ Skipped \o w \in Seq(STRING)
             /\ Meaning(Consumed \o w)' = Behind(body, Resume(<<Byte>> \o (Skipped \o w)))
  <2> DEFINE c == Consumed
             b == <<Byte>>
             r == Skipped
             p == b \o r
             u == r \o w
             v == b \o u
  <2>1. c \in Seq(STRING) /\ b \in Seq(STRING) /\ r \in Seq(STRING)
    BY <1>0, <1>1
  <2> HIDE DEF c, b, r
  <2>2. u \in Seq(STRING) /\ p \in Seq(STRING)
    BY <2>1, ConcatParts
  <2>3. p \o w = v
    BY ONLY <2>1, w \in Seq(STRING), ConcatAssociative DEF p, v, u
  <2> HIDE DEF p, u, v
  <2>4. (c \o p) \o w = c \o (p \o w)
    BY ONLY <2>1, <2>2, w \in Seq(STRING), ConcatAssociative
  <2>5. v \in Seq(STRING)
    BY <2>1, <2>2, ConcatParts DEF v
  <2>6. Consumed' \o w = c \o v
    BY <1>1, <2>3, <2>4 DEF c, b, r, p
  <2>7. Meaning(c \o v) = Behind(body, Resume(v))
    BY <2>5 DEF Tracks, c
  <2>8. Meaning(Consumed \o w)' = Decode(Consumed' \o w, SizeInLang)
    BY DEF Meaning, SizeInLang, UnsignedPart, SizeLimit
  <2> QED BY <2>2, <2>6, <2>7, <2>8 DEF Meaning, v, u, b, r
<1>3. <<>> \in Seq(STRING) /\ \A w \in Seq(STRING) : <<>> \o w = w /\ w \o <<>> = w
  BY EmptySeq, ConcatEmptySeq
<1>4. Meaning(Consumed)' = Behind(body, Resume(<<Byte>> \o Skipped))
  <2> DEFINE c == Consumed'
  <2>1. c \in Seq(STRING)
    BY <1>1, ConcatParts
  <2> HIDE DEF c
  <2>2. c \o <<>> = c
    BY <1>3, <2>1
  <2>3. Meaning(Consumed)' = Meaning(Consumed \o <<>>)'
    BY <2>2 DEF Meaning, c
  <2>4. Skipped \o <<>> = Skipped
    BY <1>1, <1>3
  <2> QED BY <1>2, <1>3, <2>3, <2>4
<1>5. CASE ReadsOn
  <2>1. Skipped = <<>>
    BY <1>1, <1>5 DEF ReadsOn
  <2>2. ASSUME NEW w \in Seq(STRING)
        PROVE  Meaning(Consumed \o w)' = Behind(body', Resume(w)')
    <3>1. Meaning(Consumed \o w)' = Behind(body, Resume(<<Byte>> \o w))
      BY <1>2, <1>3, <2>1
    <3>2. CASE body' = body /\ Resume(<<Byte>> \o w) = Resume(w)'
      BY <3>1, <3>2
    <3>3. CASE body' = Append(body, Byte) /\ Resume(<<Byte>> \o w) = Behind(<<Byte>>, Resume(w)')
      <4>1. Append(body, Byte) = body \o <<Byte>>
        BY <1>0, AppendIsConcat
      <4>2. Resume(w)' \in Result
        BY ResumeTypeNext
      <4>3. Behind(body, Behind(<<Byte>>, Resume(w)')) = Behind(body \o <<Byte>>, Resume(w)')
        BY <1>0, <4>2, BehindBehind
      <4> QED BY <3>1, <3>3, <4>1, <4>3
    <3> QED BY <1>5, <3>2, <3>3 DEF ReadsOn
  <2> QED BY <1>5, <2>2 DEF Tracks, ReadsOn
<1>6. CASE Completes
  <2>1. ASSUME NEW w \in Seq(STRING)
        PROVE  Meaning(Consumed \o w)' = Finished(body, Skipped \o w)
    BY <1>0, <1>2, <1>6, BehindEnds DEF Completes
  <2> QED BY <1>6, <2>1 DEF Tracks, Completes
<1>7. CASE Breaks
  <2>1. ASSUME NEW w \in Seq(STRING)
        PROVE  Meaning(Consumed \o w)' = Malformed(body)
    BY <1>0, <1>2, <1>7, BehindEnds DEF Breaks
  <2>2. Meaning(Consumed)' = Malformed(body)
    BY <1>0, <1>1, <1>4, <1>7, BehindEnds DEF Breaks
  <2> QED BY <1>7, <2>1, <2>2 DEF Tracks, Breaks
<1>8. CASE BreaksEarly
  <2>1. Skipped = <<>> /\ Passed = <<Byte>>
    BY <1>1, <1>8 DEF BreaksEarly
  <2>2. ASSUME NEW w \in Seq(STRING) \ {<<>>}
        PROVE  Meaning(Consumed \o w)' = Malformed(body)
    BY <1>0, <1>2, <1>3, <1>8, <2>1, BehindEnds DEF BreaksEarly
  <2>3. Meaning(Consumed)' = Open(body)
    BY <1>0, <1>1, <1>4, <1>8, <2>1, BehindEnds DEF BreaksEarly
  <2> QED BY <1>8, <2>2, <2>3 DEF Tracks, BreaksEarly
<1> QED BY <1>5, <1>6, <1>7, <1>8

\* The same for the bytes behind a verdict.
LEMMA TrackingBehind ==
  ASSUME TypeOK, TypeOK', Tracks, state # "incomplete", rc = 0, pos < lim, pos < pos',
         UNCHANGED <<input, lang, state, body>>,
         surplus' = IF state = "complete" THEN surplus \o Passed ELSE surplus
  PROVE  Tracks'
<1>1. /\ Consumed \in Seq(STRING) /\ Passed \in Seq(STRING) /\ Passed # <<>>
      /\ Consumed' = Consumed \o Passed
  BY PassedBytes DEF TypeOK
<1>2. surplus \in Seq(STRING) /\ state \in {"complete", "invalid"}
  BY DEF TypeOK, ValuesOK
<1>3. ASSUME NEW w \in Seq(STRING)
      PROVE  /\ Passed \o w \in Seq(STRING) \ {<<>>}
             /\ Meaning(Consumed \o w)' = Meaning(Consumed \o (Passed \o w))
             /\ (surplus \o Passed) \o w = surplus \o (Passed \o w)
  <2> DEFINE c == Consumed
             p == Passed
             u == p \o w
  <2>1. c \in Seq(STRING) /\ p \in Seq(STRING) /\ p # <<>>
    BY <1>1
  <2> HIDE DEF c, p
  <2>2. u \in Seq(STRING) /\ Len(u) = Len(p) + Len(w) /\ Len(p) # 0
        /\ Len(p) \in Nat /\ Len(w) \in Nat
    BY <2>1, ConcatParts, EmptySeq, LenProperties
  <2>3. u # <<>>
    <3> HIDE DEF u
    <3>1. Len(u) # 0
      BY <2>2
    <3> QED BY <3>1, EmptySeq
  <2>4. (c \o p) \o w = c \o (p \o w)
    BY ONLY <2>1, w \in Seq(STRING), ConcatAssociative
  <2>5. (surplus \o p) \o w = surplus \o (p \o w)
    BY ONLY <1>2, <2>1, w \in Seq(STRING), ConcatAssociative
  <2>6. Meaning(Consumed \o w)' = Decode(Consumed' \o w, SizeInLang)
    BY DEF Meaning, SizeInLang, UnsignedPart, SizeLimit
  <2> QED BY <1>1, <2>2, <2>3, <2>4, <2>5, <2>6 DEF Meaning, c, p
<1>4. CASE state = "complete"
  <2>1. ASSUME NEW w \in Seq(STRING)
        PROVE  Meaning(Consumed \o w)' = Finished(body, surplus' \o w)
    BY <1>3, <1>4 DEF Tracks
  <2> QED BY <1>4, <2>1 DEF Tracks
<1>5. CASE state = "invalid"
  <2>1. ASSUME NEW w \in Seq(STRING)
        PROVE  Meaning(Consumed \o w)' = Malformed(body)
    BY <1>3, <1>5 DEF Tracks
  <2>2. Meaning(Consumed)' = Malformed(body)
    <3> DEFINE c == Consumed'
    <3>1. c \in Seq(STRING)
      BY <1>1, ConcatParts
    <3> HIDE DEF c
    <3>2. c \o <<>> = c /\ <<>> \in Seq(STRING)
      BY <3>1, ConcatEmptySeq, EmptySeq
    <3>3. Meaning(Consumed)' = Meaning(Consumed \o <<>>)'
      BY <3>2 DEF Meaning, c
    <3> QED BY <2>1, <3>2, <3>3
  <2> QED BY <1>5, <2>1, <2>2 DEF Tracks
<1> QED BY <1>2, <1>4, <1>5

\* The decoder is about to read a byte.
Reading == Inv /\ Collects /\ rc = 0 /\ state = "incomplete" /\ pos < lim
Outcome == ReadsOn \/ Completes \/ Breaks \/ BreaksEarly

LEMMA ReadingFacts ==
  ASSUME Reading
  PROVE  /\ Byte \in STRING /\ line \in Seq(STRING) /\ hline \in Seq(STRING)
         /\ Plain(line) /\ Plain(hline)
         /\ rem \in Nat /\ SizeInLang \in SizeFunction
         /\ surplus = <<>>
         /\ lang' = lang => SizeInLang' = SizeInLang
         /\ pos' = pos + 1 => Skipped = <<>>
         /\ \A w \in Seq(STRING) : <<Byte>> \o w \in Seq(STRING)
         /\ phase \in {"SIZE", "DATA_CR", "DATA_LF", "TRAILERS"} => rem = 0
         /\ phase = "DATA" => rem \in Nat \ {0}
<1>1. Byte \in STRING
  BY ByteFacts DEF Reading, Inv, TypeOK
<1>2. /\ line \in Seq(STRING) /\ hline \in Seq(STRING) /\ rem \in Nat
      /\ pos \in Nat /\ lang \in {"c", "go", "rust"}
  BY SizeMaxAssumption DEF Reading, Inv, TypeOK, ValuesOK, Size
<1>3. Plain(line) /\ Plain(hline)
  BY DEF Reading, Collects
<1>4. surplus = <<>>
  BY DEF Reading, Inv, SurplusIsTail
<1>5. lang' = lang => SizeInLang' = SizeInLang
  BY DEF SizeInLang, UnsignedPart, SizeLimit
<1>6. pos' = pos + 1 => Skipped = <<>>
  BY <1>2, SubSeqEmpty DEF Skipped
<1>7. \A w \in Seq(STRING) : <<Byte>> \o w \in Seq(STRING)
  BY <1>1, InFront DEF Headed
<1>8. /\ phase \in {"SIZE", "DATA_CR", "DATA_LF", "TRAILERS"} => rem = 0
      /\ phase = "DATA" => rem \in Nat \ {0}
  BY <1>2 DEF Reading, Inv, NoUnderflow
<1> QED BY <1>1, <1>2, <1>3, <1>4, <1>5, <1>6, <1>7, <1>8, Sizes


\* The value of Resume, before and after the step, with the flag resolved.
LEMMA ResumeIs ==
  ASSUME Reading, lang' = lang, NEW w \in Seq(STRING)
  PROVE  /\ ~AtCr => Resume(w) = Rest(Mode, Collected, FALSE, rem, w, SizeInLang)
         /\ AtCr => Resume(w) = Rest(Mode, Collected, TRUE, rem, w, SizeInLang)
         /\ ~AtCr' => Resume(w)' = Rest(Mode', Collected', FALSE, rem', w, SizeInLang)
         /\ AtCr' => Resume(w)' = Rest(Mode', Collected', TRUE, rem', w, SizeInLang)
         /\ Resume(w) = Rest(Mode, Collected, AtCr, rem, w, SizeInLang)
         /\ Resume(w)' = Rest(Mode', Collected', AtCr', rem', w, SizeInLang)
<1>1. SizeInLang' = SizeInLang
  BY ReadingFacts
<1>2. /\ Resume(w) = Rest(Mode, Collected, AtCr, rem, w, SizeInLang)
      /\ Resume(w)' = Rest(Mode', Collected', AtCr', rem', w, SizeInLang)
  BY <1>1 DEF Resume
<1>3. \A m, l, c, n, s :
        /\ ~c => Rest(m, l, c, n, w, s) = Rest(m, l, FALSE, n, w, s)
        /\ c => Rest(m, l, c, n, w, s) = Rest(m, l, TRUE, n, w, s)
  BY DEF Rest, Held
<1> QED BY <1>2, <1>3

LEMMA CollectedType ==
  ASSUME Reading
  PROVE  Collected \in Seq(STRING) /\ Plain(Collected)
BY ReadingFacts DEF Collected

(* What one byte does, whatever the language. *)
Quiet == Reading /\ lang' = lang /\ body' = body
Moves == Quiet /\ state' = "incomplete" /\ pos' = pos + 1
Ends  == Quiet /\ state' = "invalid"
OnALine == Mode \in {"SIZE", "TRAILERS"}

LEMMA LineGrows ==
  ASSUME Moves, OnALine, ~AtCr, Mode' = Mode,
         \/ Byte \notin {CR, LF} /\ Collected' = Append(Collected, Byte) /\ ~AtCr'
         \/ Byte = CR /\ Collected' = Collected /\ AtCr'
  PROVE  ReadsOn
<1>1. Reading /\ lang' = lang
  BY DEF Moves, Quiet
<1>2. PICK l \in Seq(STRING) : l = Collected /\ Plain(l)
  BY <1>1, CollectedType
<1>3. PICK b \in STRING : b = Byte
  BY <1>1, ReadingFacts
<1>4. PICK s \in SizeFunction : s = SizeInLang
  BY <1>1, ReadingFacts
<1>5. PICK m \in {"SIZE", "TRAILERS"} : m = Mode
  BY DEF OnALine
<1>6. PICK n : n = rem
  OBVIOUS
<1>7. ASSUME NEW w \in Seq(STRING) PROVE Resume(<<Byte>> \o w) = Resume(w)'
  <2>1. PICK u \in Seq(STRING) : u = <<b>> \o w
    BY InFront DEF Headed
  <2>2. PICK v : v = Append(l, b)
    OBVIOUS
  <2> LineGoesOn(m, l, b, n, w, s)
    BY <1>2, LineByte
  <2>3. Rest(m, l, FALSE, n, u, s) = Rest(m, v, FALSE, n, w, s)
    BY <2>1, <2>2 DEF LineGoesOn
  <2>4. Rest(m, l, FALSE, n, <<CR>> \o w, s) = Rest(m, l, TRUE, n, w, s)
    BY DEF LineGoesOn
  <2>5. Resume(u) = Rest(m, l, FALSE, n, u, s)
    BY <1>1, <1>2, <1>4, <1>5, <1>6, ResumeIs
  <2>6. /\ ~AtCr' => Resume(w)' = Rest(m, Collected', FALSE, n, w, s)
        /\ AtCr' => Resume(w)' = Rest(m, Collected', TRUE, n, w, s)
    <3>1. /\ ~AtCr' => Resume(w)' = Rest(m, Collected', FALSE, rem', w, s)
          /\ AtCr' => Resume(w)' = Rest(m, Collected', TRUE, rem', w, s)
      BY <1>1, <1>4, <1>5, ResumeIs
    <3>2. /\ Rest(m, Collected', FALSE, rem', w, s) = Rest(m, Collected', FALSE, n, w, s)
          /\ Rest(m, Collected', TRUE, rem', w, s) = Rest(m, Collected', TRUE, n, w, s)
      BY DEF Rest
    <3> QED BY <3>1, <3>2
  <2>7. CASE Byte \notin {CR, LF} /\ Collected' = Append(Collected, Byte) /\ ~AtCr'
    BY <1>2, <1>3, <2>1, <2>2, <2>3, <2>5, <2>6, <2>7
  <2>8. CASE Byte = CR /\ Collected' = Collected /\ AtCr'
    BY <1>2, <1>3, <2>1, <2>4, <2>5, <2>6, <2>8
  <2> QED BY <2>7, <2>8
<1> QED BY <1>7 DEF ReadsOn, Moves, Quiet

LEMMA LineBreaks ==
  ASSUME Ends, OnALine, IF AtCr THEN Byte # LF ELSE Byte = LF
  PROVE  Breaks
<1>1. Reading /\ lang' = lang
  BY DEF Ends, Quiet
<1>2. PICK l \in Seq(STRING) : l = Collected /\ Plain(l)
  BY <1>1, CollectedType
<1>3. PICK b \in STRING : b = Byte
  BY <1>1, ReadingFacts
<1>4. PICK s \in SizeFunction : s = SizeInLang
  BY <1>1, ReadingFacts
<1>5. PICK m \in {"SIZE", "TRAILERS"} : m = Mode
  BY DEF OnALine
<1>6. PICK n : n = rem
  OBVIOUS
<1>7. ASSUME NEW w \in Seq(STRING) PROVE Resume(<<Byte>> \o w) = Malformed(<<>>)
  <2>1. PICK u \in Seq(STRING) : u = <<b>> \o w
    BY InFront DEF Headed
  <2> LineGoesOn(m, l, b, n, w, s)
    BY <1>2, LineByte
  <2>2. /\ Rest(m, l, FALSE, n, <<LF>> \o w, s) = Malformed(<<>>)
        /\ b # LF => Rest(m, l, TRUE, n, <<b>> \o w, s) = Malformed(<<>>)
    BY DEF LineGoesOn
  <2>3. /\ ~AtCr => Resume(u) = Rest(m, l, FALSE, n, u, s)
        /\ AtCr => Resume(u) = Rest(m, l, TRUE, n, u, s)
    BY <1>1, <1>2, <1>4, <1>5, <1>6, ResumeIs
  <2> QED BY <1>3, <2>1, <2>2, <2>3
<1> QED BY <1>7 DEF Breaks, Ends, Quiet

LEMMA SizeLineEnds ==
  ASSUME Quiet, Mode = "SIZE", AtCr, Byte = LF
  PROVE  /\ SizeInLang[Collected] = BAD /\ state' = "invalid" => Breaks
         /\ /\ state' = "incomplete" /\ pos' = pos + 1 /\ SizeInLang[Collected] = 0
            /\ Mode' = "TRAILERS" /\ Collected' = <<>> /\ ~AtCr'
            => ReadsOn
         /\ /\ state' = "incomplete" /\ pos' = pos + 1 /\ SizeInLang[Collected] \in Nat \ {0}
            /\ Mode' = "DATA" /\ rem' = SizeInLang[Collected]
            => ReadsOn
<1>1. Reading /\ lang' = lang
  BY DEF Quiet
<1>2. PICK l \in Seq(STRING) : l = Collected /\ Plain(l)
  BY <1>1, CollectedType
<1>4. PICK s \in SizeFunction : s = SizeInLang
  BY <1>1, ReadingFacts
<1>5. PICK n : n = rem
  OBVIOUS
<1>6. PICK k : k = rem'
  OBVIOUS
<1>7. BAD \notin Nat
  BY DEF BAD
<1>8. ASSUME NEW w \in Seq(STRING)
      PROVE  /\ Resume(<<Byte>> \o w) =
                  IF s[l] = BAD THEN Malformed(<<>>)
                  ELSE IF s[l] = 0 THEN Rest("TRAILERS", <<>>, FALSE, k, w, s)
                  ELSE Rest("DATA", <<>>, FALSE, s[l], w, s)
             /\ Mode' = "TRAILERS" /\ Collected' = <<>> /\ ~AtCr' =>
                  Resume(w)' = Rest("TRAILERS", <<>>, FALSE, k, w, s)
             /\ Mode' = "DATA" /\ rem' = s[l] =>
                  Resume(w)' = Rest("DATA", <<>>, FALSE, s[l], w, s)
  <2>1. PICK u \in Seq(STRING) : u = <<LF>> \o w
    BY InFront, LineEndAssumption DEF Headed
  <2>2. Rest("SIZE", l, TRUE, n, <<LF>> \o w, s) =
          IF s[l] = BAD THEN Malformed(<<>>)
          ELSE IF s[l] = 0 THEN Rest("TRAILERS", <<>>, FALSE, k, w, s)
          ELSE Rest("DATA", <<>>, FALSE, s[l], w, s)
    <3>1. LineIsDone(l, n, w, s, k, <<>>)
      BY <1>2, LineDone
    <3> QED BY <3>1 DEF LineIsDone
  <2>3. Resume(u) = Rest("SIZE", l, TRUE, n, u, s)
    BY <1>1, <1>2, <1>4, <1>5, ResumeIs
  <2>4. Mode' = "TRAILERS" /\ Collected' = <<>> /\ ~AtCr' => Resume(w)' = Rest("TRAILERS", <<>>, FALSE, k, w, s)
    BY <1>1, <1>4, <1>6, ResumeIs
  <2>5. Mode' = "DATA" /\ rem' = s[l] => Resume(w)' = Rest("DATA", <<>>, FALSE, s[l], w, s)
    <3>1. Mode' = "DATA" /\ rem' = s[l] => Resume(w)' = Rest("DATA", Collected', AtCr', s[l], w, s)
      BY <1>1, <1>4, ResumeIs
    <3>2. Rest("DATA", Collected', AtCr', s[l], w, s) = Rest("DATA", <<>>, FALSE, s[l], w, s)
      BY DEF Rest
    <3> QED BY <3>1, <3>2
  <2>6. u = <<Byte>> \o w
    BY <2>1
  <2>7. Resume(<<Byte>> \o w) = Rest("SIZE", l, TRUE, n, <<LF>> \o w, s)
    BY <2>1, <2>3, <2>6
  <2> QED BY <2>2, <2>4, <2>5, <2>7
<1>9. SizeInLang[Collected] = s[l]
  BY <1>2, <1>4
<1>10. s[l] = BAD /\ state' = "invalid" => Breaks
  BY <1>8 DEF Breaks, Quiet
<1>11. /\ state' = "incomplete" /\ pos' = pos + 1 /\ s[l] = 0
       /\ Mode' = "TRAILERS" /\ Collected' = <<>> /\ ~AtCr'
       => ReadsOn
  <2>1. s[l] = 0 => s[l] # BAD
    BY <1>7
  <2> QED BY <1>8, <2>1 DEF ReadsOn, Quiet
<1>12. /\ state' = "incomplete" /\ pos' = pos + 1 /\ s[l] \in Nat \ {0}
       /\ Mode' = "DATA" /\ rem' = s[l]
       => ReadsOn
  <2>1. s[l] \in Nat \ {0} => s[l] # BAD /\ s[l] # 0
    BY <1>7
  <2> QED BY <1>8, <2>1 DEF ReadsOn, Quiet
<1> QED BY <1>9, <1>10, <1>11, <1>12

LEMMA TrailerLineEnds ==
  ASSUME Quiet, Mode = "TRAILERS", AtCr, Byte = LF
  PROVE  /\ Collected = <<>> /\ state' = "complete" /\ surplus' = Skipped => Completes
         /\ /\ Collected # <<>> /\ FieldLine(Collected)
            /\ state' = "incomplete" /\ pos' = pos + 1
            /\ Mode' = "TRAILERS" /\ Collected' = <<>> /\ ~AtCr'
            => ReadsOn
         /\ Collected # <<>> /\ ~FieldLine(Collected) /\ state' = "invalid" => Breaks
<1>1. Reading /\ lang' = lang
  BY DEF Quiet
<1>2. PICK l \in Seq(STRING) : l = Collected /\ Plain(l)
  BY <1>1, CollectedType
<1>4. PICK s \in SizeFunction : s = SizeInLang
  BY <1>1, ReadingFacts
<1>5. PICK n : n = rem
  OBVIOUS
<1>6. PICK k : k = rem'
  OBVIOUS
<1>8. ASSUME NEW w \in Seq(STRING)
      PROVE  /\ Resume(<<Byte>> \o w) =
                  IF l = <<>> THEN Finished(<<>>, w)
                  ELSE IF FieldLine(l) THEN Rest("TRAILERS", <<>>, FALSE, k, w, s)
                  ELSE Malformed(<<>>)
             /\ Mode' = "TRAILERS" /\ Collected' = <<>> /\ ~AtCr' =>
                  Resume(w)' = Rest("TRAILERS", <<>>, FALSE, k, w, s)
  <2>1. PICK u \in Seq(STRING) : u = <<LF>> \o w
    BY InFront, LineEndAssumption DEF Headed
  <2>2. Rest("TRAILERS", l, TRUE, n, <<LF>> \o w, s) =
          IF l = <<>> THEN Finished(<<>>, w)
          ELSE IF FieldLine(l) THEN Rest("TRAILERS", <<>>, FALSE, k, w, s)
          ELSE Malformed(<<>>)
    <3>1. LineIsDone(l, n, w, s, k, <<>>)
      BY <1>2, LineDone
    <3> QED BY <3>1 DEF LineIsDone
  <2>3. Resume(u) = Rest("TRAILERS", l, TRUE, n, u, s)
    BY <1>1, <1>2, <1>4, <1>5, ResumeIs
  <2>4. Mode' = "TRAILERS" /\ Collected' = <<>> /\ ~AtCr' => Resume(w)' = Rest("TRAILERS", <<>>, FALSE, k, w, s)
    BY <1>1, <1>4, <1>6, ResumeIs
  <2>5. u = <<Byte>> \o w
    BY <2>1
  <2>6. Resume(<<Byte>> \o w) = Rest("TRAILERS", l, TRUE, n, <<LF>> \o w, s)
    BY <2>1, <2>3, <2>5
  <2> QED BY <2>2, <2>4, <2>6
<1>9. l = <<>> /\ state' = "complete" /\ surplus' = Skipped => Completes
  BY <1>8 DEF Completes, Quiet
<1>10. /\ l # <<>> /\ FieldLine(l) /\ state' = "incomplete" /\ pos' = pos + 1
       /\ Mode' = "TRAILERS" /\ Collected' = <<>> /\ ~AtCr'
       => ReadsOn
  BY <1>8 DEF ReadsOn, Quiet
<1>11. l # <<>> /\ ~FieldLine(l) /\ state' = "invalid" => Breaks
  BY <1>8 DEF Breaks, Quiet
<1> QED BY <1>2, <1>9, <1>10, <1>11

LEMMA DataReads ==
  ASSUME Reading, lang' = lang, state' = "incomplete", pos' = pos + 1,
         Mode = "DATA", rem \in Nat \ {0}, body' = Append(body, Byte),
         rem' = rem - 1, Mode' \in {"DATA", "DATA_CR"}
  PROVE  ReadsOn
<1>1. PICK b \in STRING : b = Byte
  BY ReadingFacts
<1>2. PICK s \in SizeFunction : s = SizeInLang
  BY ReadingFacts
<1>3. PICK m \in {"DATA", "DATA_CR"} : m = Mode'
  OBVIOUS
<1>4. PICK n \in Nat \ {0} : n = rem
  OBVIOUS
<1>7. ASSUME NEW w \in Seq(STRING) PROVE Resume(<<Byte>> \o w) = Behind(<<Byte>>, Resume(w)')
  <2>1. PICK u \in Seq(STRING) : u = <<b>> \o w
    BY InFront DEF Headed
  <2>2. DataGoesOn(b, n, w, s, <<>>, FALSE, <<>>, FALSE, 0)
    BY DataByte
  <2>3. Rest("DATA", <<>>, FALSE, n, u, s) = Behind(<<b>>, Rest(m, <<>>, FALSE, n - 1, w, s))
    BY <2>1, <2>2 DEF DataGoesOn
  <2>4. /\ Rest("DATA", Collected, AtCr, n, u, s) = Rest("DATA", <<>>, FALSE, n, u, s)
        /\ Rest(m, Collected', AtCr', n - 1, w, s) = Rest(m, <<>>, FALSE, n - 1, w, s)
    BY DEF Rest
  <2>5. Resume(u) = Rest("DATA", Collected, AtCr, n, u, s)
    BY <1>2, <1>4, ResumeIs
  <2>6. Resume(w)' = Rest(m, Collected', AtCr', n - 1, w, s)
    BY <1>2, <1>3, <1>4, ResumeIs
  <2>7. Resume(u) = Behind(<<b>>, Resume(w)')
    BY <2>3, <2>4, <2>5, <2>6
  <2> QED BY <1>1, <2>1, <2>7
<1> QED BY <1>7 DEF ReadsOn

LEMMA DataEndReads ==
  ASSUME Quiet, rem = 0
  PROVE  /\ Mode = "DATA_CR" =>
              /\ Byte # CR /\ state' = "invalid" => Breaks
              /\ /\ Byte = CR /\ state' = "incomplete" /\ pos' = pos + 1
                 /\ Mode' = "DATA_LF" /\ rem' = 0
                 => ReadsOn
         /\ Mode = "DATA_LF" =>
              /\ Byte # LF /\ state' = "invalid" => Breaks
              /\ /\ Byte = LF /\ state' = "incomplete" /\ pos' = pos + 1
                 /\ Mode' = "SIZE" /\ Collected' = <<>> /\ ~AtCr'
                 => ReadsOn
<1>1. Reading /\ lang' = lang
  BY DEF Quiet
<1>2. PICK b \in STRING : b = Byte
  BY <1>1, ReadingFacts
<1>3. PICK s \in SizeFunction : s = SizeInLang
  BY <1>1, ReadingFacts
<1>4. PICK k : k = rem'
  OBVIOUS
<1>5. ASSUME NEW w \in Seq(STRING)
      PROVE  /\ Mode = "DATA_CR" /\ b # CR => Resume(<<Byte>> \o w) = Malformed(<<>>)
             /\ Mode = "DATA_CR" /\ b = CR /\ Mode' = "DATA_LF" /\ rem' = 0 =>
                  Resume(<<Byte>> \o w) = Resume(w)'
             /\ Mode = "DATA_LF" /\ b # LF => Resume(<<Byte>> \o w) = Malformed(<<>>)
             /\ Mode = "DATA_LF" /\ b = LF /\ Mode' = "SIZE" /\ Collected' = <<>> /\ ~AtCr' =>
                  Resume(<<Byte>> \o w) = Resume(w)'
  <2>1. PICK u \in Seq(STRING) : u = <<b>> \o w
    BY InFront DEF Headed
  <2>2. DataGoesOn(b, 1, w, s, <<>>, FALSE, <<>>, FALSE, k)
    <3>1. 1 \in Nat \ {0}
      OBVIOUS
    <3> QED BY <3>1, DataByte
  <2>3. /\ b # CR => Rest("DATA_CR", <<>>, FALSE, 0, u, s) = Malformed(<<>>)
        /\ b = CR => Rest("DATA_CR", <<>>, FALSE, 0, u, s) = Rest("DATA_LF", <<>>, FALSE, 0, w, s)
        /\ b # LF => Rest("DATA_LF", <<>>, FALSE, 0, u, s) = Malformed(<<>>)
        /\ b = LF => Rest("DATA_LF", <<>>, FALSE, 0, u, s) = Rest("SIZE", <<>>, FALSE, k, w, s)
    BY <2>1, <2>2 DEF DataGoesOn
  <2>4. \A l1, c1, l2, c2, v :
          /\ Rest("DATA_CR", l1, c1, 0, v, s) = Rest("DATA_CR", l2, c2, 0, v, s)
          /\ Rest("DATA_LF", l1, c1, 0, v, s) = Rest("DATA_LF", l2, c2, 0, v, s)
    BY DEF Rest
  <2>5. Resume(u) = Rest(Mode, Collected, AtCr, 0, u, s)
    BY <1>1, <1>3, ResumeIs
  <2>6. /\ Resume(w)' = Rest(Mode', Collected', AtCr', k, w, s)
        /\ ~AtCr' => Resume(w)' = Rest(Mode', Collected', FALSE, k, w, s)
    BY <1>1, <1>3, <1>4, ResumeIs
  <2>7. /\ Mode = "DATA_CR" => Resume(u) = Rest("DATA_CR", <<>>, FALSE, 0, u, s)
        /\ Mode = "DATA_LF" => Resume(u) = Rest("DATA_LF", <<>>, FALSE, 0, u, s)
    BY <2>4, <2>5
  <2>8. /\ Mode' = "DATA_LF" /\ k = 0 => Resume(w)' = Rest("DATA_LF", <<>>, FALSE, 0, w, s)
        /\ Mode' = "SIZE" /\ Collected' = <<>> /\ ~AtCr' => Resume(w)' = Rest("SIZE", <<>>, FALSE, k, w, s)
    BY <2>4, <2>6
  <2>9. u = <<Byte>> \o w
    BY <1>2, <2>1
  <2> QED BY <1>4, <2>3, <2>7, <2>8, <2>9
<1>6. Mode = "DATA_CR" /\ Byte # CR /\ state' = "invalid" => Breaks
  BY <1>2, <1>5 DEF Breaks, Quiet
<1>7. /\ Mode = "DATA_CR" /\ Byte = CR /\ state' = "incomplete" /\ pos' = pos + 1
      /\ Mode' = "DATA_LF" /\ rem' = 0
      => ReadsOn
  BY <1>2, <1>5 DEF ReadsOn, Quiet
<1>8. Mode = "DATA_LF" /\ Byte # LF /\ state' = "invalid" => Breaks
  BY <1>2, <1>5 DEF Breaks, Quiet
<1>9. /\ Mode = "DATA_LF" /\ Byte = LF /\ state' = "incomplete" /\ pos' = pos + 1
      /\ Mode' = "SIZE" /\ Collected' = <<>> /\ ~AtCr'
      => ReadsOn
  BY <1>2, <1>5 DEF ReadsOn, Quiet
<1> QED BY <1>6, <1>7, <1>8, <1>9

-----------------------------------------------------------------------------
(* The steps of the C decoder. *)

\* Where a decoder stands, by language and phase.
LEMMA WhereC ==
  /\ lang = "c" =>
       /\ Mode = IF phase = "SIZE_LF" THEN "SIZE" ELSE phase
       /\ Collected = IF phase = "TRAILERS" THEN hline ELSE line
       /\ phase = "TRAILERS" => (AtCr <=> hpending)
       /\ phase # "TRAILERS" => (AtCr <=> phase = "SIZE_LF")
  /\ lang' = "c" =>
       /\ Mode' = IF phase' = "SIZE_LF" THEN "SIZE" ELSE phase'
       /\ Collected' = IF phase' = "TRAILERS" THEN hline' ELSE line'
       /\ phase' = "TRAILERS" => (AtCr' <=> hpending')
       /\ phase' # "TRAILERS" => (AtCr' <=> phase' = "SIZE_LF")
BY DEF Mode, Collected, AtCr

LEMMA PlainLines ==
  ASSUME Reading
  PROVE  /\ Plain(<<>>)
         /\ Byte \notin {CR, LF} => Plain(Append(line, Byte)) /\ Plain(Append(hline, Byte))
<1>1. PICK l \in Seq(STRING) : l = line /\ Plain(l)
  BY ReadingFacts
<1>2. PICK h \in Seq(STRING) : h = hline /\ Plain(h)
  BY ReadingFacts
<1>3. PICK b \in STRING : b = Byte
  BY ReadingFacts
<1>4. b \notin {CR, LF} => Plain(Append(l, b))
  BY <1>1, PlainAppend
<1>5. b \notin {CR, LF} => Plain(Append(h, b))
  BY <1>2, PlainAppend
<1>6. Plain(<<>>)
  <2>1. Len(<<>>) = 0
    BY EmptySeq
  <2> QED BY <2>1 DEF Plain
<1> QED BY <1>1, <1>2, <1>3, <1>4, <1>5, <1>6

LEMMA CSizeReads == ASSUME Reading, CSize PROVE Outcome /\ Collects'
<1>1. /\ lang = "c" /\ lang' = "c" /\ phase = "SIZE" /\ body' = body /\ pos' = pos + 1
      /\ rem' = rem /\ UNCHANGED <<rc, hvars, pendingCR>> /\ state = "incomplete"
  BY DEF CSize, InC, InCall, StepC, caller
<1>2. \/ Byte = CR /\ phase' = "SIZE_LF" /\ state' = state /\ line' = line
      \/ Byte = LF /\ state' = "invalid"
      \/ Byte \notin {CR, LF} /\ line' = Append(line, Byte) /\ state' = state /\ phase' = phase
  BY DEF CSize
<1>3. Mode = "SIZE" /\ Collected = line /\ ~AtCr /\ OnALine
  BY <1>1, WhereC DEF OnALine
<1>4. Quiet
  BY <1>1 DEF Quiet
<1>5. CASE Byte = CR /\ phase' = "SIZE_LF" /\ state' = state /\ line' = line
  <2>1. Mode' = Mode /\ Collected' = Collected /\ AtCr'
    BY <1>1, <1>3, <1>5, WhereC
  <2>2. ReadsOn
    BY <1>1, <1>3, <1>4, <1>5, <2>1, LineGrows DEF Moves
  <2>3. Collects'
    BY <1>1, <1>5 DEF Collects, Reading, InChunk, hvars
  <2> QED BY <2>2, <2>3 DEF Outcome
<1>6. CASE Byte = LF /\ state' = "invalid"
  <2>1. Breaks
    BY <1>3, <1>4, <1>6, LineBreaks DEF Ends
  <2> QED BY <1>6, <2>1 DEF Outcome, Collects
<1>7. CASE Byte \notin {CR, LF} /\ line' = Append(line, Byte) /\ state' = state /\ phase' = phase
  <2>1. Mode' = Mode /\ Collected' = Append(Collected, Byte) /\ ~AtCr'
    BY <1>1, <1>3, <1>7, WhereC
  <2>2. ReadsOn
    BY <1>1, <1>3, <1>4, <1>7, <2>1, LineGrows DEF Moves
  <2>3. Plain(line')
    BY <1>7, PlainLines
  <2>4. Collects'
    BY <1>1, <1>7, <2>3 DEF Collects, Reading, InChunk, hvars
  <2> QED BY <2>2, <2>4 DEF Outcome
<1> QED BY <1>2, <1>5, <1>6, <1>7

LEMMA CSizeLfReads == ASSUME Reading, CSizeLf PROVE Outcome /\ Collects'
<1>1. /\ lang = "c" /\ lang' = "c" /\ phase = "SIZE_LF" /\ body' = body /\ pos' = pos + 1
      /\ UNCHANGED <<rc, hvars>> /\ state = "incomplete"
  BY DEF CSizeLf, InC, InCall, StepC, caller
<1>2. Mode = "SIZE" /\ Collected = line /\ AtCr /\ OnALine
  BY <1>1, WhereC DEF OnALine
<1>3. Quiet
  BY <1>1 DEF Quiet
<1> DEFINE size == ParseChunkSizeC(line)
<1>4. /\ size = SizeInLang[Collected] /\ size \in (0 .. SizeLimit) \cup {BAD}
      /\ SizeLimit = SIZE_MAX /\ SIZE_MAX \in Nat
  BY <1>1, <1>2, Sizes, ReadingFacts, SizeMaxAssumption DEF SizeLimit
<1>5. \/ (Byte # LF \/ size \notin Size) /\ state' = "invalid"
      \/ /\ Byte = LF /\ size \in Size /\ line' = <<>> /\ rem' = size /\ state' = state
         /\ phase' = IF size = 0 THEN "TRAILERS" ELSE "DATA"
  BY DEF CSizeLf
<1> HIDE DEF size
<1>6. CASE Byte # LF /\ state' = "invalid"
  <2>1. Ends /\ OnALine /\ IF AtCr THEN Byte # LF ELSE Byte = LF
    BY <1>2, <1>3, <1>6 DEF Ends
  <2>2. Breaks
    BY <2>1, LineBreaks
  <2> QED BY <1>6, <2>2 DEF Outcome, Collects
<1>7. CASE Byte = LF /\ size \notin Size /\ state' = "invalid"
  <2>1. size = BAD
    BY <1>4, <1>7 DEF Size
  <2>2. SizeInLang[Collected] = BAD
    BY <1>4, <2>1
  <2>3. Breaks
    BY <1>2, <1>3, <1>7, <2>2, SizeLineEnds
  <2> QED BY <1>7, <2>3 DEF Outcome, Collects
<1>8. CASE /\ Byte = LF /\ size \in Size /\ line' = <<>> /\ rem' = size /\ state' = state
           /\ phase' = IF size = 0 THEN "TRAILERS" ELSE "DATA"
  <2>1. hline = <<>> /\ ~hpending /\ Plain(hline)
    BY <1>1 DEF Reading, Collects
  <2>2. Collects'
    BY <1>1, <1>8, <2>1, PlainLines DEF Collects, InChunk, hvars
  <2>3. size \in Nat
    BY <1>4, <1>8 DEF Size
  <2>4. CASE size = 0
    <3>1. Mode' = "TRAILERS" /\ Collected' = <<>> /\ ~AtCr'
      BY <1>1, <1>8, <2>1, <2>4, WhereC DEF hvars
    <3>2. ReadsOn
      BY <1>1, <1>2, <1>3, <1>4, <1>8, <2>4, <3>1, SizeLineEnds
    <3> QED BY <2>2, <3>2 DEF Outcome
  <2>5. CASE size # 0
    <3>1. Mode' = "DATA"
      BY <1>1, <1>8, <2>5, WhereC
    <3>2. ReadsOn
      BY <1>1, <1>2, <1>3, <1>4, <1>8, <2>3, <2>5, <3>1, SizeLineEnds
    <3> QED BY <2>2, <3>2 DEF Outcome
  <2> QED BY <2>4, <2>5
<1> QED BY <1>5, <1>6, <1>7, <1>8

\* Data is read alike in the three languages: `reset` says whether the line
\* buffer is emptied behind the chunk.
DataStep ==
  /\ state = "incomplete" /\ lang' = lang /\ lang \in {"c", "go", "rust"}
  /\ UNCHANGED <<rc, hvars, pendingCR>>
  /\ \/ /\ phase = "DATA" /\ state' = state /\ pos' = pos + 1
        /\ body' = Append(body, Byte) /\ rem' = rem - 1 /\ phase' \in {"DATA", "DATA_CR"}
        /\ line' = line
     \/ /\ phase \in {"DATA_CR", "DATA_LF"} /\ body' = body /\ rem' = rem
        /\ Byte # (IF phase = "DATA_CR" THEN CR ELSE LF)
        /\ state' = "invalid"
     \/ /\ phase = "DATA_CR" /\ body' = body /\ rem' = rem
        /\ Byte = CR /\ phase' = "DATA_LF" /\ state' = state /\ pos' = pos + 1
        /\ line' = line
     \/ /\ phase = "DATA_LF" /\ body' = body /\ rem' = rem
        /\ Byte = LF /\ phase' = "SIZE" /\ state' = state /\ pos' = pos + 1
        /\ line' = IF lang = "rust" THEN <<>> ELSE line

LEMMA DataStepReads == ASSUME Reading, DataStep PROVE Outcome /\ Collects'
<1>1. /\ state = "incomplete" /\ lang' = lang /\ lang \in {"c", "go", "rust"}
      /\ rc' = rc /\ rc = 0 /\ hline' = hline /\ hpending' = hpending /\ pendingCR' = pendingCR
  BY DEF DataStep, hvars, Reading
<1>2. /\ phase \in {"DATA", "DATA_CR", "DATA_LF"}
      /\ Plain(line) /\ hline = <<>> /\ ~hpending /\ Plain(hline) /\ Plain(<<>>)
      /\ lang = "go" => ~pendingCR
      /\ lang # "rust" => line = <<>>
  <2>1. phase \in {"DATA", "DATA_CR", "DATA_LF"}
    BY DEF DataStep
  <2> QED BY <2>1, PlainLines DEF Reading, Collects, InChunk
<1>3. Mode = phase
  BY <1>2 DEF Mode
<1>4. CASE /\ phase = "DATA" /\ state' = state /\ pos' = pos + 1
           /\ body' = Append(body, Byte) /\ rem' = rem - 1 /\ phase' \in {"DATA", "DATA_CR"}
           /\ line' = line
  <2>1. Mode' \in {"DATA", "DATA_CR"} /\ rem \in Nat \ {0}
    BY <1>4, ReadingFacts DEF Mode
  <2>2. ReadsOn
    BY <1>1, <1>3, <1>4, <2>1, DataReads
  <2>3. Collects'
    BY <1>1, <1>2, <1>4 DEF Collects, InChunk
  <2> QED BY <2>2, <2>3 DEF Outcome
<1>5. CASE /\ phase \in {"DATA_CR", "DATA_LF"} /\ body' = body /\ rem' = rem
           /\ Byte # (IF phase = "DATA_CR" THEN CR ELSE LF)
           /\ state' = "invalid"
  <2>1. Quiet /\ rem = 0
    BY <1>1, <1>5, ReadingFacts DEF Quiet
  <2>2. Breaks
    BY <1>3, <1>5, <2>1, DataEndReads
  <2> QED BY <1>5, <2>2 DEF Outcome, Collects
<1>6. CASE /\ phase = "DATA_CR" /\ body' = body /\ rem' = rem
           /\ Byte = CR /\ phase' = "DATA_LF" /\ state' = state /\ pos' = pos + 1
           /\ line' = line
  <2>1. Quiet /\ rem = 0 /\ Mode' = "DATA_LF"
    BY <1>1, <1>6, ReadingFacts DEF Quiet, Mode
  <2>2. ReadsOn
    BY <1>1, <1>3, <1>6, <2>1, DataEndReads
  <2>3. Collects'
    BY <1>1, <1>2, <1>6 DEF Collects, InChunk
  <2> QED BY <2>2, <2>3 DEF Outcome
<1>7. CASE /\ phase = "DATA_LF" /\ body' = body /\ rem' = rem
           /\ Byte = LF /\ phase' = "SIZE" /\ state' = state /\ pos' = pos + 1
           /\ line' = IF lang = "rust" THEN <<>> ELSE line
  <2>1. Quiet /\ rem = 0 /\ Mode' = "SIZE"
    BY <1>1, <1>7, ReadingFacts DEF Quiet, Mode
  <2>2. Collected' = <<>> /\ ~AtCr'
    BY <1>1, <1>2, <1>7 DEF Collected, AtCr
  <2>3. ReadsOn
    BY <1>1, <1>3, <1>7, <2>1, <2>2, DataEndReads
  <2>4. Collects'
    BY <1>1, <1>2, <1>7 DEF Collects, InChunk
  <2> QED BY <2>3, <2>4 DEF Outcome
<1> QED BY <1>4, <1>5, <1>6, <1>7 DEF DataStep

LEMMA DataSteps ==
  ASSUME Reading
  PROVE  /\ CData \/ CDataCr \/ CDataLf => DataStep
         /\ GoData \/ GoDataCr \/ GoDataLf => DataStep
         /\ RustData \/ RustDataCr \/ RustDataLf => DataStep
<1>1. phase = "DATA" => (rem - 1) % (SIZE_MAX + 1) = rem - 1
  <2>1. phase = "DATA" => rem \in 1 .. SIZE_MAX
    BY SizeMaxAssumption DEF Reading, Inv, NoUnderflow, SizeLimit
  <2> QED BY <2>1, WordFacts
<1>2. lang \in {"c", "go", "rust"} /\ state = "incomplete"
  BY DEF Reading, Inv, TypeOK, ValuesOK
<1> USE DEF caller, InCall, InC, InGo, InRust
<1>3. CData => DataStep
  BY <1>1, <1>2 DEF CData, StepC, DataStep
<1>4. CDataCr => DataStep
  BY <1>2 DEF CDataCr, StepC, DataStep
<1>5. CDataLf => DataStep
  BY <1>2 DEF CDataLf, StepC, DataStep
<1>6. GoData => DataStep
  BY <1>2 DEF GoData, StepGo, DataStep
<1>7. GoDataCr => DataStep
  BY <1>2 DEF GoDataCr, StepGo, DataStep
<1>8. GoDataLf => DataStep
  BY <1>2 DEF GoDataLf, StepGo, DataStep
<1>9. RustData => DataStep
  BY <1>1, <1>2 DEF RustData, StepRust, DataStep
<1>10. RustDataCr => DataStep
  BY <1>2 DEF RustDataCr, StepRust, DataStep
<1>11. RustDataLf => DataStep
  BY <1>2 DEF RustDataLf, StepRust, DataStep
<1> QED BY <1>3, <1>4, <1>5, <1>6, <1>7, <1>8, <1>9, <1>10, <1>11

\* A trailer byte of the C and the Rust decoder.
TrailerByte ==
  \/ /\ IF hpending THEN Byte # LF ELSE Byte = LF
     /\ hstate' = "invalid"
  \/ /\ hpending /\ Byte = LF /\ ~hpending'
     /\ \/ hline = <<>> /\ hstate' = "complete"
        \/ hline # <<>> /\ ~FieldLine(hline) /\ hstate' = "invalid"
        \/ hline # <<>> /\ FieldLine(hline) /\ hline' = <<>> /\ hstate' = hstate
  \/ /\ ~hpending /\ Byte = CR /\ hpending' /\ hline' = hline /\ hstate' = hstate
  \/ /\ ~hpending /\ Byte \notin {CR, LF} /\ hline' = Append(hline, Byte)
     /\ ~hpending' /\ hstate' = hstate
TrailerStep ==
  /\ lang' = lang /\ lang \in {"c", "rust"} /\ phase = "TRAILERS" /\ phase' = phase
  /\ UNCHANGED <<rc, body, surplus, line, rem>> /\ pos' = pos + 1
  /\ state' = hstate' /\ hstate = "incomplete"
  /\ TrailerByte

LEMMA TrailerSteps == ASSUME Reading, CTrailers \/ RustTrailers PROVE TrailerStep
<1>1. hline \in Seq(STRING)
  BY ReadingFacts
<1>2. hline # <<>> => /\ ParseHeaderLineC(hline) # {} <=> FieldLine(hline)
                      /\ AddHeaderRust(hline) # {} <=> FieldLine(hline)
  BY <1>1, FieldLines
<1>3. CASE CTrailers
  <2>1. HeaderFeedC(Byte)
    BY <1>3 DEF CTrailers
  <2> DEFINE P == ParseHeaderLineC(hline)
  <2>2. hline # <<>> => (P # {} <=> FieldLine(hline))
    BY <1>2
  <2>3. \/ hpending /\ Byte # LF /\ hstate' = "invalid"
        \/ hpending /\ Byte = LF /\ hpending' = FALSE /\ hline = <<>> /\ hstate' = "complete"
        \/ /\ hpending /\ Byte = LF /\ hpending' = FALSE /\ hline # <<>>
           /\ \/ P = {} /\ hstate' = "invalid"
              \/ P # {} /\ hline' = <<>> /\ hstate' = hstate
        \/ ~hpending /\ Byte = CR /\ hpending' = TRUE /\ hstate' = hstate /\ hline' = hline
        \/ ~hpending /\ Byte = LF /\ hstate' = "invalid"
        \/ /\ ~hpending /\ Byte \notin {CR, LF} /\ hline' = Append(hline, Byte)
           /\ hpending' = hpending /\ hstate' = hstate
    BY <2>1 DEF HeaderFeedC, FeedHeaderByte
  <2> HIDE DEF P
  <2>4. TrailerByte
    BY <2>2, <2>3 DEF TrailerByte
  <2> QED BY <1>3, <2>4 DEF CTrailers, TrailerStep, InC, InCall, StepC, caller, framing
<1>4. CASE RustTrailers
  <2>1. HeaderFeedRust(Byte)
    BY <1>4 DEF RustTrailers
  <2> DEFINE P == AddHeaderRust(hline)
  <2>2. hline # <<>> => (P # {} <=> FieldLine(hline))
    BY <1>2
  <2>3. \/ hpending /\ Byte # LF /\ hstate' = "invalid"
        \/ hpending /\ Byte = LF /\ hpending' = FALSE /\ hline = <<>> /\ hstate' = "complete"
        \/ /\ hpending /\ Byte = LF /\ hpending' = FALSE /\ hline # <<>>
           /\ \/ P = {} /\ hstate' = "invalid"
              \/ P # {} /\ hline' = <<>> /\ hstate' = hstate
        \/ ~hpending /\ Byte = CR /\ hpending' = TRUE /\ hstate' = hstate /\ hline' = hline
        \/ ~hpending /\ Byte = LF /\ hstate' = "invalid"
        \/ /\ ~hpending /\ Byte \notin {CR, LF} /\ hline' = Append(hline, Byte)
           /\ hpending' = hpending /\ hstate' = hstate
    BY <2>1 DEF HeaderFeedRust, FeedHeaderByte
  <2> HIDE DEF P
  <2>4. TrailerByte
    BY <2>2, <2>3 DEF TrailerByte
  <2> QED BY <1>4, <2>4 DEF RustTrailers, TrailerStep, InRust, InCall, StepRust, caller, framing
<1> QED BY <1>3, <1>4

LEMMA TrailerStepReads == ASSUME Reading, TrailerStep PROVE Outcome /\ Collects'
<1>1. /\ lang' = lang /\ lang \in {"c", "rust"} /\ phase = "TRAILERS" /\ phase' = phase
      /\ body' = body /\ surplus' = surplus /\ line' = line /\ rem' = rem /\ pos' = pos + 1
      /\ rc' = rc /\ rc = 0 /\ state' = hstate' /\ hstate = "incomplete"
      /\ Plain(line) /\ Plain(hline)
  BY ReadingFacts DEF TrailerStep, Reading
<1>2. /\ Mode = "TRAILERS" /\ Mode' = "TRAILERS" /\ Collected = hline /\ Collected' = hline'
      /\ (AtCr <=> hpending) /\ (AtCr' <=> hpending')
  BY <1>1 DEF Mode, Collected, AtCr
<1>3. Quiet /\ OnALine
  BY <1>1, <1>2 DEF Quiet, OnALine
<1>4. CASE (IF hpending THEN Byte # LF ELSE Byte = LF) /\ hstate' = "invalid"
  <2>1. Ends /\ IF AtCr THEN Byte # LF ELSE Byte = LF
    BY <1>1, <1>2, <1>3, <1>4 DEF Ends
  <2>2. Breaks
    BY <1>3, <2>1, LineBreaks
  <2> QED BY <1>1, <1>4, <2>2 DEF Outcome, Collects
<1>5. CASE hpending /\ Byte = LF /\ hline = <<>> /\ hstate' = "complete"
  <2>1. surplus' = Skipped
    BY <1>1, ReadingFacts
  <2>2. Completes
    BY <1>1, <1>2, <1>3, <1>5, <2>1, TrailerLineEnds
  <2> QED BY <1>1, <1>5, <2>2 DEF Outcome, Collects
<1>6. CASE hpending /\ Byte = LF /\ hline # <<>> /\ ~FieldLine(hline) /\ hstate' = "invalid"
  <2>1. Breaks
    BY <1>1, <1>2, <1>3, <1>6, TrailerLineEnds
  <2> QED BY <1>1, <1>6, <2>1 DEF Outcome, Collects
<1>7. CASE /\ hpending /\ Byte = LF /\ ~hpending'
           /\ hline # <<>> /\ FieldLine(hline) /\ hline' = <<>> /\ hstate' = hstate
  <2>1. ReadsOn
    BY <1>1, <1>2, <1>3, <1>7, TrailerLineEnds
  <2>2. Collects'
    BY <1>1, <1>7, PlainLines DEF Collects, InChunk
  <2> QED BY <2>1, <2>2 DEF Outcome
<1>8. CASE ~hpending /\ Byte = CR /\ hpending' /\ hline' = hline /\ hstate' = hstate
  <2>1. ReadsOn
    BY <1>1, <1>2, <1>3, <1>8, LineGrows DEF Moves
  <2>2. Collects'
    BY <1>1, <1>8 DEF Collects, InChunk
  <2> QED BY <2>1, <2>2 DEF Outcome
<1>9. CASE /\ ~hpending /\ Byte \notin {CR, LF} /\ hline' = Append(hline, Byte)
           /\ ~hpending' /\ hstate' = hstate
  <2>1. ReadsOn
    BY <1>1, <1>2, <1>3, <1>9, LineGrows DEF Moves
  <2>2. Collects'
    BY <1>1, <1>9, PlainLines DEF Collects, InChunk
  <2> QED BY <2>1, <2>2 DEF Outcome
<1> QED BY <1>4, <1>5, <1>6, <1>7, <1>8, <1>9 DEF TrailerStep, TrailerByte

-----------------------------------------------------------------------------
(* The lines of the Go decoder. *)

LEMMA WhereGo ==
  /\ lang = "go" => /\ Mode = IF phase = "SIZE_LF" THEN "SIZE" ELSE phase
                    /\ Collected = line /\ (AtCr <=> pendingCR)
  /\ lang' = "go" => /\ Mode' = IF phase' = "SIZE_LF" THEN "SIZE" ELSE phase'
                     /\ Collected' = line' /\ (AtCr' <=> pendingCR')
BY DEF Mode, Collected, AtCr

LEMMA GoLineByteReads == ASSUME Reading, GoLineByte PROVE Outcome /\ Collects'
<1>1. /\ lang = "go" /\ lang' = "go" /\ phase \in {"SIZE", "TRAILERS"} /\ phase' = phase
      /\ body' = body /\ rem' = rem /\ hline' = hline /\ hpending' = hpending
      /\ rc' = rc /\ rc = 0 /\ state = "incomplete"
      /\ state' = "incomplete" => pos' = pos + 1
  BY DEF GoLineByte, InGo, InCall, StepGo, caller, hvars
<1>2. \/ (IF pendingCR THEN Byte # LF ELSE Byte = LF) /\ state' = "invalid"
      \/ ~pendingCR /\ Byte = CR /\ pendingCR' /\ state' = state /\ line' = line
      \/ /\ ~pendingCR /\ Byte \notin {CR, LF} /\ line' = Append(line, Byte) /\ state' = state
         /\ ~pendingCR'
  BY DEF GoLineByte
<1>3. Mode = phase /\ Mode' = phase /\ Collected = line /\ Collected' = line' /\ OnALine
      /\ (AtCr <=> pendingCR) /\ (AtCr' <=> pendingCR')
  BY <1>1, WhereGo DEF OnALine
<1>4. Quiet
  BY <1>1 DEF Quiet
<1>5. /\ Plain(line) /\ Plain(hline)
      /\ phase # "TRAILERS" => hline = <<>> /\ ~hpending
  BY DEF Reading, Collects
<1>6. CASE (IF pendingCR THEN Byte # LF ELSE Byte = LF) /\ state' = "invalid"
  <2>1. Ends /\ OnALine /\ IF AtCr THEN Byte # LF ELSE Byte = LF
    BY <1>3, <1>4, <1>6 DEF Ends
  <2>2. Breaks
    BY <2>1, LineBreaks
  <2> QED BY <1>6, <2>2 DEF Outcome, Collects
<1>7. CASE ~pendingCR /\ Byte = CR /\ pendingCR' /\ state' = state /\ line' = line
  <2>1. ReadsOn
    BY <1>1, <1>3, <1>4, <1>7, LineGrows DEF Moves
  <2>2. Collects'
    BY <1>1, <1>5, <1>7 DEF Collects, InChunk
  <2> QED BY <2>1, <2>2 DEF Outcome
<1>8. CASE /\ ~pendingCR /\ Byte \notin {CR, LF} /\ line' = Append(line, Byte) /\ state' = state
           /\ ~pendingCR'
  <2>1. ReadsOn
    BY <1>1, <1>3, <1>4, <1>8, LineGrows DEF Moves
  <2>2. Collects'
    BY <1>1, <1>5, <1>8, PlainLines DEF Collects, InChunk
  <2> QED BY <2>1, <2>2 DEF Outcome
<1> QED BY <1>2, <1>6, <1>7, <1>8

LEMMA GoFinishSizeReads == ASSUME Reading, GoFinishSize PROVE Outcome /\ Collects'
<1>1. /\ lang = "go" /\ lang' = "go" /\ phase = "SIZE" /\ body' = body
      /\ hline' = hline /\ hpending' = hpending /\ pendingCR /\ Byte = LF /\ ~pendingCR'
      /\ rc' = rc /\ rc = 0 /\ state = "incomplete"
      /\ state' = "incomplete" => pos' = pos + 1
  BY DEF GoFinishSize, InGo, InCall, StepGo, caller, hvars
<1>2. Mode = "SIZE" /\ Collected = line /\ AtCr
  BY <1>1, WhereGo
<1>3. Quiet
  BY <1>1 DEF Quiet
<1> DEFINE size == FinishChunkSizeGo(line)
<1>4. /\ size = SizeInLang[Collected] /\ size \in (0 .. SizeLimit) \cup {BAD}
      /\ SizeLimit = SIZE_MAX \div 2
  BY <1>1, <1>2, Sizes, ReadingFacts DEF SizeLimit
<1>5. \/ size \notin GoInt /\ state' = "invalid"
      \/ /\ size \in GoInt /\ line' = <<>> /\ state' = state
         /\ phase' = IF size = 0 THEN "TRAILERS" ELSE "DATA"
         /\ rem' = IF size = 0 THEN rem ELSE size
  BY DEF GoFinishSize
<1> HIDE DEF size
<1>6. CASE size \notin GoInt /\ state' = "invalid"
  <2>1. size = BAD
    BY <1>4, <1>6 DEF GoInt
  <2>2. SizeInLang[Collected] = BAD
    BY <1>4, <2>1
  <2>3. Breaks
    BY <1>1, <1>2, <1>3, <1>6, <2>2, SizeLineEnds
  <2> QED BY <1>6, <2>3 DEF Outcome, Collects
<1>7. CASE /\ size \in GoInt /\ line' = <<>> /\ state' = state
           /\ phase' = IF size = 0 THEN "TRAILERS" ELSE "DATA"
           /\ rem' = IF size = 0 THEN rem ELSE size
  <2>1. hline = <<>> /\ ~hpending /\ Plain(hline)
    BY <1>1 DEF Reading, Collects
  <2>2. Collects'
    BY <1>1, <1>7, <2>1, PlainLines DEF Collects, InChunk
  <2>3. size \in Nat
    BY <1>4, <1>7, WordFacts DEF Size
  <2>4. CASE size = 0
    <3>1. Mode' = "TRAILERS" /\ Collected' = <<>> /\ ~AtCr'
      BY <1>1, <1>7, <2>4, WhereGo
    <3>2. ReadsOn
      BY <1>1, <1>2, <1>3, <1>4, <1>7, <2>4, <3>1, SizeLineEnds
    <3> QED BY <2>2, <3>2 DEF Outcome
  <2>5. CASE size # 0
    <3>1. Mode' = "DATA"
      BY <1>1, <1>7, <2>5, WhereGo
    <3>2. ReadsOn
      BY <1>1, <1>2, <1>3, <1>4, <1>7, <2>3, <2>5, <3>1, SizeLineEnds
    <3> QED BY <2>2, <3>2 DEF Outcome
  <2> QED BY <2>4, <2>5
<1> QED BY <1>5, <1>6, <1>7

LEMMA GoFinishTrailerReads == ASSUME Reading, GoFinishTrailer PROVE Outcome /\ Collects'
<1>1. /\ lang = "go" /\ lang' = "go" /\ phase = "TRAILERS" /\ phase' = phase /\ body' = body
      /\ hline' = hline /\ hpending' = hpending /\ pendingCR /\ Byte = LF /\ ~pendingCR'
      /\ rc' = rc /\ rc = 0 /\ state = "incomplete"
      /\ pos' = IF state' = "incomplete" THEN pos + 1 ELSE lim
  BY DEF GoFinishTrailer, InGo, InCall, StepGo, caller
<1>2. /\ Mode = "TRAILERS" /\ Collected = line /\ AtCr
      /\ Mode' = "TRAILERS" /\ Collected' = line' /\ ~AtCr'
  BY <1>1, WhereGo
<1>3. Quiet
  BY <1>1 DEF Quiet
<1> DEFINE P == AddHeaderGo(line)
<1>4. line # <<>> => (P # {} <=> FieldLine(line))
  BY ReadingFacts, FieldLines
<1>5. \/ line = <<>> /\ state' = "complete" /\ surplus' = surplus \o RestOfCall(pos + 2)
      \/ line # <<>> /\ P = {} /\ state' = "invalid"
      \/ line # <<>> /\ P # {} /\ line' = <<>> /\ state' = state
  BY DEF GoFinishTrailer, RestOfChunk
<1> HIDE DEF P
<1>6. CASE line = <<>> /\ state' = "complete" /\ surplus' = surplus \o RestOfCall(pos + 2)
  <2>1. surplus' = Skipped
    <3>1. pos < lim /\ ValuesOK /\ surplus = <<>>
      BY ReadingFacts DEF Reading, Inv, TypeOK
    <3>2. 2 \in 1 .. 2
      OBVIOUS
    <3>3. RestOfCall(pos + 2) \in Seq(STRING)
      BY <3>1, <3>2, RestType
    <3>4. <<>> \o RestOfCall(pos + 2) = RestOfCall(pos + 2)
      BY <3>3, ConcatEmptySeq
    <3>5. pos' = lim
      BY <1>1, <1>6
    <3> QED BY <1>6, <3>1, <3>4, <3>5 DEF RestOfCall, Skipped
  <2>2. Completes
    BY <1>1, <1>2, <1>3, <1>6, <2>1, TrailerLineEnds
  <2> QED BY <1>6, <2>2 DEF Outcome, Collects
<1>7. CASE line # <<>> /\ P = {} /\ state' = "invalid"
  <2>1. Breaks
    BY <1>1, <1>2, <1>3, <1>4, <1>7, TrailerLineEnds
  <2> QED BY <1>7, <2>1 DEF Outcome, Collects
<1>8. CASE line # <<>> /\ P # {} /\ line' = <<>> /\ state' = state
  <2>1. ReadsOn
    BY <1>1, <1>2, <1>3, <1>4, <1>8, TrailerLineEnds
  <2>2. Plain(hline)
    BY ReadingFacts
  <2>3. Collects'
    BY <1>1, <1>8, <2>2, PlainLines DEF Collects, InChunk
  <2> QED BY <2>1, <2>3 DEF Outcome
<1> QED BY <1>5, <1>6, <1>7, <1>8

-----------------------------------------------------------------------------
(* The size line of the Rust decoder, judged at its CR. *)

LEMMA WhereRust ==
  /\ lang = "rust" =>
       /\ Mode = IF phase = "SIZE_LF" THEN "SIZE" ELSE phase
       /\ Collected = IF phase = "TRAILERS" THEN hline ELSE line
       /\ phase = "TRAILERS" => (AtCr <=> hpending)
       /\ phase # "TRAILERS" => (AtCr <=> phase = "SIZE_LF")
  /\ lang' = "rust" =>
       /\ Mode' = IF phase' = "SIZE_LF" THEN "SIZE" ELSE phase'
       /\ Collected' = IF phase' = "TRAILERS" THEN hline' ELSE line'
       /\ phase' = "TRAILERS" => (AtCr' <=> hpending')
       /\ phase' # "TRAILERS" => (AtCr' <=> phase' = "SIZE_LF")
BY DEF Mode, Collected, AtCr

LEMMA BadSizeEarly ==
  ASSUME Ends, lang = "rust", pos' = pos + 1, Mode = "SIZE", ~AtCr, Byte = CR,
         SizeInLang[Collected] = BAD
  PROVE  BreaksEarly
<1>1. Reading /\ lang' = lang
  BY DEF Ends, Quiet
<1>2. PICK l \in Seq(STRING) : l = Collected /\ Plain(l)
  BY <1>1, CollectedType
<1>3. PICK s \in SizeFunction : s = SizeInLang
  BY <1>1, ReadingFacts
<1>4. PICK n \in Nat : n = rem
  BY <1>1, ReadingFacts
<1>5. /\ Rest("SIZE", l, TRUE, n, <<>>, s) = Open(<<>>)
      /\ \A w \in Seq(STRING) \ {<<>>} : Rest("SIZE", l, TRUE, n, w, s) = Malformed(<<>>)
  <2>1. s[l] = BAD
    BY <1>2, <1>3
  <2> QED BY <1>2, <2>1, BadLineAtCR
<1>6. ASSUME NEW w \in Seq(STRING) PROVE Resume(<<Byte>> \o w) = Rest("SIZE", l, TRUE, n, w, s)
  <2>1. PICK u \in Seq(STRING) : u = <<CR>> \o w
    BY InFront, LineEndAssumption DEF Headed
  <2>2. LineGoesOn("SIZE", l, CR, n, w, s)
    BY <1>2, LineByte, LineEndAssumption
  <2>3. Rest("SIZE", l, FALSE, n, <<CR>> \o w, s) = Rest("SIZE", l, TRUE, n, w, s)
    BY <2>2 DEF LineGoesOn
  <2>4. Resume(u) = Rest("SIZE", l, FALSE, n, u, s)
    BY <1>1, <1>2, <1>3, <1>4, ResumeIs
  <2>5. u = <<Byte>> \o w
    BY <2>1
  <2> QED BY <2>1, <2>3, <2>4, <2>5
<1>7. Resume(<<Byte>>) = Open(<<>>)
  <2>1. <<>> \in Seq(STRING)
    BY EmptySeq
  <2>2. <<CR>> \o <<>> = <<CR>>
    BY LineEndAssumption, OneElement, ConcatEmptySeq
  <2>3. <<Byte>> \o <<>> = <<Byte>>
    BY <2>2
  <2> QED BY <1>5, <1>6, <2>1, <2>3
<1> QED BY <1>5, <1>6, <1>7 DEF BreaksEarly, Ends, Quiet

LEMMA RustSizeCases ==
  ASSUME RustSize, NEW size, size = ParseChunkSizeRust(line)
  PROVE  \/ Byte = CR /\ size \in Size /\ rem' = size /\ phase' = "SIZE_LF" /\ state' = state /\ line' = line
         \/ (Byte = LF \/ (Byte = CR /\ size \notin Size)) /\ state' = "invalid"
         \/ /\ Byte \notin {CR, LF} /\ line' = Append(line, Byte) /\ state' = state
            /\ phase' = phase /\ rem' = rem
BY DEF RustSize

LEMMA RustSizeReads == ASSUME Reading, RustSize PROVE Outcome /\ Collects'
<1>1. /\ lang = "rust" /\ lang' = "rust" /\ phase = "SIZE" /\ body' = body /\ pos' = pos + 1
      /\ hline' = hline /\ hpending' = hpending /\ rc' = rc /\ rc = 0 /\ state = "incomplete"
  BY DEF RustSize, InRust, InCall, StepRust, caller, hvars
<1>2. Mode = "SIZE" /\ Collected = line /\ ~AtCr /\ OnALine
  BY <1>1, WhereRust DEF OnALine
<1>3. Quiet
  BY <1>1 DEF Quiet
<1>s. PICK size : size = ParseChunkSizeRust(line)
  OBVIOUS
<1>4. /\ size = SizeInLang[Collected] /\ size \in (0 .. SizeLimit) \cup {BAD}
      /\ SizeLimit = SIZE_MAX /\ SIZE_MAX \in Nat /\ rem \in Nat
  BY <1>1, <1>2, <1>s, Sizes, ReadingFacts, SizeMaxAssumption DEF SizeLimit
<1>5. \/ Byte = CR /\ size \in Size /\ rem' = size /\ phase' = "SIZE_LF" /\ state' = state /\ line' = line
      \/ (Byte = LF \/ (Byte = CR /\ size \notin Size)) /\ state' = "invalid"
      \/ /\ Byte \notin {CR, LF} /\ line' = Append(line, Byte) /\ state' = state
         /\ phase' = phase /\ rem' = rem
  BY <1>s, RustSizeCases
<1>c. line' = line => ParseChunkSizeRust(line)' = ParseChunkSizeRust(line)
  BY DEF ParseChunkSizeRust
<1>6. hline = <<>> /\ ~hpending /\ Plain(hline) /\ Plain(line)
  BY <1>1 DEF Reading, Collects
<1>7. CASE Byte = CR /\ size \in Size /\ rem' = size /\ phase' = "SIZE_LF" /\ state' = state /\ line' = line
  <2>1. Mode' = Mode /\ Collected' = Collected /\ AtCr'
    BY <1>1, <1>2, <1>7, WhereRust
  <2>2. rem' = ParseChunkSizeRust(line)'
    BY <1>7, <1>c, <1>s
  <2>3. ReadsOn
    BY <1>1, <1>2, <1>3, <1>7, <2>1, LineGrows DEF Moves
  <2>4. Collects'
    BY <1>1, <1>6, <1>7, <2>2 DEF Collects, InChunk
  <2> QED BY <2>3, <2>4 DEF Outcome
<1>8. CASE Byte = LF /\ state' = "invalid"
  <2>1. Ends /\ OnALine /\ IF AtCr THEN Byte # LF ELSE Byte = LF
    BY <1>2, <1>3, <1>8 DEF Ends
  <2>2. Breaks
    BY <2>1, LineBreaks
  <2> QED BY <1>8, <2>2 DEF Outcome, Collects
<1>9. CASE Byte = CR /\ size \notin Size /\ state' = "invalid"
  <2>1. size = BAD
    BY <1>4, <1>9 DEF Size
  <2>2. Ends /\ SizeInLang[Collected] = BAD
    BY <1>3, <1>4, <1>9, <2>1 DEF Ends
  <2>3. BreaksEarly
    BY <1>1, <1>2, <1>9, <2>2, BadSizeEarly
  <2> QED BY <1>9, <2>3 DEF Outcome, Collects
<1>10. CASE /\ Byte \notin {CR, LF} /\ line' = Append(line, Byte) /\ state' = state
            /\ phase' = phase /\ rem' = rem
  <2>1. Mode' = Mode /\ Collected' = Append(Collected, Byte) /\ ~AtCr'
    BY <1>1, <1>2, <1>10, WhereRust
  <2>2. ReadsOn
    BY <1>1, <1>2, <1>3, <1>10, <2>1, LineGrows DEF Moves
  <2>3. Plain(line')
    BY <1>10, PlainLines
  <2>4. Collects'
    BY <1>1, <1>6, <1>10, <2>3 DEF Collects, InChunk
  <2> QED BY <2>2, <2>4 DEF Outcome
<1> QED BY <1>5, <1>7, <1>8, <1>9, <1>10

LEMMA RustSizeLfReads == ASSUME Reading, RustSizeLf PROVE Outcome /\ Collects'
<1>1. /\ lang = "rust" /\ lang' = "rust" /\ phase = "SIZE_LF" /\ body' = body /\ pos' = pos + 1
      /\ hline' = hline /\ hpending' = hpending /\ rc' = rc /\ rc = 0 /\ state = "incomplete"
      /\ line' = line /\ rem' = rem
  BY DEF RustSizeLf, InRust, InCall, StepRust, caller, hvars
<1>2. Mode = "SIZE" /\ Collected = line /\ AtCr /\ OnALine
  BY <1>1, WhereRust DEF OnALine
<1>3. Quiet
  BY <1>1 DEF Quiet
<1>4. SizeInLang[Collected] = rem /\ rem \in Nat
  BY <1>1, <1>2, Sizes, ReadingFacts DEF Reading, Collects
<1>5. \/ Byte # LF /\ state' = "invalid"
      \/ /\ Byte = LF /\ state' = state
         /\ phase' = IF rem = 0 THEN "TRAILERS" ELSE "DATA"
  BY DEF RustSizeLf
<1>6. hline = <<>> /\ ~hpending /\ Plain(hline) /\ Plain(line)
  BY <1>1 DEF Reading, Collects
<1>7. CASE Byte # LF /\ state' = "invalid"
  <2>1. Ends /\ OnALine /\ IF AtCr THEN Byte # LF ELSE Byte = LF
    BY <1>2, <1>3, <1>7 DEF Ends
  <2>2. Breaks
    BY <2>1, LineBreaks
  <2> QED BY <1>7, <2>2 DEF Outcome, Collects
<1>8. CASE /\ Byte = LF /\ state' = state
           /\ phase' = IF rem = 0 THEN "TRAILERS" ELSE "DATA"
  <2>1. Collects'
    BY <1>1, <1>6, <1>8 DEF Collects, InChunk
  <2>2. CASE rem = 0
    <3>1. Mode' = "TRAILERS" /\ Collected' = <<>> /\ ~AtCr'
      BY <1>1, <1>6, <1>8, <2>2, WhereRust
    <3>2. ReadsOn
      BY <1>1, <1>2, <1>3, <1>4, <1>8, <2>2, <3>1, SizeLineEnds
    <3> QED BY <2>1, <3>2 DEF Outcome
  <2>3. CASE rem # 0
    <3>1. Mode' = "DATA"
      BY <1>1, <1>8, <2>3, WhereRust
    <3>2. ReadsOn
      BY <1>1, <1>2, <1>3, <1>4, <1>8, <2>3, <3>1, SizeLineEnds
    <3> QED BY <2>1, <3>2 DEF Outcome
  <2> QED BY <2>2, <2>3
<1> QED BY <1>5, <1>7, <1>8

-----------------------------------------------------------------------------
(* The invariant of the meaning, step by step. *)

LEMMA AfterAVerdict ==
  ASSUME TypeOK, rc = 0, pos < lim,
         CInvalidReturns \/ CKeepSurplus \/ GoCallAfterVerdict \/ RustAfterVerdict
  PROVE  /\ state # "incomplete" /\ pos < pos' /\ UNCHANGED <<input, lang, state, body>>
         /\ surplus' = IF state = "complete" THEN surplus \o Passed ELSE surplus
<1>1. pos \in Nat /\ lim \in Nat /\ pos < lim /\ pos < pos + 1 /\ surplus \in Seq(STRING) /\ Byte \in STRING
  BY ByteFacts DEF TypeOK, ValuesOK
<1>2. SubSeq(input, pos + 1, pos + 1) = <<Byte>>
  <2>1. /\ input \in Seq(STRING) /\ pos \in 0 .. Len(input) - 1 /\ pos + 1 \in 1 .. pos + 1
    BY <1>1, ByteFacts DEF TypeOK, ValuesOK
  <2>2. Append(SubSeq(input, pos + 1, pos), input[pos + 1]) = SubSeq(input, pos + 1, pos + 1)
    BY <2>1, WindowGrows
  <2>3. SubSeq(input, pos + 1, pos) = <<>>
    BY <1>1, SubSeqEmpty
  <2>4. Append(<<>>, Byte) = <<Byte>>
    OBVIOUS
  <2> QED BY <2>2, <2>3, <2>4, Zenon DEF Byte
<1>3. Append(surplus, Byte) = surplus \o <<Byte>>
  BY <1>1, AppendIsConcat
<1> USE DEF caller, InCall, Passed
<1>4. CASE CInvalidReturns
  BY <1>1, <1>4 DEF CInvalidReturns, output
<1>5. CASE CKeepSurplus
  BY <1>1, <1>2, <1>3, <1>5 DEF CKeepSurplus, StepC
<1>6. CASE GoCallAfterVerdict
  BY <1>1, <1>6 DEF GoCallAfterVerdict, RestOfCall
<1>7. CASE RustAfterVerdict
  BY <1>1, <1>2, <1>3, <1>7 DEF RustAfterVerdict, StepRust
<1> QED BY <1>4, <1>5, <1>6, <1>7

\* A step that reads nothing.
LEMMA NothingRead ==
  ASSUME Tracks, Collects, rc' = 0 => rc = 0,
         UNCHANGED <<lang, input, pos, output, framing, hvars>>
  PROVE  Tracks' /\ Collects'
<1>1. Collects'
  <2>1. ParseChunkSizeRust(line)' = ParseChunkSizeRust(line)
    BY DEF framing, ParseChunkSizeRust
  <2> QED BY <2>1 DEF Collects, InChunk, framing, hvars, output
<1>2. SizeInLang' = SizeInLang
  BY DEF SizeInLang, UnsignedPart, SizeLimit
<1>3. Consumed' = Consumed
  BY DEF Consumed
<1>4. \A w : Resume(w)' = Resume(w)
  BY <1>2 DEF Resume, Mode, Collected, AtCr, framing, hvars
<1>5. \A w : Meaning(Consumed \o w)' = Meaning(Consumed \o w)
  BY <1>2, <1>3 DEF Meaning
<1>6. Meaning(Consumed)' = Meaning(Consumed)
  BY <1>2, <1>3 DEF Meaning
<1>7. Tracks'
  BY <1>4, <1>5, <1>6 DEF Tracks, output
<1> QED BY <1>1, <1>7

LEMMA ReadingStep ==
  ASSUME Reading, Next, ~Feed, ~CNoMemory
  PROVE  Outcome /\ Collects' /\ UNCHANGED <<input, lang>>
<1>1. state = "incomplete"
  BY DEF Reading
<1>2. ~CInvalidReturns /\ ~CKeepSurplus /\ ~GoCallAfterVerdict /\ ~RustAfterVerdict
  BY <1>1 DEF CInvalidReturns, CKeepSurplus, GoCallAfterVerdict, RustAfterVerdict
<1>3. UNCHANGED <<input, lang>>
  BY DEF Next, CNext, CInvalidReturns, CKeepSurplus, CSize, CSizeLf, CData, CDataCr, CDataLf, CTrailers, StepC,
         GoNext, GoCallAfterVerdict, GoData, GoDataCr, GoDataLf, GoLineByte, GoFinishSize, GoFinishTrailer, StepGo,
         RustNext, RustAfterVerdict, RustSize, RustSizeLf, RustData, RustDataCr, RustDataLf, RustTrailers, StepRust,
         caller
<1>4. CASE CNext
  <2>1. CASE CSize
    BY <2>1, CSizeReads, <1>3
  <2>2. CASE CSizeLf
    BY <2>2, CSizeLfReads, <1>3
  <2>3. CASE CData \/ CDataCr \/ CDataLf
    <3>1. DataStep
      BY <2>3, DataSteps
    <3> QED BY <1>3, <3>1, DataStepReads
  <2>4. CASE CTrailers
    <3>1. TrailerStep
      BY <2>4, TrailerSteps
    <3> QED BY <1>3, <3>1, TrailerStepReads
  <2> QED BY <1>2, <1>4, <2>1, <2>2, <2>3, <2>4 DEF CNext
<1>5. CASE GoNext
  <2>1. CASE GoLineByte
    BY <2>1, GoLineByteReads, <1>3
  <2>2. CASE GoFinishSize
    BY <2>2, GoFinishSizeReads, <1>3
  <2>3. CASE GoFinishTrailer
    BY <2>3, GoFinishTrailerReads, <1>3
  <2>4. CASE GoData \/ GoDataCr \/ GoDataLf
    <3>1. DataStep
      BY <2>4, DataSteps
    <3> QED BY <1>3, <3>1, DataStepReads
  <2> QED BY <1>2, <1>5, <2>1, <2>2, <2>3, <2>4 DEF GoNext
<1>6. CASE RustNext
  <2>1. CASE RustSize
    BY <2>1, RustSizeReads, <1>3
  <2>2. CASE RustSizeLf
    BY <2>2, RustSizeLfReads, <1>3
  <2>3. CASE RustData \/ RustDataCr \/ RustDataLf
    <3>1. DataStep
      BY <2>3, DataSteps
    <3> QED BY <1>3, <3>1, DataStepReads
  <2>4. CASE RustTrailers
    <3>1. TrailerStep
      BY <2>4, TrailerSteps
    <3> QED BY <1>3, <3>1, TrailerStepReads
  <2> QED BY <1>2, <1>6, <2>1, <2>2, <2>3, <2>4 DEF RustNext
<1> QED BY <1>3, <1>4, <1>5, <1>6 DEF Next

LEMMA InitMeaning == Init => Tracks /\ Collects
<1> SUFFICES ASSUME Init PROVE Tracks /\ Collects
  OBVIOUS
<1>1. /\ state = "incomplete" /\ body = <<>> /\ line = <<>> /\ hline = <<>> /\ pos = 0 /\ rem = 0
      /\ phase = "SIZE" /\ ~pendingCR /\ ~hpending /\ lang \in {"c", "go", "rust"}
  BY DEF Init, ChunkedInit, HeaderInit
<1>2. Plain(<<>>)
  <2>1. Len(<<>>) = 0
    BY EmptySeq
  <2> QED BY <2>1 DEF Plain
<1>3. Collects
  BY <1>1, <1>2 DEF Collects, InChunk
<1>4. Consumed = <<>>
  BY <1>1, SubSeqEmpty DEF Consumed
<1>5. ASSUME NEW w \in Seq(STRING) PROVE Meaning(Consumed \o w) = Behind(body, Resume(w))
  <2>1. <<>> \o w = w
    BY ConcatEmptySeq
  <2>2. Resume(w) = Decode(w, SizeInLang)
    BY <1>1, <2>1 DEF Resume, Mode, Collected, AtCr, Rest, Held
  <2>3. Decode(w, SizeInLang) \in Result
    BY <1>1, Sizes, DecodeEquation DEF SizeFunction
  <2>4. Behind(<<>>, Decode(w, SizeInLang)) = Decode(w, SizeInLang)
    BY <2>3, BehindNothing
  <2> QED BY <1>1, <1>4, <2>1, <2>2, <2>4 DEF Meaning
<1> QED BY <1>1, <1>3, <1>5 DEF Tracks

\* Every step of a decoder reads a byte, with one of the four outcomes, or
\* passes bytes behind a verdict.
LEMMA DecoderSteps ==
  ASSUME Inv, Inv', Collects, Next, ~Feed, ~CNoMemory
  PROVE  /\ rc = 0 /\ pos < lim /\ pos < pos' /\ UNCHANGED <<input, lang>> /\ Collects'
         /\ state = "incomplete" => Outcome
         /\ state # "incomplete" =>
              /\ UNCHANGED <<state, body>>
              /\ surplus' = IF state = "complete" THEN surplus \o Passed ELSE surplus
<1>1. rc = 0 /\ pos < lim /\ TypeOK /\ TypeOK'
  BY DEF Inv, Next, CNext, GoNext, RustNext, InCall, InC, InGo, InRust,
       CInvalidReturns, CKeepSurplus, CSize, CSizeLf, CData, CDataCr, CDataLf, CTrailers,
       GoCallAfterVerdict, GoData, GoDataCr, GoDataLf, GoLineByte, GoFinishSize, GoFinishTrailer,
       RustAfterVerdict, RustSize, RustSizeLf, RustData, RustDataCr, RustDataLf, RustTrailers
<1>2. CASE state = "incomplete"
  <2>1. Reading
    BY <1>1, <1>2 DEF Reading
  <2>2. Outcome /\ Collects' /\ UNCHANGED <<input, lang>>
    BY <2>1, ReadingStep
  <2>3. pos < pos'
    <3>1. pos \in Nat /\ lim \in Nat /\ pos < lim
      BY <1>1 DEF TypeOK, ValuesOK
    <3>2. pos' = pos + 1 \/ pos' = lim
      BY <1>2 DEF Next, CNext, GoNext, RustNext, StepC, StepGo, StepRust,
           CInvalidReturns, CKeepSurplus, CSize, CSizeLf, CData, CDataCr, CDataLf, CTrailers,
           GoCallAfterVerdict, GoData, GoDataCr, GoDataLf, GoLineByte, GoFinishSize, GoFinishTrailer,
           RustAfterVerdict, RustSize, RustSizeLf, RustData, RustDataCr, RustDataLf, RustTrailers
    <3> QED BY <3>1, <3>2
  <2> QED BY <1>1, <1>2, <2>2, <2>3
<1>3. CASE state # "incomplete"
  <2>1. CInvalidReturns \/ CKeepSurplus \/ GoCallAfterVerdict \/ RustAfterVerdict
    BY <1>3 DEF Next, CNext, GoNext, RustNext, InC, InGo, InRust,
         CSize, CSizeLf, CData, CDataCr, CDataLf, CTrailers,
         GoData, GoDataCr, GoDataLf, GoLineByte, GoFinishSize, GoFinishTrailer,
         RustSize, RustSizeLf, RustData, RustDataCr, RustDataLf, RustTrailers
  <2>2. /\ pos < pos' /\ UNCHANGED <<input, lang, state, body>>
        /\ surplus' = IF state = "complete" THEN surplus \o Passed ELSE surplus
    BY <1>1, <2>1, AfterAVerdict
  <2> QED BY <1>1, <1>3, <2>2 DEF Collects
<1> QED BY <1>2, <1>3

LEMMA MeaningStep ==
  ASSUME Inv, Inv', Tracks, Collects, [Next]_vars
  PROVE  Tracks' /\ Collects'
<1>1. CASE UNCHANGED vars
  BY <1>1, NothingRead DEF vars, caller
<1>2. CASE Feed
  BY <1>2, NothingRead DEF Feed
<1>3. CASE CNoMemory
  BY <1>3 DEF CNoMemory, Tracks, Collects
<1>4. CASE Next /\ ~Feed /\ ~CNoMemory
  <2>1. /\ rc = 0 /\ pos < lim /\ pos < pos' /\ UNCHANGED <<input, lang>> /\ Collects'
        /\ TypeOK /\ TypeOK'
    BY <1>4, DecoderSteps DEF Inv
  <2>2. CASE state = "incomplete"
    BY <1>4, <2>1, <2>2, DecoderSteps, Tracking DEF Outcome
  <2>3. CASE state # "incomplete"
    BY <1>4, <2>1, <2>3, DecoderSteps, TrackingBehind
  <2> QED BY <2>1, <2>2, <2>3
<1> QED BY <1>1, <1>2, <1>3, <1>4

\* What Tracks says of the bytes consumed so far.
LEMMA TracksDecodes ==
  ASSUME Inv, Tracks, Collects, rc = 0
  PROVE  DecodesTheCoding
<1>1. /\ state \in {"incomplete", "complete", "invalid"} /\ body \in Seq(STRING) /\ surplus \in Seq(STRING)
      /\ state # "complete" => surplus = <<>>
  BY DEF Inv, TypeOK, ValuesOK, SurplusIsTail
<1>2. PICK c \in Seq(STRING) : c = Consumed
  <2>1. input \in Seq(STRING) /\ pos \in 0 .. Len(input) /\ 1 \in Nat \ {0}
    BY StreamsAssumption, LenProperties DEF Inv, TypeOK, ValuesOK
  <2>2. Consumed \in Seq(STRING)
    BY <2>1, WindowType DEF Consumed
  <2> QED BY <2>2
<1>3. <<>> \in Seq(STRING) /\ c \o <<>> = c /\ Append(c, LF) = c \o <<LF>> /\ <<LF>> \in Seq(STRING) \ {<<>>}
  <2>1. <<>> \in Seq(STRING) /\ c \o <<>> = c
    BY EmptySeq, ConcatEmptySeq
  <2>2. Append(c, LF) = c \o <<LF>> /\ <<LF>> \in Seq(STRING) /\ Len(<<LF>>) = 1
    BY LineEndAssumption, AppendIsConcat, OneElement
  <2>3. <<LF>> # <<>>
    OBVIOUS
  <2> QED BY <2>1, <2>2, <2>3
<1>4. CASE state = "incomplete"
  <2>1. Resume(<<>>) = Open(<<>>)
    <3>1. PICK s \in SizeFunction : s = SizeInLang
      BY Sizes DEF Inv, TypeOK, ValuesOK
    <3>2. PICK l \in Seq(STRING) : l = Collected /\ Plain(l)
      BY <1>4 DEF Inv, TypeOK, ValuesOK, Collected, Collects
    <3>3. PICK n \in Nat : n = rem
      BY SizeMaxAssumption DEF Inv, TypeOK, ValuesOK, Size
    <3>4. PICK m \in Modes : m = Mode
      BY DEF Inv, TypeOK, ValuesOK, Mode, Modes
    <3>5. m = "DATA_LF" => n = 0
      BY <3>3, <3>4 DEF Inv, NoUnderflow, Mode
    <3>6. Rest(m, l, FALSE, n, <<>>, s) = Open(<<>>) /\ Rest(m, l, TRUE, n, <<>>, s) = Open(<<>>)
      BY <3>2, <3>5, RestEnd
    <3>7. \A x : Rest(m, l, x, n, <<>>, s) \in {Rest(m, l, FALSE, n, <<>>, s), Rest(m, l, TRUE, n, <<>>, s)}
      BY DEF Rest, Held
    <3>8. Resume(<<>>) = Rest(m, l, AtCr, n, <<>>, s)
      BY <3>1, <3>2, <3>3, <3>4 DEF Resume
    <3> QED BY <3>6, <3>7, <3>8
  <2>2. Meaning(c) = Behind(body, Open(<<>>))
    BY <1>2, <1>3, <1>4, <2>1 DEF Tracks
  <2>3. Behind(body, Open(<<>>)) = Open(body)
    BY <1>1, BehindEnds
  <2> QED BY <1>1, <1>2, <1>4, <2>2, <2>3 DEF DecodesTheCoding, Meaning, Open
<1>5. CASE state = "complete"
  <2>1. Meaning(c) = Finished(body, surplus \o <<>>)
    BY <1>2, <1>3, <1>5 DEF Tracks
  <2>2. surplus \o <<>> = surplus
    BY <1>1, ConcatEmptySeq
  <2> QED BY <1>2, <1>5, <2>1, <2>2 DEF DecodesTheCoding, Meaning, Finished
<1>6. CASE state = "invalid"
  <2>1. Meaning(Append(c, LF)) = Malformed(body)
    BY <1>2, <1>3, <1>6 DEF Tracks
  <2>2. Meaning(c) = Malformed(body) \/ (lang = "rust" /\ Meaning(c) = Open(body))
    <3>1. Meaning(Consumed) = Malformed(body) \/ (lang = "rust" /\ Meaning(Consumed) = Open(body))
      BY <1>6 DEF Tracks
    <3> QED BY <1>2, <3>1
  <2> QED BY <1>1, <1>2, <1>6, <2>1, <2>2 DEF DecodesTheCoding, Meaning, Malformed, Open
<1> QED BY <1>1, <1>4, <1>5, <1>6

InvMeaning == Inv /\ Tracks /\ Collects /\ DecodesTheCoding

LEMMA MeaningInit == Init => InvMeaning
<1> SUFFICES ASSUME Init PROVE InvMeaning
  OBVIOUS
<1>1. rc = 0
  BY DEF Init, ChunkedInit
<1> QED BY <1>1, InitInv, InitMeaning, TracksDecodes DEF InvMeaning

LEMMA MeaningKept == InvMeaning /\ [Next]_vars => InvMeaning'
<1> SUFFICES ASSUME InvMeaning, [Next]_vars PROVE InvMeaning'
  OBVIOUS
<1>1. Inv' /\ Tracks' /\ Collects'
  BY InvStep, MeaningStep DEF InvMeaning
<1>2. CASE rc' = 0
  <2>1. (Inv /\ Tracks /\ Collects /\ rc = 0 => DecodesTheCoding)'
    BY TracksDecodes, PTL
  <2> QED BY <1>1, <1>2, <2>1 DEF InvMeaning
<1>3. CASE rc' # 0
  <2>1. UNCHANGED <<lang, input, pos, output>>
    BY <1>3 DEF vars, caller, Next, Feed, CNext, CNoMemory, GoNext, RustNext, StepC, StepGo, StepRust, InCall, InC, InGo, InRust,
         CInvalidReturns, CKeepSurplus, CSize, CSizeLf, CData, CDataCr, CDataLf, CTrailers,
         GoCallAfterVerdict, GoData, GoDataCr, GoDataLf, GoLineByte, GoFinishSize, GoFinishTrailer,
         RustAfterVerdict, RustSize, RustSizeLf, RustData, RustDataCr, RustDataLf, RustTrailers
  <2>2. SizeInLang' = SizeInLang /\ Consumed' = Consumed
    BY <2>1 DEF SizeInLang, UnsignedPart, SizeLimit, Consumed
  <2>3. DecodesTheCoding'
    BY <2>1, <2>2 DEF InvMeaning, DecodesTheCoding, output
  <2> QED BY <1>1, <2>3 DEF InvMeaning
<1> QED BY <1>2, <1>3

\* Whatever the bytes and however the calls cut them, verdict, payload and
\* surplus of each decoder are those the grammar of the coding gives to the
\* bytes consumed so far.
THEOREM DecodesTheGrammar == Spec => []DecodesTheCoding
<1>1. InvMeaning => DecodesTheCoding
  BY DEF InvMeaning
<1> QED BY <1>1, MeaningInit, MeaningKept, PTL DEF Spec

-----------------------------------------------------------------------------
(* Where the message ends. *)

UpTo(n) == Meaning(SubSeq(input, 1, n))
EndFound ==
  state = "complete" =>
    /\ UpTo(pos - Len(surplus)) = Finished(body, <<>>)
    /\ UpTo(pos - Len(surplus) - 1).state = "incomplete"

\* The byte that completes a message is its last: the grammar has it open up to
\* the byte before and complete with it, with nothing behind.
LEMMA CompletingByte ==
  ASSUME TypeOK, Tracks, DecodesTheCoding, rc = 0, state = "incomplete", pos < lim, Completes
  PROVE  UpTo(pos + 1) = Finished(body, <<>>) /\ UpTo(pos).state = "incomplete"
<1>1. /\ body \in Seq(STRING) /\ Byte \in STRING /\ <<Byte>> \in Seq(STRING)
      /\ input \in Seq(STRING) /\ pos \in 0 .. Len(input) - 1 /\ pos \in Nat /\ 1 \in 1 .. pos + 1
      /\ Len(input) \in Nat
  BY ByteFacts, OneElement, LenProperties DEF TypeOK, ValuesOK
<1>2. UpTo(pos).state = "incomplete"
  BY DEF DecodesTheCoding, UpTo, Meaning, Consumed
<1>3. SubSeq(input, 1, pos + 1) = Consumed \o <<Byte>>
  <2>1. Append(SubSeq(input, 1, pos), input[pos + 1]) = SubSeq(input, 1, pos + 1)
    BY <1>1, WindowGrows
  <2>2. SubSeq(input, 1, pos) \in Seq(STRING)
    <3>1. 1 \in Nat \ {0} /\ pos \in 0 .. Len(input)
      BY ONLY <1>1
    <3> QED BY ONLY <1>1, <3>1, WindowType
  <2>3. Append(Consumed, Byte) = Consumed \o <<Byte>>
    BY <1>1, <2>2, AppendIsConcat DEF Consumed
  <2> QED BY <2>1, <2>3 DEF Consumed, Byte
<1>4. Resume(<<Byte>>) = Finished(<<>>, <<>>)
  <2>1. <<>> \in Seq(STRING) /\ <<Byte>> \o <<>> = <<Byte>>
    BY <1>1, EmptySeq, ConcatEmptySeq
  <2> QED BY <2>1 DEF Completes
<1>5. UpTo(pos + 1) = Behind(body, Resume(<<Byte>>))
  BY <1>1, <1>3 DEF Tracks, UpTo
<1>6. Behind(body, Finished(<<>>, <<>>)) = Finished(body, <<>>)
  BY <1>1, BehindEnds
<1> QED BY <1>2, <1>4, <1>5, <1>6

LEMMA Differences ==
  ASSUME NEW m \in Nat, NEW n \in Nat, m < n, NEW k \in Nat
  PROVE  /\ (IF m + 1 <= n THEN n - (m + 1) + 1 ELSE 0) = n - m
         /\ (IF m + 2 <= n THEN n - (m + 2) + 1 ELSE 0) = n - m - 1
         /\ n - (n - m - 1) = m + 1 /\ (m + 1) - 1 = m
         /\ n - (k + (n - m)) = m - k
OBVIOUS

LEMMA EndStep ==
  ASSUME InvMeaning, InvMeaning', EndFound, [Next]_vars
  PROVE  EndFound'
<1>1. CASE UNCHANGED vars \/ Feed \/ CNoMemory
  <2>1. UNCHANGED <<lang, input, pos, output>>
    BY <1>1 DEF vars, caller, Feed, CNoMemory, StepC, InC, InCall
  <2>2. SizeInLang' = SizeInLang
    BY <2>1 DEF SizeInLang, UnsignedPart, SizeLimit
  <2> QED BY <2>1, <2>2 DEF EndFound, UpTo, Meaning, output
<1>2. CASE Next /\ ~Feed /\ ~CNoMemory
  <2>1. /\ rc = 0 /\ pos < lim /\ pos < pos' /\ UNCHANGED <<input, lang>>
        /\ TypeOK /\ TypeOK' /\ Tracks /\ DecodesTheCoding
        /\ state = "incomplete" => Outcome
        /\ state # "incomplete" =>
             /\ UNCHANGED <<state, body>>
             /\ surplus' = IF state = "complete" THEN surplus \o Passed ELSE surplus
    BY <1>2, DecoderSteps DEF InvMeaning, Inv
  <2>2. /\ input \in Seq(STRING) /\ Len(input) \in Nat /\ pos \in Nat /\ pos' \in Nat
        /\ pos' <= Len(input) /\ surplus \in Seq(STRING) /\ Len(surplus) \in Nat
        /\ pos + 1 \in Nat \ {0} /\ pos + 2 \in Nat \ {0} /\ pos' \in 0 .. Len(input)
    BY <2>1, StreamsAssumption, LenProperties DEF TypeOK, ValuesOK
  <2>3. \A n : Decode(SubSeq(input', 1, n), SizeInLang') = UpTo(n)
    BY <2>1 DEF UpTo, Meaning, SizeInLang, UnsignedPart, SizeLimit
  <2>t. pos < pos'
    BY <2>1
  <2>4. CASE state' = "complete" /\ state = "incomplete"
    <3>1. Completes
      BY <2>1, <2>4 DEF Outcome, ReadsOn, Breaks, BreaksEarly
    <3>2. UpTo(pos + 1) = Finished(body, <<>>) /\ UpTo(pos).state = "incomplete"
      BY <2>1, <2>4, <3>1, CompletingByte
    <3>3. Len(surplus') = pos' - pos - 1
      <4>1. Len(SubSeq(input, pos + 2, pos'))
              = IF pos + 2 <= pos' THEN pos' - (pos + 2) + 1 ELSE 0
        BY ONLY <2>2, WindowType
      <4>2. surplus' = SubSeq(input, pos + 2, pos')
        BY <3>1 DEF Completes, Skipped
      <4>3. (IF pos + 2 <= pos' THEN pos' - (pos + 2) + 1 ELSE 0) = pos' - pos - 1
        BY ONLY <2>2, <2>t, Differences
      <4> QED BY ONLY <4>1, <4>2, <4>3
    <3>4. pos' - Len(surplus') = pos + 1 /\ pos' - Len(surplus') - 1 = pos
      <4>1. pos' - (pos' - pos - 1) = pos + 1 /\ (pos + 1) - 1 = pos
        BY ONLY <2>2, <2>t, Differences
      <4> QED BY ONLY <3>3, <4>1
    <3>5. /\ Decode(SubSeq(input', 1, pos' - Len(surplus')), SizeInLang') = Finished(body', <<>>)
          /\ Decode(SubSeq(input', 1, pos' - Len(surplus') - 1), SizeInLang').state = "incomplete"
      BY <2>3, <3>1, <3>2, <3>4 DEF Completes
    <3> QED BY <3>5 DEF EndFound, UpTo, Meaning
  <2>5. CASE state = "complete"
    <3>1. surplus' = surplus \o Passed /\ UNCHANGED <<state, body>>
      BY <2>1, <2>5
    <3>2. Len(surplus') = Len(surplus) + (pos' - pos)
      <4>1. /\ SubSeq(input, pos + 1, pos') \in Seq(STRING)
            /\ Len(SubSeq(input, pos + 1, pos')) = IF pos + 1 <= pos' THEN pos' - (pos + 1) + 1 ELSE 0
        BY ONLY <2>2, WindowType
      <4>2. Len(surplus') = Len(surplus) + Len(SubSeq(input, pos + 1, pos'))
        BY <2>2, <3>1, <4>1, ConcatParts DEF Passed
      <4>3. (IF pos + 1 <= pos' THEN pos' - (pos + 1) + 1 ELSE 0) = pos' - pos
        BY ONLY <2>2, <2>t, Differences
      <4> QED BY ONLY <4>1, <4>2, <4>3
    <3>3. pos' - Len(surplus') = pos - Len(surplus)
      <4>1. pos' - (Len(surplus) + (pos' - pos)) = pos - Len(surplus)
        BY ONLY <2>2, <2>t, Differences
      <4> QED BY ONLY <3>2, <4>1
    <3>4. /\ Decode(SubSeq(input', 1, pos' - Len(surplus')), SizeInLang') = Finished(body', <<>>)
          /\ Decode(SubSeq(input', 1, pos' - Len(surplus') - 1), SizeInLang').state = "incomplete"
      BY <2>3, <2>5, <3>1, <3>3 DEF EndFound
    <3> QED BY <3>4 DEF EndFound, UpTo, Meaning
  <2> QED BY <2>1, <2>4, <2>5 DEF EndFound
<1> QED BY <1>1, <1>2 DEF vars

LEMMA EndIsExact == InvMeaning /\ EndFound => SurplusBehindTheMessage
<1> SUFFICES ASSUME InvMeaning, EndFound PROVE SurplusBehindTheMessage
  OBVIOUS
<1>1. /\ state # "complete" => surplus = <<>>
      /\ SubSeq(input, pos - Len(surplus) + 1, pos) = surplus
  BY DEF InvMeaning, Inv, SurplusIsTail, LastConsumed
<1> QED BY <1>1 DEF SurplusBehindTheMessage, EndFound, UpTo, Meaning

\* In every decoder the surplus starts right behind the byte that completes the
\* message, whichever call brought it and however many calls came after.
THEOREM SurplusExact == Spec => []SurplusBehindTheMessage
<1>1. Init => InvMeaning /\ EndFound
  <2> SUFFICES ASSUME Init PROVE InvMeaning /\ EndFound
    OBVIOUS
  <2>1. state = "incomplete"
    BY DEF Init, ChunkedInit
  <2> QED BY <2>1, MeaningInit DEF EndFound
<1>2. InvMeaning /\ EndFound /\ [Next]_vars => EndFound'
  BY MeaningKept, EndStep
<1> QED BY <1>1, <1>2, MeaningKept, EndIsExact, PTL DEF Spec
=============================================================================
