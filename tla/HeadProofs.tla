----------------------------- MODULE HeadProofs -----------------------------
(***************************************************************************)
(* Proofs about the judgement of heads, for every set of streams.  First   *)
(* what the request head parser decides, and that the three searches for   *)
(* the end of the head agree: RInv says what its flags know of the bytes   *)
(* behind it, HInv keeps the header parser behind the end of the head      *)
(* until it has its verdict.                                               *)
(*                                                                         *)
(* Then what a head has to be to be accepted: the k-th line of the head is *)
(* found by counting line ends, so there are lemmas on counting first;     *)
(* next, that the request line parser of every language accepts one line   *)
(* only as a request for the echo, and that the header line parsers return *)
(* the field of a line or find no colon in it.  JInv carries these through *)
(* the run: the header parser is in the line whose number is that of the   *)
(* fields it has stored plus two, and has collected that line so far.      *)
(***************************************************************************)
EXTENDS RequestHeads, StreamLemmas, FiniteSetTheorems

InRange == input \in Seq(STRING) /\ Len(input) \in Nat /\ pos \in 0 .. Len(input)

\* The flags say what the last bytes were.
Flags ==
  rstate = "incomplete" =>
    /\ ~LooseEnd(pos) /\ ~NoFirstLine(pos)
    /\ pendingCR <=> pos > 0 /\ input[pos] = CR
    /\ ~pendingCR => (lineHasBytes <=> pos > 0 /\ input[pos] # LF)
    /\ pendingCR => (lineHasBytes <=> pos > 1 /\ input[pos - 1] # LF)
    /\ sawFirstLine <=> \E i \in 1 .. pos : input[i] = LF

NoEndBefore(n) == \A m \in 4 .. n : ~HeadEndsAt(m)
Decided ==
  /\ rstate = "incomplete" => NoEndBefore(pos)
  /\ rstate = "complete" =>
       HeadEndsAt(pos) /\ NoEndBefore(pos - 1) /\ ~LooseEnd(pos) /\ ~NoFirstLine(pos)
  /\ rstate = "invalid" =>
       pos >= 1 /\ NoEndBefore(pos) /\ (LooseEnd(pos) \/ NoFirstLine(pos))
  /\ rstate \in Verdict

RInv == InRange /\ Flags /\ Decided

-----------------------------------------------------------------------------
LEMMA InitRInv == Init => RInv
<1> SUFFICES ASSUME Init PROVE RInv
  OBVIOUS
<1>1. InRange
  <2>1. input \in Streams /\ pos = 0
    BY DEF Init
  <2>2. input \in Seq(STRING)
    BY <2>1, HeadAssumption, Zenon
  <2> QED BY <2>1, <2>2, LenProperties DEF InRange
<1>2. Flags /\ Decided
  BY DEF Init, Flags, Decided, NoEndBefore, HeadEndsAt, LooseEnd, NoFirstLine, Verdict
<1> QED BY <1>1, <1>2 DEF RInv

\* What one more byte changes in the contract's predicate on line ends.
LEMMA NextLoose ==
  ASSUME NEW n \in Nat
  PROVE  LooseEnd(n + 1) <=> \/ LooseEnd(n)
                             \/ input[n + 1] = LF /\ (n = 0 \/ input[n] # CR)
                             \/ n > 0 /\ input[n] = CR /\ input[n + 1] # LF
BY DEF LooseEnd, CR, LF

LEMMA RequestStep == ASSUME RInv, FeedRequest PROVE RInv'
<1> DEFINE b == input[pos + 1]
<1>1. /\ pos' = pos + 1 /\ pos < Len(input) /\ input' = input
      /\ rstate = "incomplete" /\ RequestByte(b)
      /\ pos \in Nat /\ InRange
  BY DEF FeedRequest, RInv, InRange
<1>2. /\ ~LooseEnd(pos) /\ ~NoFirstLine(pos) /\ NoEndBefore(pos)
      /\ pendingCR <=> pos > 0 /\ input[pos] = CR
      /\ ~pendingCR => (lineHasBytes <=> pos > 0 /\ input[pos] # LF)
      /\ pendingCR => (lineHasBytes <=> pos > 1 /\ input[pos - 1] # LF)
      /\ sawFirstLine <=> \E i \in 1 .. pos : input[i] = LF
  BY <1>1 DEF RInv, Flags, Decided
<1>3. InRange'
  BY <1>1 DEF InRange
<1>4. /\ LooseEnd(pos + 1) <=> \/ b = LF /\ (pos = 0 \/ input[pos] # CR)
                               \/ pos > 0 /\ input[pos] = CR /\ b # LF
      /\ NoFirstLine(pos + 1) <=> pos = 1 /\ input[1] = CR /\ b = LF
      /\ NoEndBefore(pos + 1) <=> (pos >= 3 => ~HeadEndsAt(pos + 1))
  <2>1. LooseEnd(pos + 1) <=> \/ b = LF /\ (pos = 0 \/ input[pos] # CR)
                              \/ pos > 0 /\ input[pos] = CR /\ b # LF
    BY <1>1, <1>2, NextLoose
  <2>2. NoFirstLine(pos + 1) <=> pos = 1 /\ input[1] = CR /\ b = LF
    BY <1>1, <1>2 DEF NoFirstLine
  <2>3. NoEndBefore(pos + 1) <=> (pos >= 3 => ~HeadEndsAt(pos + 1))
    BY <1>1, <1>2 DEF NoEndBefore
  <2> QED BY <2>1, <2>2, <2>3, Zenon
<1>5. HeadEndsAt(pos + 1) <=> /\ pos >= 3 /\ input[pos - 2] = CR /\ input[pos - 1] = LF
                              /\ input[pos] = CR /\ b = LF
  BY <1>1 DEF HeadEndsAt
<1>6. /\ LooseEnd(pos)' <=> LooseEnd(pos + 1)
      /\ NoFirstLine(pos)' <=> NoFirstLine(pos + 1)
      /\ HeadEndsAt(pos)' <=> HeadEndsAt(pos + 1)
      /\ NoEndBefore(pos)' <=> NoEndBefore(pos + 1)
      /\ NoEndBefore(pos - 1)' <=> NoEndBefore(pos)
  BY <1>1 DEF LooseEnd, NoFirstLine, HeadEndsAt, NoEndBefore
<1>7. (\E i \in 1 .. pos + 1 : input[i] = LF) <=> (\E i \in 1 .. pos : input[i] = LF) \/ b = LF
  BY <1>1
<1>8. pos > 1 /\ input[pos - 1] = LF => pos > 2 /\ input[pos - 2] = CR
  BY <1>1, <1>2 DEF LooseEnd
<1>9. CR # LF
  BY DEF CR, LF
\* The contract's verdict after the byte, and the flags the parser then has.
<1>10. ASSUME NEW v \in Verdict, rstate' = v,
              v = "invalid" => LooseEnd(pos + 1) \/ NoFirstLine(pos + 1),
              v = "invalid" => ~HeadEndsAt(pos + 1),
              v # "invalid" => ~LooseEnd(pos + 1) /\ ~NoFirstLine(pos + 1),
              v = "complete" <=> HeadEndsAt(pos + 1)
       PROVE  Decided'
  BY <1>1, <1>2, <1>4, <1>6, <1>10 DEF Decided
<1>11. CASE pendingCR /\ b # LF
  <2>1. rstate' = "invalid"
    BY <1>1, <1>11 DEF RequestByte
  <2>2. Decided'
    BY <1>2, <1>4, <1>5, <1>10, <1>11, <2>1 DEF Verdict
  <2> QED BY <1>3, <2>1, <2>2 DEF RInv, Flags
<1>12. CASE ~pendingCR /\ b = LF
  <2>1. rstate' = "invalid"
    BY <1>1, <1>9, <1>12 DEF RequestByte
  <2>2. Decided'
    BY <1>1, <1>2, <1>4, <1>5, <1>10, <1>12, <2>1 DEF Verdict
  <2> QED BY <1>3, <2>1, <2>2 DEF RInv, Flags
<1>13. CASE ~pendingCR /\ b = CR
  <2>1. /\ rstate' = "incomplete" /\ pendingCR' = TRUE
        /\ UNCHANGED <<sawFirstLine, lineHasBytes>>
    BY <1>1, <1>9, <1>13 DEF RequestByte
  <2>2. ~LooseEnd(pos + 1) /\ ~NoFirstLine(pos + 1) /\ ~HeadEndsAt(pos + 1)
    BY <1>2, <1>4, <1>5, <1>9, <1>13
  <2>3. Decided'
    BY <1>10, <2>1, <2>2 DEF Verdict
  <2>4. Flags'
    BY <1>1, <1>2, <1>6, <1>7, <1>9, <1>13, <2>1, <2>2 DEF Flags
  <2> QED BY <1>3, <2>3, <2>4 DEF RInv
<1>14. CASE ~pendingCR /\ b \notin {CR, LF}
  <2>1. /\ rstate' = "incomplete" /\ pendingCR' = FALSE /\ lineHasBytes' = TRUE
        /\ UNCHANGED sawFirstLine
    BY <1>1, <1>14 DEF RequestByte
  <2>2. ~LooseEnd(pos + 1) /\ ~NoFirstLine(pos + 1) /\ ~HeadEndsAt(pos + 1)
    BY <1>2, <1>4, <1>5, <1>14
  <2>3. Decided'
    BY <1>10, <2>1, <2>2 DEF Verdict
  <2>4. Flags'
    BY <1>1, <1>2, <1>6, <1>7, <1>14, <2>1, <2>2 DEF Flags
  <2> QED BY <1>3, <2>3, <2>4 DEF RInv
<1>15. CASE pendingCR /\ b = LF
  <2>1. pendingCR' = FALSE /\ (FirstLineOver \/ FieldLineOver)
    BY <1>1, <1>9, <1>15 DEF RequestByte
  <2>2. pos > 0 /\ input[pos] = CR /\ ~LooseEnd(pos + 1)
    BY <1>2, <1>4, <1>15
  <2>3. CASE ~sawFirstLine /\ ~lineHasBytes
    <3>1. rstate' = "invalid"
      BY <2>1, <2>3 DEF FirstLineOver, FieldLineOver
    <3>2. pos = 1
      BY <1>1, <1>2, <1>15, <2>2, <2>3
    <3>3. NoFirstLine(pos + 1) /\ ~HeadEndsAt(pos + 1)
      BY <1>4, <1>5, <1>15, <2>2, <3>2
    <3>4. Decided'
      BY <1>10, <3>1, <3>3 DEF Verdict
    <3> QED BY <1>3, <3>1, <3>4 DEF RInv, Flags
  <2>4. CASE ~sawFirstLine /\ lineHasBytes
    <3>1. rstate' = "incomplete" /\ sawFirstLine' = TRUE /\ lineHasBytes' = FALSE
      BY <1>1, <2>1, <2>4 DEF FirstLineOver, FieldLineOver
    <3>2. pos > 1
      BY <1>2, <1>15, <2>4
    <3>3. ~NoFirstLine(pos + 1) /\ ~HeadEndsAt(pos + 1)
      BY <1>1, <1>2, <1>4, <1>5, <2>4, <3>2
    <3>4. Decided'
      BY <1>10, <2>2, <3>1, <3>3 DEF Verdict
    <3>5. Flags'
      BY <1>1, <1>6, <1>7, <1>9, <1>15, <2>1, <2>2, <3>1, <3>3 DEF Flags
    <3> QED BY <1>3, <3>4, <3>5 DEF RInv
  <2>5. CASE sawFirstLine /\ ~lineHasBytes
    <3>1. rstate' = "complete"
      BY <2>1, <2>5 DEF FirstLineOver, FieldLineOver
    <3>2. pos > 1 /\ input[pos - 1] = LF
      BY <1>1, <1>2, <1>9, <1>15, <2>2, <2>5
    <3>3. HeadEndsAt(pos + 1) /\ ~NoFirstLine(pos + 1)
      BY <1>1, <1>4, <1>5, <1>8, <1>15, <2>2, <3>2
    <3>4. Decided'
      BY <1>10, <2>2, <3>1, <3>3 DEF Verdict
    <3> QED BY <1>3, <3>1, <3>4 DEF RInv, Flags
  <2>6. CASE sawFirstLine /\ lineHasBytes
    <3>1. rstate' = "incomplete" /\ sawFirstLine' = TRUE /\ lineHasBytes' = FALSE
      BY <1>1, <2>1, <2>6 DEF FirstLineOver, FieldLineOver
    <3>2. pos > 1 /\ input[pos - 1] # LF
      BY <1>2, <1>15, <2>6
    <3>3. ~NoFirstLine(pos + 1) /\ ~HeadEndsAt(pos + 1)
      BY <1>1, <1>2, <1>4, <1>5, <3>2
    <3>4. Decided'
      BY <1>10, <2>2, <3>1, <3>3 DEF Verdict
    <3>5. Flags'
      BY <1>1, <1>6, <1>7, <1>9, <1>15, <2>1, <2>2, <3>1, <3>3 DEF Flags
    <3> QED BY <1>3, <3>4, <3>5 DEF RInv
  <2> QED BY <2>3, <2>4, <2>5, <2>6
<1> QED BY <1>11, <1>12, <1>13, <1>14, <1>15

-----------------------------------------------------------------------------
(* The header parser is started behind the first line and stays behind the *)
(* end of the head until it has its verdict.                               *)

Started ==
  /\ part # "request" => rstate # "incomplete"
  /\ hpos = 0 => hstate = "incomplete"
  /\ part = "request" => hpos = 0 /\ HeaderInit
  /\ part = "headers" => hpos # 0
  /\ hpos # 0 => rstate = "complete" /\ hpos \in 2 .. pos
Ahead ==
  /\ hpos # 0 /\ hstate = "incomplete" => hpos < pos
  /\ hstate = "complete" => hpos = pos
\* The collected line is empty exactly behind a line end.
Collected ==
  part = "headers" /\ hstate = "incomplete" =>
    /\ hline \in Seq(STRING)
    /\ hpending <=> input[hpos] = CR
    /\ ~hpending => (hline = <<>> <=> input[hpos] = LF)
    /\ hpending => (hline = <<>> <=> input[hpos - 1] = LF)

HInv == Started /\ Ahead /\ Collected

LEMMA InitHInv == Init => HInv
BY DEF Init, HInv, Started, Ahead, Collected, HeaderInit

LEMMA HeaderByte ==
  ASSUME NEW b, FeedHeaders, b = input[hpos + 1], ~(hpending /\ b = LF)
  PROVE  \/ hstate' = "invalid"
         \/ b = CR /\ ~hpending /\ hpending' = TRUE /\ UNCHANGED <<hstate, hline>>
         \/ /\ b \notin {CR, LF} /\ ~hpending /\ hline' = Append(hline, b)
            /\ UNCHANGED <<hstate, hpending>>
BY DEF FeedHeaders, HeaderFeed, HeaderFeedC, HeaderFeedGo, HeaderFeedRust, FeedHeaderByte

LEMMA HeaderLineEnd ==
  ASSUME FeedHeaders, hpending, input[hpos + 1] = LF
  PROVE  \/ hline = <<>> /\ hstate' = "complete"
         \/ hstate' = "invalid"
         \/ hline # <<>> /\ hline' = <<>> /\ hpending' = FALSE /\ UNCHANGED hstate
BY DEF FeedHeaders, HeaderFeed, HeaderFeedC, HeaderFeedGo, HeaderFeedRust, FeedHeaderByte

LEMMA HeaderStep == ASSUME RInv, HInv, FeedHeaders PROVE HInv'
<1> DEFINE b == input[hpos + 1]
<1>1. /\ part = "headers" /\ part' = part /\ hstate = "incomplete" /\ hpos < pos
      /\ hpos' = hpos + 1 /\ input' = input /\ pos' = pos /\ rstate' = rstate
      /\ rstate = "complete" /\ hpos \in 2 .. pos
      /\ input \in Seq(STRING) /\ Len(input) \in Nat /\ pos \in 0 .. Len(input)
  BY DEF FeedHeaders, rvars, RInv, InRange, HInv, Started
<1>2. /\ hline \in Seq(STRING)
      /\ hpending <=> input[hpos] = CR
      /\ ~hpending => (hline = <<>> <=> input[hpos] = LF)
      /\ hpending => (hline = <<>> <=> input[hpos - 1] = LF)
  BY <1>1 DEF HInv, Collected
<1>3. HeadEndsAt(pos) /\ NoEndBefore(pos - 1) /\ ~LooseEnd(pos)
  BY <1>1 DEF RInv, Decided
<1>4. b \in STRING
  BY <1>1
<1>5. Started'
  BY <1>1 DEF Started
<1>6. CR # LF
  BY DEF CR, LF
<1>7. pos >= 4 /\ input[pos - 2] = LF /\ input[pos - 1] = CR /\ input[pos] = LF
  BY <1>3 DEF HeadEndsAt
<1>8. CASE hpending /\ b = LF
  <2>1. input[hpos] = CR
    BY <1>2, <1>8
  <2>2. CASE hline = <<>> /\ hstate' = "complete"
    <3>1. input[hpos - 1] = LF
      BY <1>2, <1>8, <2>2
    <3>2. hpos > 2 /\ input[hpos - 2] = CR
      BY <1>1, <1>3, <3>1 DEF LooseEnd
    <3>3. HeadEndsAt(hpos + 1)
      BY <1>1, <1>8, <2>1, <3>1, <3>2 DEF HeadEndsAt
    <3>4. hpos + 1 = pos
      BY <1>1, <1>3, <3>2, <3>3 DEF NoEndBefore
    <3> QED BY <1>1, <1>5, <2>2, <3>4 DEF HInv, Ahead, Collected
  <2>3. CASE hline # <<>> /\ hline' = <<>> /\ hpending' = FALSE /\ UNCHANGED hstate
    <3>1. input[hpos - 1] # LF
      BY <1>2, <1>8, <2>3
    <3>2. hpos + 1 < pos
      BY <1>1, <1>7, <3>1
    <3>3. Ahead'
      BY <1>1, <2>3, <3>2 DEF Ahead
    <3>4. Collected'
      BY <1>1, <1>6, <1>8, <2>3, EmptySeq DEF Collected
    <3> QED BY <1>5, <3>3, <3>4 DEF HInv
  <2>4. CASE hstate' = "invalid"
    BY <1>1, <1>5, <2>4 DEF HInv, Ahead, Collected
  <2> QED BY <1>8, <2>2, <2>3, <2>4, HeaderLineEnd
<1>9. CASE ~(hpending /\ b = LF)
  <2>1. CASE b = CR /\ ~hpending /\ hpending' = TRUE /\ UNCHANGED <<hstate, hline>>
    <3>1. hpos + 1 < pos
      BY <1>1, <1>6, <1>7, <2>1
    <3>2. Ahead'
      BY <1>1, <2>1, <3>1 DEF Ahead
    <3>3. Collected'
      BY <1>1, <1>2, <2>1 DEF Collected
    <3> QED BY <1>5, <3>2, <3>3 DEF HInv
  <2>2. CASE /\ b \notin {CR, LF} /\ ~hpending /\ hline' = Append(hline, b)
             /\ UNCHANGED <<hstate, hpending>>
    <3>1. hpos + 1 < pos
      BY <1>1, <1>7, <2>2
    <3>2. Ahead'
      BY <1>1, <2>2, <3>1 DEF Ahead
    <3>3. hline' \in Seq(STRING) /\ hline' # <<>>
      BY <1>2, <1>4, <2>2, AppendProperties
    <3>4. Collected'
      BY <1>1, <2>2, <3>3 DEF Collected
    <3> QED BY <1>5, <3>2, <3>4 DEF HInv
  <2>3. CASE hstate' = "invalid"
    BY <1>1, <1>5, <2>3 DEF HInv, Ahead, Collected
  <2> QED BY <1>9, <2>1, <2>2, <2>3, HeaderByte
<1> QED BY <1>8, <1>9

LEMMA JudgeStep == ASSUME RInv, HInv, JudgeHead PROVE HInv'
<1>1. /\ part = "request" /\ hpos = 0 /\ HeaderInit
      /\ UNCHANGED <<input, pos, rstate, hstate, hline, hpending>>
      /\ input \in Seq(STRING) /\ Len(input) \in Nat /\ pos \in 0 .. Len(input)
  BY DEF JudgeHead, rvars, hvars, HInv, Started, RInv, InRange
<1>2. CASE part' = "refused" /\ hpos' = hpos /\ rstate # "incomplete"
  BY <1>1, <1>2 DEF HInv, Started, Ahead, Collected, HeaderInit
<1>3. ASSUME NEW end \in FirstCrlf, rstate = "complete",
             part' = "headers", hpos' = end + 1
      PROVE  HInv'
  <2>1. end \in 1 .. pos - 1 /\ input[end + 1] = LF
        /\ \A j \in 1 .. end - 1 : ~(input[j] = CR /\ input[j + 1] = LF)
    BY <1>3 DEF FirstCrlf
  <2>2. pos >= 4 /\ input[pos - 3] = CR /\ input[pos - 2] = LF
    BY <1>3 DEF RInv, Decided, HeadEndsAt
  <2>3. end <= pos - 3
    <3> SUFFICES ASSUME end > pos - 3 PROVE FALSE
      BY <1>1, <2>1
    <3>1. pos - 3 \in 1 .. end - 1 /\ (pos - 3) + 1 = pos - 2
      BY <1>1, <2>1, <2>2
    <3> QED BY <2>1, <2>2, <3>1
  <2>4. Started' /\ Ahead'
    BY <1>1, <1>3, <2>1, <2>3 DEF Started, Ahead, HeaderInit
  <2>5. Collected'
    BY <1>1, <1>3, <2>1, EmptySeq DEF Collected, HeaderInit, CR, LF
  <2> QED BY <2>4, <2>5 DEF HInv
<1> QED BY <1>2, <1>3 DEF JudgeHead

-----------------------------------------------------------------------------
LEMMA Invariance == Spec => [](RInv /\ HInv)
<1>1. Init => RInv /\ HInv
  BY InitRInv, InitHInv
<1>2. RInv /\ HInv /\ [Next]_vars => RInv' /\ HInv'
  <2> SUFFICES ASSUME RInv, HInv, [Next]_vars PROVE RInv' /\ HInv'
    OBVIOUS
  <2>1. CASE FeedRequest
    <3>1. HInv'
      BY <2>1 DEF FeedRequest, HInv, Started, Ahead, Collected, HeaderInit, hvars
    <3> QED BY <2>1, <3>1, RequestStep
  <2>2. ASSUME UNCHANGED <<input, pos, rvars>> PROVE RInv'
    <3>1. /\ UNCHANGED <<input, pos, rstate, sawFirstLine, lineHasBytes, pendingCR>>
          /\ LooseEnd(pos)' = LooseEnd(pos) /\ NoFirstLine(pos)' = NoFirstLine(pos)
          /\ HeadEndsAt(pos)' = HeadEndsAt(pos)
          /\ NoEndBefore(pos)' = NoEndBefore(pos)
          /\ NoEndBefore(pos - 1)' = NoEndBefore(pos - 1)
      BY <2>2 DEF rvars, NoEndBefore, HeadEndsAt, LooseEnd, NoFirstLine
    <3>2. InRange' /\ Decided'
      BY <3>1 DEF RInv, InRange, Decided
    <3>3. Flags'
      <4>1. Flags
        BY DEF RInv
      <4> QED BY ONLY <3>1, <4>1, Zenon DEF Flags
    <3> QED BY <3>2, <3>3 DEF RInv
  <2>3. CASE JudgeHead
    <3>1. UNCHANGED <<input, pos, rvars>>
      BY <2>3 DEF JudgeHead
    <3> QED BY <2>2, <2>3, <3>1, JudgeStep
  <2>4. CASE FeedHeaders
    <3>1. UNCHANGED <<input, pos, rvars>>
      BY <2>4 DEF FeedHeaders
    <3> QED BY <2>2, <2>4, <3>1, HeaderStep
  <2>5. CASE CNoMemory
    <3>1. UNCHANGED <<input, pos, rvars>>
      BY <2>5 DEF CNoMemory
    <3>2. HInv'
      BY <2>5 DEF CNoMemory, HeaderNoMemoryC, HInv, Started, Ahead, Collected, rvars
    <3> QED BY <2>2, <3>1, <3>2
  <2>6. CASE JudgeHeaders
    <3>1. UNCHANGED <<input, pos, rvars>>
      BY <2>6 DEF JudgeHeaders
    <3>2. HInv'
      BY <2>6 DEF JudgeHeaders, HInv, Started, Ahead, Collected, rvars, hvars
    <3> QED BY <2>2, <3>1, <3>2
  <2>7. CASE UNCHANGED vars
    <3>1. UNCHANGED <<input, pos, rvars>>
      BY <2>7 DEF vars
    <3>2. HInv'
      BY <2>7 DEF vars, rvars, hvars, HInv, Started, Ahead, Collected, HeaderInit
    <3> QED BY <2>2, <3>1, <3>2
  <2> QED BY <2>1, <2>3, <2>4, <2>5, <2>6, <2>7 DEF Next
<1> QED BY <1>1, <1>2, PTL DEF Spec

\* After every byte of every input the request head parser's verdict is the
\* contract's (request_parser.c feed and its Go and Rust counterparts).
THEOREM HeadIsDecided == Spec => []DecidesTheHead
<1>1. RInv => DecidesTheHead
  <2> SUFFICES ASSUME RInv PROVE DecidesTheHead
    OBVIOUS
  <2>1. CASE rstate = "incomplete"
    <3>1. ~LooseEnd(pos) /\ ~NoFirstLine(pos) /\ NoEndBefore(pos) /\ pos \in Nat
      BY <2>1 DEF RInv, InRange, Flags, Decided
    <3>2. ~HeadEndsAt(pos)
      BY <3>1 DEF NoEndBefore, HeadEndsAt
    <3> QED BY <2>1, <3>1, <3>2 DEF DecidesTheHead
  <2>2. CASE rstate = "complete"
    BY <2>2 DEF RInv, Decided, DecidesTheHead
  <2>3. CASE rstate = "invalid"
    BY <2>3 DEF RInv, Decided, DecidesTheHead
  <2> QED BY <2>1, <2>2, <2>3 DEF RInv, Decided, Verdict
<1> QED BY <1>1, Invariance, PTL

\* The request head parser, the server's search for the head's end and the
\* header parser find the same end (http_echo_server.c 135-159).
THEOREM SearchesAgree == Spec => []EndsTogether
<1>1. RInv /\ HInv => EndsTogether
  <2> SUFFICES ASSUME RInv, HInv PROVE EndsTogether
    OBVIOUS
  <2>1. pos \in Nat /\ (rstate # "incomplete" => pos >= 1) /\ rstate \in Verdict
    BY DEF RInv, InRange, Decided, HeadEndsAt, Verdict
  <2>2. rstate = "complete" => HeadEndsAt(pos)
    BY DEF RInv, Decided
  <2>3. \A n \in 4 .. pos : HeadEndsAt(n) => n = pos /\ rstate # "incomplete"
    BY <2>1 DEF RInv, Decided, NoEndBefore, Verdict
  <2>4. hstate = "complete" => hpos = pos
    BY DEF HInv, Ahead
  <2>5. part # "request" /\ hpos = pos => hstate # "incomplete"
    BY <2>1 DEF HInv, Started, Ahead
  <2> QED BY <2>2, <2>3, <2>4, <2>5 DEF EndsTogether
<1> QED BY <1>1, Invariance, PTL

-----------------------------------------------------------------------------
(* Counting places: which is the k-th of a set of them.                    *)

UpTo(places, n) == Cardinality({j \in places : j <= n})

LEMMA FinitePlaces ==
  ASSUME NEW n \in Nat, NEW S \in SUBSET (0 .. n)
  PROVE  IsFiniteSet(S) /\ Cardinality(S) \in Nat
<1>1. IsFiniteSet(0 .. n)
  BY FS_Interval
<1> QED BY <1>1, FS_Subset, FS_CardinalityType

\* One place further the count grows by one if it is a place of the set.
LEMMA UpToNext ==
  ASSUME NEW n \in Nat, NEW S \in SUBSET (0 .. n), NEW i \in 1 .. n
  PROVE  UpTo(S, i) = IF i \in S THEN UpTo(S, i - 1) + 1 ELSE UpTo(S, i - 1)
<1> DEFINE A == {j \in S : j <= i - 1}
           B == {j \in S : j <= i}
<1>1. A \in SUBSET (0 .. n) /\ i \notin A
  <2>1. \A j \in S : j \in 0 .. n
    OBVIOUS
  <2>2. A \in SUBSET (0 .. n)
    BY <2>1, Zenon
  <2>3. ~(i <= i - 1)
    OBVIOUS
  <2>4. i \notin A
    BY <2>3, Zenon
  <2> QED BY <2>2, <2>4
<1>5. \A j \in S : j \in Int /\ (j <= i <=> j <= i - 1 \/ j = i)
  OBVIOUS
<1>6. i \in S => B = A \cup {i}
  BY <1>5
<1>7. i \notin S => B = A
  BY <1>5
<1>2. UpTo(S, i - 1) = Cardinality(A) /\ UpTo(S, i) = Cardinality(B)
  BY DEF UpTo
<1> HIDE DEF A, B
<1>3. IsFiniteSet(A)
  BY <1>1, FinitePlaces
<1>4. Cardinality(A \cup {i}) = Cardinality(A) + 1
  BY <1>1, <1>3, FS_AddElement
<1> QED BY <1>2, <1>4, <1>6, <1>7, Zenon

LEMMA UpToGrows ==
  ASSUME NEW n \in Nat, NEW S \in SUBSET (0 .. n), NEW i \in 0 .. n, NEW k \in S, i < k
  PROVE  UpTo(S, i) < UpTo(S, k)
<1> DEFINE A == {j \in S : j <= i}
           B == {j \in S : j <= k}
<1>1. A \in SUBSET (0 .. n) /\ B \in SUBSET (0 .. n) /\ A \subseteq B
  <2>1. \A j \in S : j \in 0 .. n /\ (j <= i => j <= k)
    OBVIOUS
  <2> QED BY <2>1, Zenon
<1>5. k \in B /\ k \notin A
  OBVIOUS
<1>2. UpTo(S, i) = Cardinality(A) /\ UpTo(S, k) = Cardinality(B)
  BY DEF UpTo
<1> HIDE DEF A, B
<1>3. IsFiniteSet(B) /\ Cardinality(A) \in Nat /\ Cardinality(B) \in Nat
  BY <1>1, FinitePlaces
<1>4. Cardinality(A) <= Cardinality(B) /\ (Cardinality(A) = Cardinality(B) => A = B)
  BY <1>1, <1>3, FS_Subset
<1> QED BY <1>2, <1>3, <1>4, <1>5

\* A place is the k-th if the count up to it is k.
LEMMA NthIs ==
  ASSUME NEW n \in Nat, NEW S \in SUBSET (0 .. n), NEW i \in S, NEW k, UpTo(S, i) = k
  PROVE  Nth(S, k) = i
<1>1. ASSUME NEW j \in S, UpTo(S, j) = k PROVE j = i
  <2>1. i \in 0 .. n /\ j \in 0 .. n
    OBVIOUS
  <2>2. CASE j < i
    <3>1. UpTo(S, j) < UpTo(S, i)
      BY <2>1, <2>2, UpToGrows
    <3>2. UpTo(S, i) \in Nat
      BY FinitePlaces DEF UpTo
    <3> QED BY <1>1, <3>1, <3>2
  <2>3. CASE i < j
    <3>1. UpTo(S, i) < UpTo(S, j)
      BY <2>1, <2>3, UpToGrows
    <3>2. UpTo(S, i) \in Nat
      BY FinitePlaces DEF UpTo
    <3> QED BY <1>1, <3>1, <3>2
  <2> QED BY <2>1, <2>2, <2>3
<1>2. Nth(S, k) = CHOOSE x \in S : UpTo(S, x) = k
  BY DEF Nth, UpTo
<1> QED BY <1>1, <1>2

LEMMA TwoPlaces ==
  ASSUME NEW n \in Nat, NEW S \in SUBSET (1 .. n), NEW a \in S, NEW b \in S,
         a < b, S = {a, b}
  PROVE  Cardinality(S) = 2 /\ Nth(S, 1) = a /\ Nth(S, 2) = b
<1>1. S \in SUBSET (0 .. n)
  OBVIOUS
<1>2. Cardinality({a}) = 1 /\ IsFiniteSet({a})
  BY FS_Singleton
<1>6. b \notin {a} /\ {a} \cup {b} = S
  OBVIOUS
<1>3. Cardinality({a} \cup {b}) = Cardinality({a}) + 1
  BY <1>2, <1>6, FS_AddElement
<1>4. {j \in S : j <= a} = {a} /\ {j \in S : j <= b} = S
  OBVIOUS
<1>5. UpTo(S, a) = 1 /\ UpTo(S, b) = 2
  BY <1>2, <1>3, <1>4, <1>6 DEF UpTo
<1> QED BY <1>1, <1>2, <1>3, <1>5, NthIs

LEMMA ArePlaces ==
  ASSUME NEW n \in Nat, NEW S \in SUBSET (1 .. n), Cardinality(S) = 2
  PROVE  \E a, b \in S : a < b /\ S = {a, b}
<1>1. S \in SUBSET (0 .. n)
  OBVIOUS
<1>2. ExistsBijection(1 .. 2, S)
  BY <1>1, FinitePlaces, FS_CardinalityType
<1>3. PICK f \in Bijection(1 .. 2, S) : TRUE
  BY <1>2 DEF ExistsBijection
<1>4. /\ f \in [1 .. 2 -> S]
      /\ \A x, y \in 1 .. 2 : f[x] = f[y] => x = y
      /\ \A s \in S : \E x \in 1 .. 2 : f[x] = s
  BY <1>3 DEF Bijection, Injection, Surjection, IsInjective
<1>5. f[1] \in S /\ f[2] \in S /\ f[1] # f[2] /\ S = {f[1], f[2]}
  <2>1. 1 \in 1 .. 2 /\ 2 \in 1 .. 2 /\ \A x \in 1 .. 2 : x = 1 \/ x = 2
    OBVIOUS
  <2>2. f[1] \in S /\ f[2] \in S /\ f[1] # f[2]
    BY <1>4, <2>1
  <2>3. \A s \in S : s = f[1] \/ s = f[2]
    BY <1>4, <2>1, Zenon
  <2> QED BY <2>2, <2>3
<1>6. f[1] \in Int /\ f[2] \in Int
  BY <1>5
<1>7. f[1] < f[2] \/ f[2] < f[1]
  BY <1>5, <1>6
<1> QED BY <1>5, <1>7

-----------------------------------------------------------------------------
(* Request lines.                                                          *)

LEMMA SpacesIn ==
  ASSUME NEW l \in Seq(STRING)
  PROVE  Len(l) \in Nat /\ DOMAIN l = 1 .. Len(l) /\ Spaces(l) \in SUBSET (1 .. Len(l))
BY LenProperties DEF Spaces

Cuts(l) == {0} \cup Spaces(l) \cup {Len(l) + 1}
Parts(l) == [i \in 1 .. Cardinality(Cuts(l)) - 1 |->
               SubSeq(l, Nth(Cuts(l), i) + 1, Nth(Cuts(l), i + 1) - 1)]

LEMMA CutsCount ==
  ASSUME NEW l \in Seq(STRING)
  PROVE  Cardinality(Cuts(l)) = Cardinality(Spaces(l)) + 2
<1>1. Len(l) \in Nat /\ Spaces(l) \in SUBSET (1 .. Len(l))
  BY SpacesIn
<1> DEFINE S == Spaces(l)
           T == S \cup {0}
           U == T \cup {Len(l) + 1}
<1>2. 0 \notin S /\ Len(l) + 1 \notin T /\ S \in SUBSET (0 .. Len(l))
  BY <1>1
<1>3. Cuts(l) = U
  BY DEF Cuts
<1> HIDE DEF S
<1>4. IsFiniteSet(S) /\ Cardinality(S) \in Nat
  BY <1>1, <1>2, FinitePlaces
<1>5. IsFiniteSet(T) /\ Cardinality(T) = Cardinality(S) + 1
  BY <1>2, <1>4, FS_AddElement
<1> HIDE DEF T
<1>6. Cardinality(U) = Cardinality(T) + 1
  BY <1>2, <1>5, FS_AddElement
<1> QED BY <1>3, <1>4, <1>5, <1>6 DEF S

\* With two spaces the cuts are four, and the parts the words between them.
LEMMA ThreeParts ==
  ASSUME NEW l \in Seq(STRING), NEW a \in Spaces(l), NEW b \in Spaces(l),
         a < b, Spaces(l) = {a, b}
  PROVE  /\ Len(Parts(l)) = 3
         /\ Parts(l)[1] = SubSeq(l, 1, a - 1)
         /\ Parts(l)[2] = SubSeq(l, a + 1, b - 1)
         /\ Parts(l)[3] = SubSeq(l, b + 1, Len(l))
<1> DEFINE n == Len(l)
           C == Cuts(l)
<1>1. n \in Nat /\ a \in 1 .. n /\ b \in 1 .. n /\ Spaces(l) \in SUBSET (1 .. n)
  BY SpacesIn
<1>2. C = {0, a, b, n + 1}
  BY DEF Cuts
<1>3. Cardinality(C) = 4
  <2>1. Cardinality(Spaces(l)) = 2
    BY <1>1, TwoPlaces
  <2> QED BY <2>1, CutsCount
<1> HIDE DEF C, n
<1>4. n + 1 \in Nat /\ C \in SUBSET (0 .. n + 1)
      /\ 0 \in C /\ a \in C /\ b \in C /\ n + 1 \in C
  BY <1>1, <1>2
<1>5. /\ {j \in C : j <= 0} = {0}
      /\ {j \in C : j <= a} = {0} \cup {a} /\ a \notin {0}
      /\ {j \in C : j <= b} = ({0} \cup {a}) \cup {b} /\ b \notin {0} \cup {a}
      /\ {j \in C : j <= n + 1} = C
  BY <1>1, <1>2
<1>6. /\ IsFiniteSet({0}) /\ Cardinality({0}) = 1
  BY FS_Singleton
<1> DEFINE A == {0} \cup {a}
<1>7. IsFiniteSet(A) /\ Cardinality(A) = 2
  <2> DEFINE Z == {0}
  <2>1. IsFiniteSet(Z) /\ Cardinality(Z) = 1 /\ a \notin Z
    BY <1>5, <1>6
  <2> HIDE DEF Z
  <2>2. IsFiniteSet(Z \cup {a}) /\ Cardinality(Z \cup {a}) = Cardinality(Z) + 1
    BY <2>1, FS_AddElement
  <2> QED BY <2>1, <2>2 DEF Z
<1>8. Cardinality(({0} \cup {a}) \cup {b}) = 3
  <2>1. b \notin A
    BY <1>5
  <2> HIDE DEF A
  <2>2. Cardinality(A \cup {b}) = Cardinality(A) + 1
    BY <1>7, <2>1, FS_AddElement
  <2>3. Cardinality(A) = 2
    BY <1>7
  <2>4. Cardinality(A \cup {b}) = 3
    BY <2>2, <2>3
  <2> QED BY <2>4, Zenon DEF A
<1>9. UpTo(C, 0) = 1 /\ UpTo(C, a) = 2 /\ UpTo(C, b) = 3 /\ UpTo(C, n + 1) = 4
  BY <1>3, <1>5, <1>6, <1>7, <1>8 DEF UpTo
<1>10. Nth(C, 1) = 0 /\ Nth(C, 2) = a /\ Nth(C, 3) = b /\ Nth(C, 4) = n + 1
  BY <1>4, <1>9, NthIs
<1>11. Parts(l) = [i \in 1 .. 3 |-> SubSeq(l, Nth(C, i) + 1, Nth(C, i + 1) - 1)]
  BY <1>3 DEF Parts, C
<1>12. Len(Parts(l)) = 3
  BY <1>11
<1>13. /\ Parts(l)[1] = SubSeq(l, Nth(C, 1) + 1, Nth(C, 2) - 1)
       /\ Parts(l)[2] = SubSeq(l, Nth(C, 2) + 1, Nth(C, 3) - 1)
       /\ Parts(l)[3] = SubSeq(l, Nth(C, 3) + 1, Nth(C, 4) - 1)
  <2>1. /\ 1 \in 1 .. 3 /\ 2 \in 1 .. 3 /\ 3 \in 1 .. 3
        /\ 1 + 1 = 2 /\ 2 + 1 = 3 /\ 3 + 1 = 4
    OBVIOUS
  <2> QED BY <1>11, <2>1, Zenon
<1>14. 0 + 1 = 1 /\ (n + 1) - 1 = n
  BY <1>1
<1> QED BY <1>10, <1>12, <1>13, <1>14, Zenon DEF n

\* Two spaces cut a line into the words of a request line.
CutAt(l, a, b) ==
  /\ a \in 1 .. Len(l) /\ b \in 1 .. Len(l) /\ a < b /\ Spaces(l) = {a, b}
GoodLine(l, a, b) ==
  /\ CutAt(l, a, b) /\ ToSet(l) \cap {CR, LF, "\t"} = {}
  /\ a # 1 /\ b # a + 1 /\ SubSeq(l, b + 1, Len(l)) = <<HttpVersion>>
Words(l, a, b) ==
  [method |-> SubSeq(l, 1, a - 1), target |-> SubSeq(l, a + 1, b - 1)]

LEMMA RequestLines ==
  ASSUME NEW l \in Seq(STRING), NEW found \in {RequestLineC(l), ParseRequestLine(l)}
  PROVE  /\ \A a, b : GoodLine(l, a, b) => found = {Words(l, a, b)}
         /\ (~\E a, b \in 1 .. Len(l) : GoodLine(l, a, b)) => found = {}
<1> DEFINE n == Len(l)
<1>1. n \in Nat /\ Spaces(l) \in SUBSET (1 .. n)
  BY SpacesIn
<1>2. found = RequestLineC(l) \/ found = ParseRequestLine(l)
  OBVIOUS
<1>3. SplitAtSpaces(l) = Parts(l)
  BY DEF SplitAtSpaces, Parts, Cuts
<1>4. ASSUME NEW a, NEW b, CutAt(l, a, b)
      PROVE  /\ Cardinality(Spaces(l)) = 2 /\ Nth(Spaces(l), 1) = a /\ Nth(Spaces(l), 2) = b
             /\ Len(Parts(l)) = 3 /\ Parts(l)[1] = SubSeq(l, 1, a - 1)
             /\ Parts(l)[2] = SubSeq(l, a + 1, b - 1) /\ Parts(l)[3] = SubSeq(l, b + 1, n)
             /\ (SubSeq(l, 1, a - 1) = <<>> <=> a = 1)
             /\ (SubSeq(l, a + 1, b - 1) = <<>> <=> b = a + 1)
             /\ (b = n => SubSeq(l, b + 1, n) # <<HttpVersion>>)
  <2>1. a \in Spaces(l) /\ b \in Spaces(l) /\ a < b /\ Spaces(l) = {a, b}
        /\ a \in 1 .. n /\ b \in 1 .. n
    BY <1>4 DEF CutAt
  <2>2. Cardinality(Spaces(l)) = 2 /\ Nth(Spaces(l), 1) = a /\ Nth(Spaces(l), 2) = b
    BY <1>1, <2>1, TwoPlaces
  <2>3. /\ Len(Parts(l)) = 3 /\ Parts(l)[1] = SubSeq(l, 1, a - 1)
        /\ Parts(l)[2] = SubSeq(l, a + 1, b - 1) /\ Parts(l)[3] = SubSeq(l, b + 1, n)
    BY <2>1, ThreeParts
  <2>4. /\ 1 \in Nat \ {0} /\ a - 1 \in 0 .. Len(l) /\ a + 1 \in Nat \ {0}
        /\ b - 1 \in 0 .. Len(l) /\ b + 1 \in Nat \ {0} /\ n \in 0 .. Len(l)
    BY <1>1, <2>1
  <2>5. /\ SubSeq(l, 1, a - 1) \in Seq(STRING) /\ SubSeq(l, a + 1, b - 1) \in Seq(STRING)
        /\ Len(SubSeq(l, 1, a - 1)) = IF 1 <= a - 1 THEN (a - 1) - 1 + 1 ELSE 0
        /\ Len(SubSeq(l, a + 1, b - 1)) = IF a + 1 <= b - 1 THEN (b - 1) - (a + 1) + 1 ELSE 0
        /\ Len(SubSeq(l, b + 1, n)) = IF b + 1 <= n THEN n - (b + 1) + 1 ELSE 0
    BY <2>4, WindowType
  <2>6. SubSeq(l, 1, a - 1) = <<>> <=> a = 1
    BY <1>1, <2>1, <2>5, EmptySeq
  <2>7. SubSeq(l, a + 1, b - 1) = <<>> <=> b = a + 1
    BY <1>1, <2>1, <2>5, EmptySeq
  <2>8. b = n => SubSeq(l, b + 1, n) # <<HttpVersion>>
    <3>1. Len(<<HttpVersion>>) = 1
      OBVIOUS
    <3> QED BY <1>1, <2>5, <3>1
  <2> QED BY <2>2, <2>3, <2>6, <2>7, <2>8
<1> HIDE DEF n
<1>5. ASSUME NEW a, NEW b, GoodLine(l, a, b)
      PROVE  found = {Words(l, a, b)}
  <2>1. CutAt(l, a, b) /\ ToSet(l) \cap {CR, LF, "\t"} = {}
        /\ a # 1 /\ b # a + 1 /\ SubSeq(l, b + 1, Len(l)) = <<HttpVersion>>
    BY <1>5 DEF GoodLine
  <2>2. RequestLineC(l) = {Words(l, a, b)}
    BY <1>4, <2>1 DEF RequestLineC, Words, n
  <2>3. ParseRequestLine(l) = {Words(l, a, b)}
    BY <1>3, <1>4, <2>1 DEF ParseRequestLine, Words, n
  <2> QED BY <1>2, <2>2, <2>3
<1>6. ASSUME found # {} PROVE \E a, b \in 1 .. Len(l) : GoodLine(l, a, b)
  <2>1. ToSet(l) \cap {CR, LF, "\t"} = {}
    BY <1>2, <1>6 DEF RequestLineC, ParseRequestLine
  <2>2. Cardinality(Spaces(l)) = 2
    <3>1. CASE RequestLineC(l) # {}
      BY <3>1 DEF RequestLineC
    <3>2. CASE ParseRequestLine(l) # {}
      <4>1. Len(Parts(l)) = 3
        BY <1>3, <3>2 DEF ParseRequestLine
      <4>2. Cardinality(Spaces(l)) \in Nat /\ Cardinality(Cuts(l)) = Cardinality(Spaces(l)) + 2
        <5>1. Spaces(l) \in SUBSET (0 .. n)
          BY <1>1
        <5> QED BY <1>1, <5>1, CutsCount, FinitePlaces
      <4>3. Len(Parts(l)) = Cardinality(Cuts(l)) - 1
        BY <4>2 DEF Parts
      <4> DEFINE k == Cardinality(Spaces(l))
                 c == Cardinality(Cuts(l))
                 p == Len(Parts(l))
      <4>4. p = 3 /\ k \in Nat /\ c = k + 2 /\ p = c - 1
        BY <4>1, <4>2, <4>3
      <4> HIDE DEF k, c, p
      <4>5. k = 2
        BY ONLY <4>4
      <4> QED BY <4>5 DEF k
    <3> QED BY <1>2, <1>6, <3>1, <3>2
  <2>3. PICK a \in Spaces(l), b \in Spaces(l) : a < b /\ Spaces(l) = {a, b}
    BY <1>1, <2>2, ArePlaces
  <2>4. CutAt(l, a, b)
    BY <1>1, <2>3 DEF CutAt, n
  <2>5. a # 1 /\ b # a + 1 /\ SubSeq(l, b + 1, Len(l)) = <<HttpVersion>>
    <3>1. CASE RequestLineC(l) # {}
      BY <1>4, <2>4, <3>1 DEF RequestLineC, n
    <3>2. CASE ParseRequestLine(l) # {}
      BY <1>3, <1>4, <2>4, <3>2 DEF ParseRequestLine, n
    <3> QED BY <1>2, <1>6, <3>1, <3>2
  <2> QED BY <1>1, <2>1, <2>3, <2>4, <2>5 DEF GoodLine, n
<1> QED BY <1>5, <1>6

\* The request line syntax of Go and Rust, which split, is that of C, which
\* counts (request_line.c 5-48, request_line.go, request_line.rs).
THEOREM OneRequestLineSyntax ==
  ASSUME NEW l \in Seq(STRING)
  PROVE  RequestLineC(l) = ParseRequestLine(l)
<1>1. CASE \E a, b \in 1 .. Len(l) : GoodLine(l, a, b)
  <2>1. PICK a \in 1 .. Len(l), b \in 1 .. Len(l) : GoodLine(l, a, b)
    BY <1>1
  <2>2. RequestLineC(l) = {Words(l, a, b)} /\ ParseRequestLine(l) = {Words(l, a, b)}
    BY <2>1, RequestLines
  <2> QED BY <2>2
<1>2. CASE ~\E a, b \in 1 .. Len(l) : GoodLine(l, a, b)
  BY <1>2, RequestLines
<1> QED BY <1>1, <1>2

LEMMA InEveryLanguage ==
  ASSUME NEW l PROVE RequestLine(l) \in {RequestLineC(l), ParseRequestLine(l)}
BY DEF RequestLine

LEMMA HeadWords ==
  /\ Post \in STRING /\ EchoPath \in STRING /\ HttpVersion \in STRING
  /\ CR \in STRING /\ LF \in STRING
  /\ {Post, EchoPath, HttpVersion} \cap {CR, LF, " ", "\t"} = {}
BY HeadAssumption, LineEndAssumption

LEMMA FiveTokens ==
  ASSUME NEW S, NEW p \in S, NEW q \in S, NEW r \in S, NEW s \in S, NEW t \in S
  PROVE  <<p, q, r, s, t>> \in Seq(S)
OBVIOUS

LEMMA OneToken ==
  ASSUME NEW S, NEW e \in S, NEW w \in Seq(S), Len(w) = 1, w[1] = e
  PROVE  w = <<e>>
<1> DEFINE v == <<e>>
<1>1. v \in Seq(S)
  OBVIOUS
<1>2. Len(v) = 1
  OBVIOUS
<1>3. v[1] = e
  OBVIOUS
<1> HIDE DEF v
<1>4. \A i \in 1 .. 1 : w[i] = v[i]
  <2>1. \A i \in 1 .. 1 : i = 1
    OBVIOUS
  <2> QED BY <1>3, <2>1, Zenon
<1>5. w = v
  BY <1>1, <1>2, <1>4, SeqEqual
<1> QED BY <1>5 DEF v

EchoWords == [method |-> <<Post>>, target |-> <<EchoPath>>]

\* Exactly one line is a request for the echo.
LEMMA EchoLineOnly ==
  ASSUME NEW l \in Seq(STRING)
  PROVE  RequestLine(l) = {EchoWords} <=> l = EchoLine
<1> DEFINE n == Len(l)
<1>1. n \in Nat /\ DOMAIN l = 1 .. n
  BY SpacesIn
<1>2. ASSUME RequestLine(l) = {EchoWords} PROVE l = EchoLine
  <2>1. PICK a \in 1 .. n, b \in 1 .. n : GoodLine(l, a, b)
    <3>1. RequestLine(l) # {}
      BY <1>2
    <3> QED BY <3>1, RequestLines, InEveryLanguage
  <2>2. RequestLine(l) = {Words(l, a, b)}
    BY <2>1, RequestLines, InEveryLanguage
  <2>3. SubSeq(l, 1, a - 1) = <<Post>> /\ SubSeq(l, a + 1, b - 1) = <<EchoPath>>
    <3>1. Words(l, a, b) = EchoWords
      BY <1>2, <2>2
    <3>2. Words(l, a, b).method = EchoWords.method /\ Words(l, a, b).target = EchoWords.target
      BY <3>1
    <3> QED BY <3>2 DEF Words, EchoWords
  <2>4. SubSeq(l, b + 1, n) = <<HttpVersion>> /\ a < b /\ Spaces(l) = {a, b}
    BY <2>1 DEF GoodLine, CutAt
  <2>5. /\ 1 \in Nat \ {0} /\ a - 1 \in 0 .. Len(l) /\ a + 1 \in Nat \ {0}
        /\ b - 1 \in 0 .. Len(l) /\ b + 1 \in Nat \ {0} /\ n \in 0 .. Len(l)
    BY <1>1, <2>4
  <2>6. /\ Len(SubSeq(l, 1, a - 1)) = IF 1 <= a - 1 THEN (a - 1) - 1 + 1 ELSE 0
        /\ Len(SubSeq(l, a + 1, b - 1)) = IF a + 1 <= b - 1 THEN (b - 1) - (a + 1) + 1 ELSE 0
        /\ Len(SubSeq(l, b + 1, n)) = IF b + 1 <= n THEN n - (b + 1) + 1 ELSE 0
    BY <2>5, WindowType
  <2>7. Len(<<Post>>) = 1 /\ Len(<<EchoPath>>) = 1 /\ Len(<<HttpVersion>>) = 1
    OBVIOUS
  <2>8. (IF 1 <= a - 1 THEN (a - 1) - 1 + 1 ELSE 0) = 1
        /\ (IF a + 1 <= b - 1 THEN (b - 1) - (a + 1) + 1 ELSE 0) = 1
        /\ (IF b + 1 <= n THEN n - (b + 1) + 1 ELSE 0) = 1
    BY <2>3, <2>4, <2>6, <2>7
  <2> HIDE DEF n
  <2>9. a = 2 /\ b = 4 /\ n = 5
    BY <1>1, <2>8
  <2>10. SubSeq(l, 0 + 1, 1) = <<Post>> /\ SubSeq(l, 2 + 1, 3) = <<EchoPath>>
         /\ SubSeq(l, 4 + 1, 5) = <<HttpVersion>>
    <3>1. 2 - 1 = 1 /\ 0 + 1 = 1 /\ 4 - 1 = 3
      OBVIOUS
    <3> QED BY <2>3, <2>4, <2>9, <3>1
  <2>11. /\ 0 \in Nat /\ 1 \in 0 .. Len(l) /\ 1 \in 1 .. 1 - 0
         /\ 2 \in Nat /\ 3 \in 2 .. Len(l) /\ 1 \in 1 .. 3 - 2
         /\ 4 \in Nat /\ 5 \in 4 .. Len(l) /\ 1 \in 1 .. 5 - 4
         /\ 0 + 1 = 1 /\ 2 + 1 = 3 /\ 4 + 1 = 5
    BY <2>9 DEF n
  <2>12. l[0 + 1] = <<Post>>[1] /\ l[2 + 1] = <<EchoPath>>[1] /\ l[4 + 1] = <<HttpVersion>>[1]
    <3>1. SubSeq(l, 0 + 1, 1)[1] = l[0 + 1]
      BY <2>11, WindowElement
    <3>2. SubSeq(l, 2 + 1, 3)[1] = l[2 + 1]
      BY <2>11, WindowElement
    <3>3. SubSeq(l, 4 + 1, 5)[1] = l[4 + 1]
      BY <2>11, WindowElement
    <3> QED BY <2>10, <3>1, <3>2, <3>3
  <2>13. l[1] = Post /\ l[3] = EchoPath /\ l[5] = HttpVersion
    BY <2>11, <2>12
  <2>14. l[2] = " " /\ l[4] = " "
    BY <2>4, <2>9 DEF Spaces
  <2>15. EchoLine \in Seq(STRING) /\ Len(EchoLine) = 5
         /\ \A i \in 1 .. 5 : l[i] = EchoLine[i]
    <3>1. \A i \in 1 .. 5 : i = 1 \/ i = 2 \/ i = 3 \/ i = 4 \/ i = 5
      OBVIOUS
    <3>2. /\ EchoLine[1] = Post /\ EchoLine[2] = " " /\ EchoLine[3] = EchoPath
          /\ EchoLine[4] = " " /\ EchoLine[5] = HttpVersion /\ Len(EchoLine) = 5
      BY DEF EchoLine
    <3>3. EchoLine \in Seq(STRING)
      <4>1. " " \in STRING
        BY <2>9, <2>14, ElementOfSeq DEF n
      <4> QED BY <4>1, HeadWords, FiveTokens DEF EchoLine
    <3> QED BY <2>13, <2>14, <3>1, <3>2, <3>3
  <2> QED BY <2>9, <2>15, SeqEqual DEF n
<1>3. ASSUME l = EchoLine PROVE RequestLine(l) = {EchoWords}
  <2>1. /\ l[1] = Post /\ l[2] = " " /\ l[3] = EchoPath /\ l[4] = " " /\ l[5] = HttpVersion
        /\ Len(l) = 5
    BY <1>3 DEF EchoLine
  <2>2. \A i \in 1 .. 5 : i = 1 \/ i = 2 \/ i = 3 \/ i = 4 \/ i = 5
    OBVIOUS
  <2>3. \A i \in 1 .. 5 : l[i] \in {Post, EchoPath, HttpVersion, " "}
    BY <2>1, <2>2
  <2>4. Post # " " /\ EchoPath # " " /\ HttpVersion # " "
    BY HeadWords
  <2>5. Spaces(l) = {2, 4}
    <3>1. \A i \in 1 .. 5 : l[i] = " " <=> i = 2 \/ i = 4
      <4>1. l[1] # " " /\ l[3] # " " /\ l[5] # " "
        BY <2>1, <2>4
      <4>2. l[2] = " " /\ l[4] = " "
        BY <2>1
      <4>3. 1 # 2 /\ 1 # 4 /\ 3 # 2 /\ 3 # 4 /\ 5 # 2 /\ 5 # 4
        OBVIOUS
      <4> QED BY <2>2, <4>1, <4>2, <4>3, Zenon
    <3>2. Spaces(l) = {i \in 1 .. 5 : l[i] = " "}
      BY <1>1, <2>1, Zenon DEF Spaces, n
    <3>3. 2 \in 1 .. 5 /\ 4 \in 1 .. 5
      OBVIOUS
    <3> QED BY <3>1, <3>2, <3>3, Zenon
  <2>6. ToSet(l) \cap {CR, LF, "\t"} = {}
    <3>1. " " # CR /\ " " # LF /\ " " # "\t"
      BY DEF CR, LF
    <3> QED BY <1>1, <2>1, <2>3, <3>1, HeadWords DEF ToSet
  <2>a. Len(l) = 5
    BY <2>1
  <2>7. /\ 0 \in Nat /\ 1 \in 0 .. Len(l) /\ 1 \in 1 .. 1 - 0 /\ 1 \in Nat \ {0}
        /\ 2 \in Nat /\ 3 \in 2 .. Len(l) /\ 3 \in 0 .. Len(l) /\ 1 \in 1 .. 3 - 2 /\ 3 \in Nat \ {0}
        /\ 4 \in Nat /\ 5 \in 4 .. Len(l) /\ 5 \in 0 .. Len(l) /\ 1 \in 1 .. 5 - 4 /\ 5 \in Nat \ {0}
        /\ 0 + 1 = 1 /\ 2 + 1 = 3 /\ 4 + 1 = 5 /\ 2 - 1 = 1 /\ 4 - 1 = 3
        /\ (IF 1 <= 1 THEN 1 - 1 + 1 ELSE 0) = 1 /\ (IF 3 <= 3 THEN 3 - 3 + 1 ELSE 0) = 1
        /\ (IF 5 <= 5 THEN 5 - 5 + 1 ELSE 0) = 1
    BY <2>a
  <2>9. SubSeq(l, 1, 1) = <<Post>>
    <3>1. SubSeq(l, 1, 1) \in Seq(STRING) /\ Len(SubSeq(l, 1, 1)) = 1
      BY <2>7, WindowType
    <3>2. SubSeq(l, 0 + 1, 1)[1] = l[0 + 1]
      BY <2>7, WindowElement
    <3> QED BY <2>1, <2>7, <3>1, <3>2, HeadWords, OneToken
  <2>10. SubSeq(l, 3, 3) = <<EchoPath>>
    <3>1. SubSeq(l, 3, 3) \in Seq(STRING) /\ Len(SubSeq(l, 3, 3)) = 1
      BY <2>7, WindowType
    <3>2. SubSeq(l, 2 + 1, 3)[1] = l[2 + 1]
      BY <2>7, WindowElement
    <3> QED BY <2>1, <2>7, <3>1, <3>2, HeadWords, OneToken
  <2>11. SubSeq(l, 5, 5) = <<HttpVersion>>
    <3>1. SubSeq(l, 5, 5) \in Seq(STRING) /\ Len(SubSeq(l, 5, 5)) = 1
      BY <2>7, WindowType
    <3>2. SubSeq(l, 4 + 1, 5)[1] = l[4 + 1]
      BY <2>7, WindowElement
    <3> QED BY <2>1, <2>7, <3>1, <3>2, HeadWords, OneToken
  <2>12. GoodLine(l, 2, 4)
    <3>1. CutAt(l, 2, 4)
      <4>1. 2 \in 1 .. 5 /\ 4 \in 1 .. 5 /\ 2 < 4
        OBVIOUS
      <4> QED BY <2>a, <2>5, <4>1 DEF CutAt
    <3>2. SubSeq(l, 4 + 1, Len(l)) = <<HttpVersion>> /\ 2 # 1 /\ 4 # 2 + 1
      BY <2>a, <2>7, <2>11
    <3> QED BY <2>6, <3>1, <3>2 DEF GoodLine
  <2>13. RequestLine(l) = {Words(l, 2, 4)}
    BY <2>12, RequestLines, InEveryLanguage
  <2>14. Words(l, 2, 4) = EchoWords
    BY <2>7, <2>9, <2>10 DEF Words, EchoWords
  <2> QED BY <2>13, <2>14
<1> QED BY <1>2, <1>3

-----------------------------------------------------------------------------
(* Field lines.                                                            *)

LEMMA LowerBytes ==
  ASSUME NEW b \in STRING
  PROVE  AsciiLower(b) \in STRING \ ToSet(Upper)
<1>1. DOMAIN Upper = 1 .. 7 /\ DOMAIN Lower = 1 .. 7
  BY DEF Upper, Lower
<1>2. \A i \in 1 .. 7 : Lower[i] \in STRING
  BY <1>1, LowerAssumption DEF ToSet
<1>3. \A i \in 1 .. 7 : i = 1 \/ i = 2 \/ i = 3 \/ i = 4 \/ i = 5 \/ i = 6 \/ i = 7
  OBVIOUS
<1>4. ToSet(Upper) = {"A", "B", "C", "D", "E", "F", "H"}
  BY <1>1, <1>3 DEF ToSet, Upper
<1>5. \A i \in 1 .. 7 : Lower[i] \in {"a", "b", "c", "d", "e", "f", "h"}
  BY <1>3 DEF Lower
<1>6. \A i \in 1 .. 7 : Lower[i] \notin ToSet(Upper)
  BY <1>4, <1>5
<1>7. CASE \E i \in DOMAIN Upper : Upper[i] = b
  <2> DEFINE k == CHOOSE i \in DOMAIN Upper : Upper[i] = b
  <2>1. k \in 1 .. 7
    BY <1>1, <1>7
  <2>2. AsciiLower(b) = Lower[k]
    BY <1>7 DEF AsciiLower
  <2> QED BY <1>2, <1>6, <2>1, <2>2
<1>8. CASE ~\E i \in DOMAIN Upper : Upper[i] = b
  <2>1. AsciiLower(b) = b /\ b \notin ToSet(Upper)
    BY <1>8 DEF AsciiLower, ToSet
  <2> QED BY <2>1
<1> QED BY <1>7, <1>8

\* A trimmed value is what lies between the first and the last byte kept.
Trimmed(l, c, v, a, b) ==
  /\ a \in c + 1 .. Len(l) + 1 /\ b \in c + 1 .. Len(l) + 1
  /\ v = SubSeq(l, a, b - 1) /\ v \in Seq(STRING)
  /\ \A i \in c + 1 .. Len(l) : i < a \/ i >= b => l[i] \in OptionalWhitespace
  /\ a < b => {l[a], l[b - 1]} \cap OptionalWhitespace = {}

LEMMA TrimmedValue ==
  ASSUME NEW l \in Seq(STRING), NEW c \in 1 .. Len(l)
  PROVE  \E a, b \in c + 1 .. Len(l) + 1 :
           Trimmed(l, c, TrimOptionalWhitespace(SubSeq(l, c + 1, Len(l))), a, b)
<1> DEFINE n == Len(l)
           s == SubSeq(l, c + 1, n)
           kept == {i \in DOMAIN s : s[i] \notin OptionalWhitespace}
           v == TrimOptionalWhitespace(s)
<1>1. n \in Nat /\ c \in 1 .. n /\ c \in Nat /\ n - c \in Nat
  BY LenProperties
<1>2. n \in 0 .. Len(l) /\ c + 1 \in Nat \ {0} /\ n \in c .. Len(l)
      /\ (IF c + 1 <= n THEN n - (c + 1) + 1 ELSE 0) = n - c
  BY <1>1
<1>3. s \in Seq(STRING) /\ Len(s) = n - c
  BY <1>2, WindowType
<1>4. DOMAIN s = 1 .. n - c
  BY <1>3, LenProperties
<1>5. \A i \in 1 .. n - c : s[i] = l[c + i]
  BY <1>1, <1>2, WindowElement
<1>6. v = IF kept = {} THEN <<>> ELSE SubSeq(s, Min(kept), Max(kept))
  BY DEF TrimOptionalWhitespace
<1>7. kept \in SUBSET (1 .. n - c)
      /\ \A i \in 1 .. n - c : i \in kept <=> s[i] \notin OptionalWhitespace
  BY <1>4
<1>8. \A i \in c + 1 .. n : i - c \in 1 .. n - c /\ l[i] = s[i - c]
  <2>1. \A i \in c + 1 .. n : i - c \in 1 .. n - c /\ c + (i - c) = i
    BY <1>1
  <2> QED BY <1>5, <2>1
<1> HIDE DEF n, s, kept, v
<1>9. CASE kept = {}
  <2>1. c + 1 \in c + 1 .. Len(l) + 1 /\ (c + 1) - 1 = c
    BY <1>1 DEF n
  <2>2. SubSeq(l, c + 1, c) = <<>>
    BY <1>1, SubSeqEmpty
  <2>3. \A i \in c + 1 .. Len(l) : l[i] \in OptionalWhitespace
    BY <1>7, <1>8, <1>9 DEF n
  <2>4. <<>> \in Seq(STRING)
    OBVIOUS
  <2>5. v = SubSeq(l, c + 1, (c + 1) - 1) /\ v \in Seq(STRING) /\ ~(c + 1 < c + 1)
    BY <1>1, <1>6, <1>9, <2>1, <2>2, <2>4
  <2>6. Trimmed(l, c, v, c + 1, c + 1)
    BY <2>1, <2>3, <2>5 DEF Trimmed
  <2> QED BY <2>1, <2>6 DEF v, s, n
<1>10. CASE kept # {}
  <2> DEFINE x == Min(kept)
             y == Max(kept)
  <2>1. y \in kept /\ \A i \in kept : i <= y
    BY <1>1, <1>7, <1>10, MaxFacts
  <2>2. x \in kept /\ \A i \in kept : x <= i
    <3>1. kept \in SUBSET Nat
      BY <1>1, <1>7
    <3> QED BY <1>10, <3>1, MinFacts
  <2>3. v = SubSeq(s, x, y)
    BY <1>6, <1>10
  <2> HIDE DEF x, y
  <2>4. x \in 1 .. n - c /\ y \in 1 .. n - c /\ x <= y
    BY <1>7, <2>1, <2>2
  <2>5. /\ x \in 1 .. n - c + 1 /\ y \in 0 .. n - c
        /\ c + x \in c + 1 .. n + 1 /\ c + y + 1 \in c + 1 .. n + 1
        /\ (c + y + 1) - 1 = c + y /\ c + x \in Nat \ {0} /\ c + y \in 0 .. n
        /\ c + x < c + y + 1
    BY <1>1, <2>4
  <2>6. v = SubSeq(l, c + x, c + y)
    <3>1. SubSeq(SubSeq(l, c + 1, n), x, y) = SubSeq(l, c + x, c + y)
      BY <1>1, <1>2, <2>5, WindowOfWindow DEF n
    <3> QED BY <2>3, <3>1 DEF s
  <2>7. SubSeq(l, c + x, c + y) \in Seq(STRING)
    BY <2>5, WindowType DEF n
  <2>8. ASSUME NEW i \in c + 1 .. n, i < c + x \/ i >= c + y + 1
        PROVE  l[i] \in OptionalWhitespace
    <3>1. i - c \in 1 .. n - c /\ (i - c < x \/ i - c > y)
      BY <1>1, <2>4, <2>8
    <3>2. i - c \notin kept
      BY <2>1, <2>2, <2>4, <3>1
    <3> QED BY <1>7, <1>8, <3>1, <3>2
  <2>9. l[c + x] \notin OptionalWhitespace /\ l[c + y] \notin OptionalWhitespace
    BY <1>5, <1>7, <2>1, <2>2, <2>4
  <2>10. Trimmed(l, c, v, c + x, c + y + 1)
    <3>1. {l[c + x], l[(c + y + 1) - 1]} \cap OptionalWhitespace = {}
      BY <2>5, <2>9
    <3>2. v = SubSeq(l, c + x, (c + y + 1) - 1) /\ v \in Seq(STRING)
      BY <2>5, <2>6, <2>7
    <3>3. c + x \in c + 1 .. Len(l) + 1 /\ c + y + 1 \in c + 1 .. Len(l) + 1
      BY <2>5 DEF n
    <3>4. \A i \in c + 1 .. Len(l) : i < c + x \/ i >= c + y + 1 => l[i] \in OptionalWhitespace
      BY <2>8 DEF n
    <3> QED BY <3>1, <3>2, <3>3, <3>4, Zenon DEF Trimmed
  <2> QED BY <2>5, <2>10 DEF v, s, n
<1> QED BY <1>9, <1>10

LEMMA FieldIsField ==
  ASSUME NEW l \in Seq(STRING), NEW c \in DOMAIN l, ColonAt(l, c)
  PROVE  Field(l, c) \in HeaderField /\ IsFieldOf(l, Field(l, c))
<1>1. Len(l) \in Nat /\ DOMAIN l = 1 .. Len(l) /\ c \in 1 .. Len(l)
  BY LenProperties
<1> DEFINE v == TrimOptionalWhitespace(SubSeq(l, c + 1, Len(l)))
           m == [i \in 1 .. c - 1 |-> AsciiLower(l[i])]
<1>2. Field(l, c) = [name |-> m, value |-> v]
  BY DEF Field
<1>3. PICK a \in c + 1 .. Len(l) + 1, b \in c + 1 .. Len(l) + 1 : Trimmed(l, c, v, a, b)
  BY <1>1, TrimmedValue
<1>4. m \in Seq(STRING \ ToSet(Upper))
  <2>1. c - 1 \in Nat
    BY <1>1
  <2>2. \A i \in 1 .. c - 1 : AsciiLower(l[i]) \in STRING \ ToSet(Upper)
    <3>1. \A i \in 1 .. c - 1 : l[i] \in STRING
      BY <1>1, ElementOfSeq
    <3> QED BY <3>1, LowerBytes
  <2>3. m \in [1 .. c - 1 -> STRING \ ToSet(Upper)]
    BY <2>2
  <2> HIDE DEF m
  <2> QED BY <2>1, <2>3, SeqDef
<1> HIDE DEF v, m
<1>5. v \in Seq(STRING)
  BY <1>3 DEF Trimmed
<1>6. Field(l, c).name = m /\ Field(l, c).value = v
  BY <1>2
<1>7. Field(l, c) \in HeaderField
  BY <1>2, <1>4, <1>5 DEF HeaderField
<1>8. IsFieldOf(l, Field(l, c))
  BY <1>3, <1>6 DEF IsFieldOf, Trimmed, m
<1> QED BY <1>7, <1>8

\* What a parser of field lines must return for a line.
Parses(l, found) ==
  /\ \A f \in found : f \in HeaderField /\ IsFieldOf(l, f)
  /\ found = {} => \A c \in DOMAIN l : ~ColonAt(l, c)

LEMMA ColonFields ==
  ASSUME NEW l \in Seq(STRING), l # <<>>, NEW cs,
         cs = {c \in DOMAIN l : ColonAt(l, c)}
  PROVE  /\ Parses(l, {Field(l, c) : c \in cs})
         /\ l[1] \in OptionalWhitespace => Parses(l, {})
<1>1. Len(l) \in Nat /\ DOMAIN l = 1 .. Len(l)
  BY LenProperties
<1>2. \A f \in {Field(l, c) : c \in cs} : f \in HeaderField /\ IsFieldOf(l, f)
  BY FieldIsField
<1>3. {Field(l, c) : c \in cs} = {} => cs = {}
  OBVIOUS
<1>4. Parses(l, {Field(l, c) : c \in cs})
  BY <1>2, <1>3 DEF Parses
<1>5. ASSUME l[1] \in OptionalWhitespace PROVE Parses(l, {})
  <2>1. ASSUME NEW c \in DOMAIN l, ColonAt(l, c) PROVE FALSE
    <3>1. c > 1 /\ \A i \in 1 .. c - 1 : l[i] \notin Control
      BY <2>1 DEF ColonAt
    <3>2. 1 \in 1 .. c - 1
      BY <1>1, <3>1
    <3> QED BY <1>5, <3>1, <3>2 DEF Control
  <2> QED BY <2>1 DEF Parses
<1> QED BY <1>4, <1>5

\* The three parsers find the field of a well formed line and nothing else.
LEMMA ParsersParse ==
  ASSUME NEW l \in Seq(STRING), l # <<>>
  PROVE  /\ Parses(l, ParseHeaderLineC(l)) /\ Parses(l, AddHeaderGo(l))
         /\ Parses(l, AddHeaderRust(l))
         /\ ParseHeaderLineC(l) = AddHeaderGo(l) /\ AddHeaderGo(l) = AddHeaderRust(l)
<1> DEFINE cs == {c \in DOMAIN l : ColonAt(l, c)}
           fs == {Field(l, c) : c \in cs}
           colons == {c \in DOMAIN l : l[c] = ":"}
           d == Min(colons)
           ds == {x \in {d} : x # 1 /\ \A i \in 1 .. x - 1 : l[i] \notin Control}
<1>1. Len(l) \in Nat /\ DOMAIN l = 1 .. Len(l)
  BY LenProperties
<1>2. ColonWalk(l) \ {1} = cs
  <2>1. \A c \in DOMAIN l : c > 1 <=> c # 1
    BY <1>1
  <2> QED BY <2>1, Zenon DEF ColonWalk, ColonAt
<1>3. ParseHeaderLineC(l) = IF l[1] \in OptionalWhitespace THEN {} ELSE fs
  BY <1>2 DEF ParseHeaderLineC
<1>4. AddHeaderGo(l) = IF l[1] \in OptionalWhitespace THEN {} ELSE fs
  BY <1>2 DEF AddHeaderGo
<1>5. colons \in SUBSET Nat /\ \A c : c \in colons <=> c \in 1 .. Len(l) /\ l[c] = ":"
  BY <1>1
<1>6. ASSUME colons = {} PROVE cs = {}
  BY <1>6 DEF ColonAt
<1>7. ASSUME colons # {} PROVE ds = cs
  <2> HIDE DEF colons
  <2>1. d \in colons /\ \A c \in colons : d <= c
    BY <1>5, <1>7, MinFacts
  <2> HIDE DEF d
  <2>2. d \in 1 .. Len(l) /\ l[d] = ":"
    BY <1>5, <2>1
  <2>3. ASSUME NEW i \in 1 .. d - 1 PROVE l[i] # ":"
    BY <1>1, <1>5, <2>1, <2>2
  <2>4. ASSUME NEW c \in cs PROVE c = d
    <3>1. c \in 1 .. Len(l) /\ l[c] = ":" /\ \A i \in 1 .. c - 1 : l[i] # ":"
      BY <1>1 DEF ColonAt
    <3>2. d <= c
      BY <1>5, <2>1, <3>1
    <3>3. d \notin 1 .. c - 1
      BY <2>2, <3>1
    <3> QED BY <2>2, <3>1, <3>2, <3>3
  <2>5. d \in cs <=> d # 1 /\ \A i \in 1 .. d - 1 : l[i] \notin Control
    <3>1. d > 1 <=> d # 1
      BY <2>2
    <3> QED BY <1>1, <2>2, <2>3, <3>1 DEF ColonAt
  <2> QED BY <2>4, <2>5
<1>8. AddHeaderRust(l) = IF l[1] \in OptionalWhitespace THEN {} ELSE fs
  <2>1. AddHeaderRust(l) = IF l[1] \in OptionalWhitespace \/ colons = {} THEN {}
                           ELSE {Field(l, c) : c \in ds}
    BY Zenon DEF AddHeaderRust
  <2> HIDE DEF colons, ds
  <2>2. CASE colons = {}
    <3>1. fs = {}
      BY <1>6, <2>2
    <3> HIDE DEF fs
    <3> QED BY <2>1, <2>2, <3>1
  <2>3. CASE colons # {}
    BY <1>7, <2>1, <2>3
  <2> QED BY <2>2, <2>3
<1>9. Parses(l, fs) /\ (l[1] \in OptionalWhitespace => Parses(l, {}))
  BY ColonFields
<1> HIDE DEF fs
<1> QED BY <1>3, <1>4, <1>8, <1>9

\* The three header parsers make the same of every line that is not empty,
\* though Rust looks for the colon first (header_parser.c, header.go, header.rs).
THEOREM OneFieldLineSyntax ==
  ASSUME NEW l \in Seq(STRING), l # <<>>
  PROVE  ParseHeaderLineC(l) = AddHeaderGo(l) /\ AddHeaderGo(l) = AddHeaderRust(l)
BY ParsersParse

-----------------------------------------------------------------------------
(* Every variable holds a value of its type.                               *)

LEMMA InitTypes == Init => TypeOK
<1> SUFFICES ASSUME Init PROVE TypeOK
  OBVIOUS
<1>1. input \in Seq(STRING) /\ Len(input) \in Nat
  BY HeadAssumption, LenProperties DEF Init
<1>2. <<>> \in Seq(STRING \ {CR, LF}) /\ <<>> \in Seq(HeaderField)
  BY EmptySeq
<1>3. pos \in 0 .. Len(input) /\ hpos \in 0 .. pos
  BY <1>1 DEF Init
<1>4. hline = <<>> /\ fields = <<>> /\ hstate = "incomplete" /\ hpending = FALSE
  BY DEF Init, HeaderInit
<1>5. hline \in Seq(STRING \ {CR, LF}) /\ fields \in Seq(HeaderField)
  BY <1>2, <1>4
<1> QED BY <1>3, <1>4, <1>5 DEF Init, TypeOK, Verdict

LEMMA RequestByteTypes ==
  ASSUME NEW b, RequestByte(b), rstate \in Verdict,
         sawFirstLine \in BOOLEAN, lineHasBytes \in BOOLEAN, pendingCR \in BOOLEAN
  PROVE  /\ rstate' \in Verdict
         /\ sawFirstLine' \in BOOLEAN /\ lineHasBytes' \in BOOLEAN /\ pendingCR' \in BOOLEAN
BY DEF RequestByte, FirstLineOver, FieldLineOver, Verdict

\* The field of a finished line, or none: then the line has none.
FieldAdded(l) ==
  \/ hstate' = "invalid" /\ UNCHANGED <<hline, fields>> /\ \A c \in DOMAIN l : ~ColonAt(l, c)
  \/ \E f \in HeaderField :
       /\ IsFieldOf(l, f) /\ fields' = Append(fields, f) /\ hline' = <<>> /\ UNCHANGED hstate

LEMMA FieldLineEnd ==
  ASSUME NEW b, HeaderFeed(b), hpending, b = LF, hline # <<>>, hline \in Seq(STRING)
  PROVE  hpending' = FALSE /\ FieldAdded(hline)
<1>1. ASSUME NEW found, Parses(hline, found),
             \/ found = {} /\ hstate' = "invalid" /\ UNCHANGED <<hline, fields>>
             \/ \E f \in found : fields' = Append(fields, f) /\ hline' = <<>> /\ UNCHANGED hstate
      PROVE  FieldAdded(hline)
  BY <1>1 DEF Parses, FieldAdded
<1>2. /\ Parses(hline, ParseHeaderLineC(hline)) /\ Parses(hline, AddHeaderGo(hline))
      /\ Parses(hline, AddHeaderRust(hline))
  BY ParsersParse
<1>3. LF # CR
  BY DEF CR, LF
<1>4. hpending' = FALSE
  BY <1>3 DEF HeaderFeed, HeaderFeedC, HeaderFeedGo, HeaderFeedRust, FeedHeaderByte
<1>5. CASE HeaderFeedC(b)
  BY <1>1, <1>2, <1>3, <1>5 DEF HeaderFeedC, FeedHeaderByte
<1>6. CASE HeaderFeedGo(b)
  BY <1>1, <1>2, <1>3, <1>6 DEF HeaderFeedGo, FeedHeaderByte
<1>7. CASE HeaderFeedRust(b)
  BY <1>1, <1>2, <1>3, <1>7 DEF HeaderFeedRust, FeedHeaderByte
<1> QED BY <1>4, <1>5, <1>6, <1>7 DEF HeaderFeed

\* What any other byte does to the header parser.
OtherByte(b) ==
  \/ hpending /\ b # LF /\ hstate' = "invalid" /\ UNCHANGED <<hline, hpending, fields>>
  \/ hpending /\ b = LF /\ hline = <<>> /\ hstate' = "complete" /\ hpending' = FALSE
     /\ UNCHANGED <<hline, fields>>
  \/ ~hpending /\ b = CR /\ hpending' = TRUE /\ UNCHANGED <<hstate, hline, fields>>
  \/ ~hpending /\ b = LF /\ hstate' = "invalid" /\ UNCHANGED <<hline, hpending, fields>>
  \/ ~hpending /\ b \notin {CR, LF} /\ hline' = Append(hline, b)
     /\ UNCHANGED <<hstate, hpending, fields>>

LEMMA HeaderBytes ==
  ASSUME NEW b, HeaderFeed(b), hline \in Seq(STRING)
  PROVE  \/ OtherByte(b)
         \/ hpending /\ b = LF /\ hline # <<>> /\ hpending' = FALSE /\ FieldAdded(hline)
<1>1. CASE hpending /\ b = LF /\ hline # <<>>
  BY <1>1, FieldLineEnd
<1>2. CASE ~(hpending /\ b = LF /\ hline # <<>>)
  BY <1>2 DEF HeaderFeed, HeaderFeedC, HeaderFeedGo, HeaderFeedRust, FeedHeaderByte, OtherByte
<1> QED BY <1>1, <1>2

LEMMA LineBytes ==
  ASSUME hline \in Seq(STRING \ {CR, LF})
  PROVE  hline \in Seq(STRING)
OBVIOUS

LEMMA TypesStep ==
  ASSUME TypeOK, [Next]_vars
  PROVE  TypeOK'
<1>1. /\ lang \in {"c", "go", "rust"} /\ input \in Streams
      /\ part \in {"request", "headers", "accepted", "refused"}
      /\ pos \in 0 .. Len(input) /\ hpos \in 0 .. pos
      /\ rstate \in Verdict /\ hstate \in Verdict
      /\ sawFirstLine \in BOOLEAN /\ lineHasBytes \in BOOLEAN /\ pendingCR \in BOOLEAN
      /\ hpending \in BOOLEAN /\ noMemory \in BOOLEAN
      /\ hline \in Seq(STRING \ {CR, LF}) /\ fields \in Seq(HeaderField)
  BY DEF TypeOK
<1>2. input \in Seq(STRING) /\ Len(input) \in Nat
  BY <1>1, HeadAssumption, LenProperties
<1>3. CASE FeedRequest
  <2>1. /\ pos < Len(input) /\ pos' = pos + 1 /\ RequestByte(input[pos + 1])
        /\ UNCHANGED <<lang, input, part, hpos, noMemory, hstate, hline, hpending, fields>>
    BY <1>3 DEF FeedRequest, hvars
  <2>2. /\ rstate' \in Verdict
        /\ sawFirstLine' \in BOOLEAN /\ lineHasBytes' \in BOOLEAN /\ pendingCR' \in BOOLEAN
    BY <1>1, <2>1, RequestByteTypes
  <2>3. pos' \in 0 .. Len(input') /\ hpos' \in 0 .. pos'
    BY <1>1, <1>2, <2>1
  <2> QED BY <1>1, <2>1, <2>2, <2>3 DEF TypeOK
<1>4. CASE JudgeHead
  <2>1. /\ UNCHANGED <<lang, input, pos, rstate, sawFirstLine, lineHasBytes, pendingCR, noMemory,
                       hstate, hline, hpending, fields>>
        /\ part' \in {"refused", "headers"}
    BY <1>4 DEF JudgeHead, rvars, hvars
  <2>2. hpos' = hpos \/ \E end \in 1 .. pos - 1 : hpos' = end + 1
    BY <1>4 DEF JudgeHead, FirstCrlf
  <2>3. hpos' \in 0 .. pos'
    BY <1>1, <1>2, <2>1, <2>2
  <2> QED BY <1>1, <2>1, <2>3 DEF TypeOK
<1>5. CASE FeedHeaders
  <2> DEFINE b == input[hpos + 1]
  <2>1. /\ hpos < pos /\ hpos' = hpos + 1 /\ HeaderFeed(b)
        /\ UNCHANGED <<lang, input, part, pos, rstate, sawFirstLine, lineHasBytes, pendingCR, noMemory>>
    BY <1>5 DEF FeedHeaders, rvars
  <2>2. b \in STRING /\ hpos' \in 0 .. pos'
    BY <1>1, <1>2, <2>1
  <2> HIDE DEF b
  <2>3. OtherByte(b) \/ (hpending' = FALSE /\ FieldAdded(hline))
    BY <1>1, <2>1, HeaderBytes, LineBytes
  <2>4. CASE OtherByte(b)
    <3>1. b \notin {CR, LF} => Append(hline, b) \in Seq(STRING \ {CR, LF})
      BY <1>1, <2>2, AppendProperties
    <3>2. /\ hstate' \in Verdict /\ hpending' \in BOOLEAN
          /\ hline' \in Seq(STRING \ {CR, LF}) /\ fields' \in Seq(HeaderField)
      BY <1>1, <2>4, <3>1 DEF OtherByte, Verdict
    <3> QED BY <1>1, <2>1, <2>2, <3>2 DEF TypeOK
  <2>5. CASE hpending' = FALSE /\ FieldAdded(hline)
    <3>1. <<>> \in Seq(STRING \ {CR, LF})
      BY EmptySeq
    <3>2. \A f \in HeaderField : Append(fields, f) \in Seq(HeaderField)
      BY <1>1, AppendProperties
    <3>3. /\ hstate' \in Verdict /\ hpending' \in BOOLEAN
          /\ hline' \in Seq(STRING \ {CR, LF}) /\ fields' \in Seq(HeaderField)
      BY <1>1, <2>5, <3>1, <3>2 DEF FieldAdded, Verdict
    <3> QED BY <1>1, <2>1, <2>2, <3>3 DEF TypeOK
  <2> QED BY <2>3, <2>4, <2>5
<1>6. CASE CNoMemory
  BY <1>1, <1>6 DEF CNoMemory, HeaderNoMemoryC, rvars, TypeOK
<1>7. CASE JudgeHeaders
  BY <1>1, <1>7 DEF JudgeHeaders, rvars, hvars, TypeOK
<1>8. CASE UNCHANGED vars
  BY <1>1, <1>8 DEF vars, rvars, hvars, TypeOK
<1> QED BY <1>3, <1>4, <1>5, <1>6, <1>7, <1>8 DEF Next

\* Every variable of the judgement of heads keeps its type; in particular no
\* line end enters a line and no capital letter a name (header_parser.c 76-139).
THEOREM TypeCorrect == Spec => []TypeOK
BY InitTypes, TypesStep, PTL DEF Spec

-----------------------------------------------------------------------------
(* The header parser stands in the line behind the ones it has stored, and *)
(* that line is what it has collected.                                     *)

CountedIn(st) ==
  /\ st \in 2 .. hpos /\ input[st] = LF /\ UpTo(Ends, st) = Len(fields) + 1
  /\ \A i \in st + 1 .. hpos : input[i] # LF
  /\ hline = SubSeq(input, st + 1, IF hpending THEN hpos - 1 ELSE hpos)
Reading == part = "headers" /\ hstate = "incomplete" => \E st \in 2 .. hpos : CountedIn(st)

NoColon(l) == \A c \in DOMAIN l : ~ColonAt(l, c)
FieldsAreTheirs == \A k \in DOMAIN fields : IsFieldOf(LineAt(k + 1), fields[k])
Behind ==
  hpos # 0 =>
    /\ LineAt(1) = EchoLine /\ FieldsAreTheirs
    /\ hstate = "complete" => Cardinality(Ends) = Len(fields) + 2
    /\ hstate = "invalid" => NoColon(LineAt(Len(fields) + 2))
Outcome ==
  /\ part = "accepted" => hpos # 0 /\ hstate = "complete"
  /\ part = "refused" /\ rstate = "complete" /\ ~noMemory =>
       IF hpos = 0 THEN LineAt(1) # EchoLine ELSE hstate = "invalid"
JInv == TypeOK /\ Reading /\ Behind /\ Outcome

LEMMA InitJInv == Init => JInv
BY InitTypes DEF Init, JInv, Reading, Behind, Outcome

LEMMA EndPlaces ==
  ASSUME TypeOK
  PROVE  /\ input \in Seq(STRING) /\ Len(input) \in Nat /\ pos \in Nat /\ pos <= Len(input)
         /\ hpos \in 0 .. pos /\ Ends \in SUBSET (0 .. pos)
         /\ \A i \in 1 .. pos : i \in Ends <=> input[i] = LF
<1>1. input \in Seq(STRING) /\ Len(input) \in Nat
  BY HeadAssumption, LenProperties DEF TypeOK
<1>2. pos \in Nat /\ pos <= Len(input) /\ hpos \in 0 .. pos
  BY <1>1 DEF TypeOK
<1>3. Ends \in SUBSET (0 .. pos) /\ \A i \in 1 .. pos : i \in Ends <=> input[i] = LF
  BY <1>2 DEF Ends
<1> QED BY <1>1, <1>2, <1>3

\* Where no line ends the count stands still.
LEMMA NoEndBetween ==
  ASSUME TypeOK, NEW st \in 0 .. pos, NEW e \in st .. pos, \A i \in st + 1 .. e : input[i] # LF
  PROVE  UpTo(Ends, e) = UpTo(Ends, st)
<1>1. pos \in Nat /\ Ends \in SUBSET (0 .. pos) /\ \A i \in 1 .. pos : i \in Ends <=> input[i] = LF
  BY EndPlaces
<1>2. \A j \in Ends : j <= e <=> j <= st
  <2>1. ASSUME NEW j \in Ends, j <= e, ~(j <= st) PROVE FALSE
    <3>1. j \in 1 .. pos /\ j \in st + 1 .. e
      BY <1>1, <2>1
    <3> QED BY <1>1, <3>1
  <2>2. \A j \in Ends : j <= st => j <= e
    BY <1>1
  <2> QED BY <2>1, <2>2
<1>3. {j \in Ends : j <= e} = {j \in Ends : j <= st}
  BY <1>2
<1> QED BY <1>3 DEF UpTo

\* The line end that finishes the current line, and that line.
LEMMA LineFinished ==
  ASSUME TypeOK, NEW st, CountedIn(st), hpending, hpos < pos, input[hpos + 1] = LF,
         input[hpos] = CR
  PROVE  /\ UpTo(Ends, hpos + 1) = Len(fields) + 2
         /\ LineAt(Len(fields) + 2) = hline
<1>1. /\ st \in 2 .. hpos /\ input[st] = LF /\ UpTo(Ends, st) = Len(fields) + 1
      /\ \A i \in st + 1 .. hpos : input[i] # LF
      /\ hline = SubSeq(input, st + 1, hpos - 1)
  BY DEF CountedIn
<1>2. /\ pos \in Nat /\ hpos \in 0 .. pos /\ Ends \in SUBSET (0 .. pos)
      /\ \A i \in 1 .. pos : i \in Ends <=> input[i] = LF
  BY EndPlaces
<1>3. Len(fields) \in Nat
  BY LenProperties DEF TypeOK
<1>4. UpTo(Ends, hpos) = UpTo(Ends, st)
  <2>1. st \in 0 .. pos /\ hpos \in st .. pos
    BY <1>1, <1>2
  <2> QED BY <1>1, <2>1, NoEndBetween
<1>5. hpos + 1 \in Ends /\ hpos + 1 \in 1 .. pos /\ (hpos + 1) - 1 = hpos /\ st \in Ends
  BY <1>1, <1>2
<1>6. UpTo(Ends, hpos + 1) = UpTo(Ends, hpos) + 1
  BY <1>2, <1>5, UpToNext
<1>7. UpTo(Ends, hpos + 1) = Len(fields) + 2
  BY <1>1, <1>3, <1>4, <1>6
<1>8. Nth(Ends, Len(fields) + 1) = st
  BY <1>1, <1>2, <1>5, NthIs
<1>9. Nth(Ends, Len(fields) + 2) = hpos + 1
  BY <1>2, <1>5, <1>7, NthIs
<1>10. Len(fields) + 2 # 1 /\ (Len(fields) + 2) - 1 = Len(fields) + 1 /\ (hpos + 1) - 2 = hpos - 1
  BY <1>2, <1>3
<1>11. LineAt(Len(fields) + 2) = SubSeq(input, st + 1, hpos - 1)
  BY <1>8, <1>9, <1>10 DEF LineAt
<1> QED BY <1>1, <1>7, <1>11

\* The first line, once find_bytes has found its end.
LEMMA FirstLine ==
  ASSUME TypeOK, ~LooseEnd(pos), NEW end \in FirstCrlf
  PROVE  /\ end + 1 \in 2 .. pos /\ input[end + 1] = LF /\ UpTo(Ends, end + 1) = 1
         /\ LineAt(1) = SubSeq(input, 1, end - 1)
<1>1. /\ pos \in Nat /\ Ends \in SUBSET (0 .. pos)
      /\ \A i \in 1 .. pos : i \in Ends <=> input[i] = LF
  BY EndPlaces
<1>2. /\ end \in 1 .. pos - 1 /\ input[end] = CR /\ input[end + 1] = LF
      /\ \A j \in 1 .. end - 1 : ~(input[j] = CR /\ input[j + 1] = LF)
  BY DEF FirstCrlf
<1>3. end + 1 \in 2 .. pos /\ end + 1 \in Ends
  BY <1>1, <1>2
<1>4. ASSUME NEW i \in Ends, i <= end + 1 PROVE i = end + 1
  <2>1. i \in 1 .. pos /\ input[i] = LF
    BY DEF Ends
  <2>2. i # 1 /\ input[i - 1] = CR
    BY <1>1, <2>1 DEF LooseEnd
  <2>3. i - 1 \notin 1 .. end - 1
    <3>1. (i - 1) + 1 = i
      BY <2>1
    <3> QED BY <1>2, <2>1, <2>2, <3>1
  <2>4. i # end
    BY <1>2, <2>1 DEF CR, LF
  <2> QED BY <1>2, <1>4, <2>1, <2>2, <2>3, <2>4
<1>5. {j \in Ends : j <= end + 1} = {end + 1}
  <2>1. end + 1 <= end + 1
    BY <1>2
  <2> QED BY <1>3, <1>4, <2>1
<1>6. UpTo(Ends, end + 1) = 1
  BY <1>5, FS_Singleton DEF UpTo
<1>7. Nth(Ends, 1) = end + 1
  BY <1>1, <1>3, <1>6, NthIs
<1>8. LineAt(1) = SubSeq(input, 1, end - 1)
  <2>1. (end + 1) - 2 = end - 1
    BY <1>2
  <2> QED BY <1>7, <2>1 DEF LineAt
<1> QED BY <1>2, <1>3, <1>6, <1>8

\* While the head stands, its lines stand.
LEMMA SameLines ==
  ASSUME input' = input, pos' = pos
  PROVE  /\ Ends' = Ends
         /\ (LineAt(1) = EchoLine)' <=> LineAt(1) = EchoLine
         /\ FieldsAreTheirs' <=> \A k \in DOMAIN fields' : IsFieldOf(LineAt(k + 1), fields'[k])
         /\ NoColon(LineAt(Len(fields) + 2))' <=> NoColon(LineAt(Len(fields') + 2))
         /\ Cardinality(Ends)' = Cardinality(Ends)
<1>1. Ends' = Ends /\ Cardinality(Ends)' = Cardinality(Ends)
  BY DEF Ends
<1>2. (LineAt(1) = EchoLine)' <=> LineAt(1) = EchoLine
  BY DEF LineAt, Ends, EchoLine
<1>3. FieldsAreTheirs' <=> \A k \in DOMAIN fields' : IsFieldOf(LineAt(k + 1), fields'[k])
  BY DEF FieldsAreTheirs, LineAt, Ends
<1>4. NoColon(LineAt(Len(fields) + 2))' <=> NoColon(LineAt(Len(fields') + 2))
  BY Zenon DEF NoColon, ColonAt, LineAt, Ends
<1> QED BY <1>1, <1>2, <1>3, <1>4

LEMMA SameCount ==
  ASSUME input' = input, pos' = pos, NEW st
  PROVE  CountedIn(st)' <=>
           /\ st \in 2 .. hpos' /\ input[st] = LF /\ UpTo(Ends, st) = Len(fields') + 1
           /\ \A i \in st + 1 .. hpos' : input[i] # LF
           /\ hline' = SubSeq(input, st + 1, IF hpending' THEN hpos' - 1 ELSE hpos')
BY DEF CountedIn, UpTo, Ends

LEMMA JudgeHeadJ ==
  ASSUME RInv, HInv, JInv, JudgeHead
  PROVE  Reading' /\ Behind' /\ Outcome'
<1>1. /\ part = "request" /\ hpos = 0 /\ HeaderInit /\ TypeOK
      /\ input' = input /\ pos' = pos
      /\ UNCHANGED <<rstate, noMemory, hstate, hline, hpending, fields>>
  BY DEF JudgeHead, rvars, hvars, HInv, Started, JInv
<1>2. hstate = "incomplete" /\ hline = <<>> /\ hpending = FALSE /\ fields = <<>>
  BY <1>1 DEF HeaderInit
<1>3. CASE rstate = "invalid" /\ part' = "refused" /\ UNCHANGED hpos
  BY <1>1, <1>3 DEF Reading, Behind, Outcome
<1>4. ASSUME rstate = "complete", NEW end \in FirstCrlf
      PROVE  /\ end + 1 \in 2 .. pos /\ input[end + 1] = LF /\ UpTo(Ends, end + 1) = 1
             /\ EchoRequest(end) <=> LineAt(1) = EchoLine
  <2>1. ~LooseEnd(pos)
    BY <1>4 DEF RInv, Decided
  <2>2. /\ end + 1 \in 2 .. pos /\ input[end + 1] = LF /\ UpTo(Ends, end + 1) = 1
        /\ LineAt(1) = SubSeq(input, 1, end - 1)
    BY <1>1, <2>1, FirstLine
  <2>3. LineAt(1) \in Seq(STRING)
    <3>1. input \in Seq(STRING) /\ Len(input) \in Nat /\ pos \in Nat /\ pos <= Len(input)
      BY <1>1, EndPlaces
    <3>2. end - 1 \in 0 .. Len(input) /\ 1 \in Nat \ {0}
      BY <3>1 DEF FirstCrlf
    <3> QED BY <2>2, <3>1, <3>2, WindowType
  <2>4. EchoRequest(end) <=> LineAt(1) = EchoLine
    <3>1. EchoRequest(end) <=> RequestLine(LineAt(1)) = {EchoWords}
      BY <2>2 DEF EchoRequest, EchoWords
    <3> HIDE DEF EchoLine
    <3> QED BY <2>3, <3>1, EchoLineOnly
  <2> QED BY <2>2, <2>4
<1>5. ASSUME rstate = "complete", NEW end \in FirstCrlf,
             EchoRequest(end), part' = "headers", hpos' = end + 1
      PROVE  Reading' /\ Behind' /\ Outcome'
  <2>1. /\ end + 1 \in 2 .. pos /\ input[end + 1] = LF /\ UpTo(Ends, end + 1) = 1
        /\ LineAt(1) = EchoLine
    BY <1>4, <1>5
  <2>2. hstate' = "incomplete" /\ hline' = <<>> /\ hpending' = FALSE /\ fields' = <<>>
    BY <1>1, <1>2
  <2>3. CountedIn(end + 1)'
    <3>1. end + 1 \in Nat
      BY <2>1
    <3> DEFINE st == end + 1
    <3>2. SubSeq(input, st + 1, st) = <<>>
      <4>1. st + 1 \in Int /\ st \in Int /\ st + 1 > st
        BY <3>1
      <4> QED BY <4>1, SubSeqEmpty
    <3>3. st \in 2 .. st /\ \A i \in st + 1 .. st : input[i] # LF
      BY <2>1
    <3>4. Len(fields') + 1 = 1
      BY <2>2
    <3> HIDE DEF st
    <3>5. hpos' = st /\ input[st] = LF /\ UpTo(Ends, st) = 1
      BY <1>5, <2>1 DEF st
    <3> QED BY <1>1, <2>2, <3>2, <3>3, <3>4, <3>5 DEF CountedIn, UpTo, Ends, st
  <2>4. Reading'
    BY <1>5, <2>1, <2>3 DEF Reading
  <2>5. Behind'
    BY <1>1, <2>1, <2>2, SameLines DEF Behind
  <2> QED BY <1>5, <2>4, <2>5 DEF Outcome
<1>6. ASSUME rstate = "complete", NEW end \in FirstCrlf,
             ~EchoRequest(end), part' = "refused", hpos' = hpos
      PROVE  Reading' /\ Behind' /\ Outcome'
  <2>1. LineAt(1) # EchoLine
    BY <1>4, <1>6
  <2>2. (LineAt(1) = EchoLine)' <=> LineAt(1) = EchoLine
    BY <1>1, SameLines
  <2> QED BY <1>1, <1>6, <2>1, <2>2 DEF Reading, Behind, Outcome
<1> QED BY <1>3, <1>5, <1>6 DEF JudgeHead

LEMMA FeedHeadersJ ==
  ASSUME RInv, HInv, HInv', JInv, FeedHeaders
  PROVE  Reading' /\ Behind' /\ Outcome'
<1> DEFINE b == input[hpos + 1]
<1>1. /\ part = "headers" /\ part' = part /\ hstate = "incomplete" /\ hpos < pos
      /\ hpos' = hpos + 1 /\ input' = input /\ pos' = pos /\ rstate' = rstate
      /\ HeaderFeed(b) /\ TypeOK
  BY DEF FeedHeaders, rvars, JInv
<1>2. /\ input \in Seq(STRING) /\ Len(input) \in Nat /\ pos \in Nat /\ pos <= Len(input)
      /\ hpos \in 0 .. pos /\ Ends \in SUBSET (0 .. pos)
      /\ \A i \in 1 .. pos : i \in Ends <=> input[i] = LF
  BY <1>1, EndPlaces
<1>3. PICK st \in 2 .. hpos : CountedIn(st)
  BY <1>1 DEF JInv, Reading
<1>4. /\ input[st] = LF /\ UpTo(Ends, st) = Len(fields) + 1
      /\ \A i \in st + 1 .. hpos : input[i] # LF
      /\ hline = SubSeq(input, st + 1, IF hpending THEN hpos - 1 ELSE hpos)
  BY <1>3 DEF CountedIn
<1>5. hpending <=> input[hpos] = CR
  BY <1>1 DEF HInv, Collected
<1>6. ~LooseEnd(pos)
  BY <1>1 DEF RInv, Decided, HInv, Started
<1>7. hpos # 0 /\ hpos' # 0 /\ LineAt(1) = EchoLine /\ FieldsAreTheirs
  BY <1>1, <1>2 DEF HInv, Started, JInv, Behind
<1>8. CR # LF
  BY DEF CR, LF
<1>9. hline \in Seq(STRING) /\ fields \in Seq(HeaderField) /\ Len(fields) \in Nat
  BY <1>1, LineBytes, LenProperties DEF TypeOK
<1>10. b \in STRING
  BY <1>1, <1>2
\* What is left to show in each case.
<1>11. Outcome'
  BY <1>1 DEF Outcome
<1>12. ASSUME UNCHANGED fields PROVE FieldsAreTheirs'
  BY <1>1, <1>7, <1>12, SameLines DEF FieldsAreTheirs
<1>13. (LineAt(1) = EchoLine)'
  BY <1>1, <1>7, SameLines
<1>14. CASE OtherByte(b)
  <2>1. ~(hpending /\ b # LF)
    BY <1>1, <1>2, <1>5, <1>6 DEF LooseEnd
  <2>2. ~(~hpending /\ b = LF)
    <3>1. hpos + 1 \in 1 .. pos /\ hpos + 1 # 1 /\ (hpos + 1) - 1 = hpos
      BY <1>1, <1>2, <1>7
    <3> QED BY <1>5, <1>6, <3>1 DEF LooseEnd
  <2>3. CASE /\ hpending /\ b = LF /\ hline = <<>> /\ hstate' = "complete"
             /\ UNCHANGED <<hline, fields>>
    <3>1. hpos + 1 = pos
      BY <1>1, <2>3 DEF HInv, Ahead
    <3>2. UpTo(Ends, hpos + 1) = Len(fields) + 2
      BY <1>1, <1>3, <1>5, <2>3, LineFinished
    <3>3. {j \in Ends : j <= pos} = Ends
      <4>1. \A j \in Ends : j <= pos
        BY <1>2
      <4> QED BY <4>1
    <3>4. Cardinality(Ends) = Len(fields) + 2
      BY <3>1, <3>2, <3>3 DEF UpTo
    <3>5. Cardinality(Ends)' = Len(fields') + 2
      BY <1>1, <2>3, <3>4, SameLines
    <3>6. Behind'
      BY <1>12, <1>13, <2>3, <3>5 DEF Behind
    <3> QED BY <1>11, <2>3, <3>6 DEF Reading
  <2>4. CASE ~hpending /\ b = CR /\ hpending' = TRUE /\ UNCHANGED <<hstate, hline, fields>>
    <3>1. st \in 2 .. hpos + 1 /\ (hpos + 1) - 1 = hpos
          /\ \A i \in st + 1 .. hpos + 1 : i \in st + 1 .. hpos \/ i = hpos + 1
      BY <1>2
    <3>2. hline' = SubSeq(input, st + 1, hpos' - 1)
      BY <1>1, <1>4, <2>4, <3>1
    <3>3. \A i \in st + 1 .. hpos' : input[i] # LF
      BY <1>1, <1>4, <1>8, <2>4, <3>1
    <3>4. CountedIn(st)'
      BY <1>1, <1>4, <2>4, <3>1, <3>2, <3>3 DEF CountedIn, UpTo, Ends
    <3>5. Behind'
      BY <1>1, <1>12, <1>13, <2>4 DEF Behind
    <3> QED BY <1>1, <1>11, <3>1, <3>4, <3>5 DEF Reading
  <2>5. CASE /\ ~hpending /\ b \notin {CR, LF} /\ hline' = Append(hline, b)
             /\ UNCHANGED <<hstate, hpending, fields>>
    <3>1. st \in 2 .. hpos + 1
          /\ \A i \in st + 1 .. hpos + 1 : i \in st + 1 .. hpos \/ i = hpos + 1
      BY <1>2
    <3>2. hline' = SubSeq(input, st + 1, hpos + 1)
      <4>1. hpos \in 0 .. Len(input) - 1 /\ st + 1 \in 1 .. hpos + 1
        BY <1>1, <1>2
      <4>2. Append(SubSeq(input, st + 1, hpos), input[hpos + 1]) = SubSeq(input, st + 1, hpos + 1)
        BY <1>2, <4>1, WindowGrows
      <4> QED BY <1>4, <2>5, <4>2
    <3>3. \A i \in st + 1 .. hpos' : input[i] # LF
      BY <1>1, <1>4, <2>5, <3>1
    <3>4. CountedIn(st)'
      BY <1>1, <1>4, <2>5, <3>1, <3>2, <3>3 DEF CountedIn, UpTo, Ends
    <3>5. Behind'
      BY <1>1, <1>12, <1>13, <2>5 DEF Behind
    <3> QED BY <1>1, <1>11, <3>1, <3>4, <3>5 DEF Reading
  <2> QED BY <1>14, <2>1, <2>2, <2>3, <2>4, <2>5 DEF OtherByte
<1>15. CASE hpending /\ b = LF /\ hline # <<>> /\ hpending' = FALSE /\ FieldAdded(hline)
  <2>1. UpTo(Ends, hpos + 1) = Len(fields) + 2 /\ LineAt(Len(fields) + 2) = hline
    BY <1>1, <1>3, <1>5, <1>15, LineFinished
  <2>2. CASE hstate' = "invalid" /\ UNCHANGED <<hline, fields>> /\ NoColon(hline)
    <3>1. NoColon(LineAt(Len(fields) + 2))'
      <4>1. NoColon(LineAt(Len(fields') + 2))
        BY <2>1, <2>2
      <4> QED BY <1>1, <4>1, SameLines
    <3>2. Behind'
      BY <1>12, <1>13, <2>2, <3>1 DEF Behind
    <3> QED BY <1>11, <2>2, <3>2 DEF Reading
  <2>3. ASSUME NEW f \in HeaderField, IsFieldOf(hline, f), fields' = Append(fields, f),
               hline' = <<>>, UNCHANGED hstate
        PROVE  Reading' /\ Behind' /\ Outcome'
    <3>1. /\ Len(fields') = Len(fields) + 1 /\ DOMAIN fields' = 1 .. Len(fields) + 1
          /\ fields'[Len(fields) + 1] = f
          /\ \A k \in 1 .. Len(fields) : fields'[k] = fields[k]
      BY <1>9, <2>3, AppendProperties
    <3>2. IsFieldOf(LineAt((Len(fields) + 1) + 1), f)
      <4>1. (Len(fields) + 1) + 1 = Len(fields) + 2
        BY <1>9
      <4> QED BY <2>1, <2>3, <4>1
    <3>3. \A k \in DOMAIN fields' : IsFieldOf(LineAt(k + 1), fields'[k])
      <4>1. \A k \in 1 .. Len(fields) + 1 : k \in 1 .. Len(fields) \/ k = Len(fields) + 1
        BY <1>9
      <4>2. DOMAIN fields = 1 .. Len(fields)
        BY <1>9, LenProperties
      <4>3. \A k \in 1 .. Len(fields) : IsFieldOf(LineAt(k + 1), fields'[k])
        BY <1>7, <3>1, <4>2 DEF FieldsAreTheirs
      <4> QED BY <3>1, <3>2, <4>1, <4>3, Zenon
    <3>4. FieldsAreTheirs'
      BY <1>1, <3>3, SameLines
    <3>5. Behind'
      BY <1>1, <1>13, <2>3, <3>4 DEF Behind
    <3>6. PICK e \in Nat : e = hpos + 1
      BY <1>2
    <3>7. CountedIn(e)'
      <4>1. e \in 2 .. e /\ \A i \in e + 1 .. e : input[i] # LF
        BY <1>2, <1>3, <3>6
      <4>2. SubSeq(input, e + 1, e) = <<>>
        BY <1>2, SubSeqEmpty
      <4>3. UpTo(Ends, e) = Len(fields') + 1 /\ input[e] = LF /\ hpos' = e
        BY <1>1, <1>9, <1>15, <2>1, <3>1, <3>6
      <4> QED BY <1>1, <1>15, <2>3, <4>1, <4>2, <4>3 DEF CountedIn, UpTo, Ends
    <3>8. e \in 2 .. hpos'
      BY <1>1, <1>2, <1>3, <3>6
    <3> QED BY <1>11, <3>5, <3>7, <3>8 DEF Reading
  <2> QED BY <1>15, <2>2, <2>3 DEF FieldAdded, NoColon
<1> QED BY <1>1, <1>9, <1>14, <1>15, HeaderBytes

LEMMA Judged ==
  ASSUME RInv, HInv, HInv', JInv, [Next]_vars
  PROVE  JInv'
<1>1. TypeOK'
  BY TypesStep DEF JInv
<1>2. Reading' /\ Behind' /\ Outcome'
  <2>1. CASE FeedRequest
    BY <2>1 DEF FeedRequest, hvars, HInv, Started, Reading, Behind, Outcome
  <2>2. CASE JudgeHead
    BY <2>2, JudgeHeadJ
  <2>3. CASE FeedHeaders
    BY <2>3, FeedHeadersJ
  <2>4. ASSUME input' = input, pos' = pos, UNCHANGED <<hpos, hstate, fields>>
        PROVE  Behind'
    <3>1. Behind
      BY DEF JInv
    <3>2. fields' = fields
      BY <2>4
    <3>3. NoColon(LineAt(Len(fields') + 2)) <=> NoColon(LineAt(Len(fields) + 2))
      BY <3>2
    <3>4. FieldsAreTheirs' <=> FieldsAreTheirs
      BY <2>4, <3>2, SameLines DEF FieldsAreTheirs
    <3> QED BY <2>4, <3>1, <3>3, <3>4, SameLines DEF Behind
  <2>5. CASE CNoMemory
    <3>1. /\ part = "headers" /\ part' = "refused" /\ noMemory' = TRUE
          /\ UNCHANGED <<input, pos, hpos, hstate, fields>>
      BY <2>5 DEF CNoMemory, HeaderNoMemoryC
    <3> QED BY <2>4, <3>1 DEF Reading, Outcome
  <2>6. CASE JudgeHeaders
    <3>1. /\ part = "headers" /\ (hstate # "incomplete" \/ hpos = pos)
          /\ part' = IF hstate = "complete" THEN "accepted" ELSE "refused"
          /\ UNCHANGED <<input, pos, hpos, hstate, fields>>
      BY <2>6 DEF JudgeHeaders, hvars
    <3>2. hpos # 0
      BY <3>1 DEF HInv, Started
    <3>3. hstate # "incomplete"
      BY <3>1, <3>2 DEF HInv, Ahead, JInv, TypeOK
    <3>4. hstate \in Verdict
      BY DEF JInv, TypeOK
    <3> QED BY <2>4, <3>1, <3>2, <3>3, <3>4 DEF Reading, Outcome, Verdict
  <2>7. CASE UNCHANGED vars
    <3>1. UNCHANGED <<input, pos, part, rstate, noMemory, hpos, hstate, hline, hpending, fields>>
      BY <2>7 DEF vars, rvars, hvars
    <3>2. Reading'
      BY <3>1 DEF JInv, Reading, CountedIn, UpTo, Ends
    <3>3. Outcome'
      BY <3>1 DEF JInv, Outcome, LineAt, Ends, EchoLine
    <3> QED BY <2>4, <3>1, <3>2, <3>3
  <2> QED BY <2>1, <2>2, <2>3, <2>4, <2>5, <2>6, <2>7 DEF Next
<1> QED BY <1>1, <1>2 DEF JInv

\* A head is accepted exactly if it asks for the echo and every field line is
\* well formed, and the fields are then those lines' (http_echo_server.c 133-176).
THEOREM HeadsAreJudged == Spec => []JudgesTheHead
<1>1. JInv => JudgesTheHead
  <2> SUFFICES ASSUME JInv PROVE JudgesTheHead
    OBVIOUS
  <2>1. ASSUME part = "accepted"
        PROVE  /\ LineAt(1) = EchoLine /\ Len(fields) = Cardinality(Ends) - 2
               /\ \A k \in DOMAIN fields : IsFieldOf(LineAt(k + 1), fields[k])
    <3>1. /\ LineAt(1) = EchoLine /\ Cardinality(Ends) = Len(fields) + 2
          /\ \A k \in DOMAIN fields : IsFieldOf(LineAt(k + 1), fields[k])
      BY <2>1 DEF JInv, Outcome, Behind, FieldsAreTheirs
    <3>2. Len(fields) \in Nat
      BY LenProperties DEF JInv, TypeOK
    <3>3. Len(fields) = Cardinality(Ends) - 2
      BY <3>1, <3>2
    <3> QED BY <3>1, <3>3
  <2>2. ASSUME part = "refused", rstate = "complete", ~noMemory, LineAt(1) = EchoLine
        PROVE  NoColon(LineAt(Len(fields) + 2))
    BY <2>2 DEF JInv, Outcome, Behind
  <2> QED BY <2>1, <2>2 DEF JudgesTheHead, NoColon
<1>2. RInv /\ HInv /\ (RInv /\ HInv)' /\ JInv /\ [Next]_vars => JInv'
  BY Judged
<1> QED BY <1>1, <1>2, InitJInv, Invariance, PTL DEF Spec
=============================================================================
