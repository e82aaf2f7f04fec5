----------------------------- MODULE LineProofs -----------------------------
(***************************************************************************)
(* Proofs about the line readers, for every set of streams: types, that    *)
(* each reader implements module LineStream, and that a call that succeeds *)
(* holds no line back.                                                     *)
(***************************************************************************)
EXTENDS LineReaders, StreamLemmas, FiniteSetTheorems

\* The buffer is the tail of what was accepted; the locals of a call are used
\* in one language only, and only inside the call; and the C loop has left no
\* CR LF behind its index.
Buffered == \E c \in 0 .. pos : pending = SubSeq(input, c + 1, pos)
Locals   == /\ lang # "rust" => consumed = 0
            /\ lang = "c" => found = <<>>
            /\ ~feeding => consumed = 0 /\ found = <<>>
            /\ lang # "c" \/ ~feeding => index = 0
Scanned  == /\ index = 0 \/ index < Len(pending)
            /\ \A k \in 1 .. index : ~(pending[k] = CR /\ pending[k + 1] = LF)
Inv == TypeOK /\ Buffered /\ Locals /\ Scanned

\* What the loop has not looked at yet is the stream from some place d on, and
\* d is what the refinement takes for the cut.
Ahead(d) == /\ d \in 0 .. pos /\ d = pos - Len(pending) + consumed
            /\ Unseen = SubSeq(input, d + 1, pos)
            /\ Unseen \in Seq(STRING) /\ Len(Unseen) = pos - d
            /\ input \in Seq(STRING) /\ Len(input) \in Nat /\ pos \in 0 .. Len(input)

LEMMA AheadExists == ASSUME Inv PROVE \E d \in Nat : Ahead(d)
<1>1. /\ input \in Seq(STRING) /\ Len(input) \in Nat /\ pos \in 0 .. Len(input)
      /\ Len(pending) \in Nat /\ consumed \in 0 .. Len(pending)
  BY StreamsAssumption, LenProperties DEF Inv, TypeOK
<1>2. PICK c \in 0 .. pos : pending = SubSeq(input, c + 1, pos)
  BY DEF Inv, Buffered
<1>3. c \in Nat /\ c + 1 \in Nat \ {0} /\ pos \in c .. Len(input)
  BY <1>1, <1>2
<1>4. Len(pending) = pos - c
  <2>1. Len(SubSeq(input, c + 1, pos)) = IF c + 1 <= pos THEN pos - (c + 1) + 1 ELSE 0
    BY ONLY <1>1, <1>3, WindowType
  <2>2. Len(pending) = IF c + 1 <= pos THEN pos - (c + 1) + 1 ELSE 0
    BY ONLY <1>2, <2>1
  <2> QED BY ONLY <1>1, <1>3, <2>2
<1> DEFINE d == c + consumed
<1>5. d \in 0 .. pos /\ d \in Nat /\ d = pos - Len(pending) + consumed /\ d + 1 \in Nat \ {0}
  BY <1>1, <1>3, <1>4
<1>6. Unseen = SubSeq(input, d + 1, pos)
  <2>1. /\ consumed + 1 \in 1 .. pos - c + 1 /\ Len(pending) \in 0 .. pos - c
        /\ c + (consumed + 1) = d + 1 /\ c + Len(pending) = pos
    BY <1>1, <1>3, <1>4
  <2> HIDE DEF d
  <2>2. SubSeq(SubSeq(input, c + 1, pos), consumed + 1, Len(pending))
          = SubSeq(input, c + (consumed + 1), c + Len(pending))
    BY ONLY <1>1, <1>3, <2>1, WindowOfWindow
  <2> QED BY ONLY <1>2, <2>1, <2>2 DEF Unseen
<1>7. Unseen \in Seq(STRING) /\ Len(Unseen) = pos - d
  <2> HIDE DEF d
  <2>1. /\ SubSeq(input, d + 1, pos) \in Seq(STRING)
        /\ Len(SubSeq(input, d + 1, pos)) = IF d + 1 <= pos THEN pos - (d + 1) + 1 ELSE 0
    BY ONLY <1>1, <1>5, WindowType
  <2>2. Len(Unseen) = IF d + 1 <= pos THEN pos - (d + 1) + 1 ELSE 0
    BY ONLY <1>6, <2>1
  <2>3. Len(Unseen) = pos - d
    BY ONLY <1>1, <1>5, <2>2
  <2> QED BY ONLY <1>6, <2>1, <2>3
<1> QED BY ONLY <1>1, <1>5, <1>6, <1>7 DEF Ahead

\* The next CR LF of the part ahead is the next one of the stream, and what
\* stands before and behind it are windows of the stream.
LEMMA NextLine ==
  ASSUME NEW d \in Nat, Ahead(d), NEW i \in First(Unseen)
  PROVE  /\ i \in 1 .. pos - d - 1
         /\ input[d + i] = CR /\ input[d + i + 1] = LF
         /\ \A j \in d + 1 .. d + i - 1 : ~(input[j] = CR /\ input[j + 1] = LF)
         /\ Line(Unseen, i) = SubSeq(input, d + 1, d + i - 1)
         /\ Line(Unseen, i) \in Seq(STRING)
         /\ Behind(Unseen, i) = SubSeq(input, d + i + 2, pos)
         /\ Behind(Unseen, i) \in Seq(STRING) /\ Len(Behind(Unseen, i)) = pos - d - i - 1
<1>0. /\ d \in Nat /\ pos \in Nat /\ pos \in d .. Len(input) /\ d <= pos /\ Len(input) \in Nat
      /\ input \in Seq(STRING) /\ Len(Unseen) = pos - d
      /\ Unseen = SubSeq(input, d + 1, pos)
  BY DEF Ahead
<1>1. /\ i \in 1 .. pos - d - 1 /\ Unseen[i] = CR /\ Unseen[i + 1] = LF
      /\ \A j \in 1 .. i - 1 : ~(Unseen[j] = CR /\ Unseen[j + 1] = LF)
  <2>1. /\ i \in 1 .. Len(Unseen) - 1 /\ Unseen[i] = CR /\ Unseen[i + 1] = LF
        /\ \A j \in 1 .. Len(Unseen) - 1 : Unseen[j] = CR /\ Unseen[j + 1] = LF => i <= j
    BY DEF First, Crlfs
  <2>2. i \in 1 .. pos - d - 1 /\ i \in Int
    BY ONLY <1>0, <2>1
  <2>3. \A j \in 1 .. i - 1 : j \in 1 .. Len(Unseen) - 1 /\ ~(i <= j)
    BY ONLY <1>0, <2>2
  <2> QED BY ONLY <2>1, <2>2, <2>3
<1>a. /\ i \in Nat /\ i - 1 \in Nat /\ d + i - 1 \in Nat /\ d + i + 2 \in Nat \ {0}
      /\ d + i + 1 <= pos /\ d + 1 \in Nat \ {0}
  BY ONLY <1>0, <1>1
<1>2. \A j \in 1 .. pos - d : SubSeq(input, d + 1, pos)[j] = input[d + j]
  BY ONLY <1>0, WindowElement
<1>3. \A j \in 1 .. pos - d : Unseen[j] = input[d + j]
  BY ONLY <1>0, <1>2
<1>4. input[d + i] = CR /\ input[d + i + 1] = LF
  <2>1. i \in 1 .. pos - d /\ i + 1 \in 1 .. pos - d /\ d + (i + 1) = d + i + 1
    BY ONLY <1>0, <1>1
  <2> QED BY ONLY <1>1, <1>3, <2>1
<1>5. \A j \in d + 1 .. d + i - 1 : ~(input[j] = CR /\ input[j + 1] = LF)
  <2> TAKE j \in d + 1 .. d + i - 1
  <2>1. /\ j - d \in 1 .. i - 1 /\ j - d \in 1 .. pos - d /\ (j - d) + 1 \in 1 .. pos - d
        /\ d + (j - d) = j /\ d + ((j - d) + 1) = j + 1
    BY ONLY <1>0, <1>a
  <2>2. Unseen[j - d] = input[j] /\ Unseen[(j - d) + 1] = input[j + 1]
    BY ONLY <1>3, <2>1
  <2> QED BY ONLY <1>1, <2>1, <2>2
<1>6. Line(Unseen, i) = SubSeq(input, d + 1, d + i - 1)
  <2>1. /\ 1 \in 1 .. pos - d + 1 /\ i - 1 \in 0 .. pos - d /\ d + (i - 1) = d + i - 1
    BY ONLY <1>0, <1>a
  <2>2. SubSeq(SubSeq(input, d + 1, pos), 1, i - 1) = SubSeq(input, d + 1, d + (i - 1))
    BY ONLY <1>0, <2>1, WindowOfWindow
  <2> QED BY ONLY <1>0, <2>1, <2>2 DEF Line
<1>7. Behind(Unseen, i) = SubSeq(input, d + i + 2, pos)
  <2> DEFINE a == i + 2
             b == pos - d
  <2>1. /\ a \in 1 .. pos - d + 1 /\ b \in 0 .. pos - d
        /\ d + a = d + i + 2 /\ d + b = pos
    BY ONLY <1>0, <1>a
  <2>2. Behind(Unseen, i) = SubSeq(SubSeq(input, d + 1, pos), a, b)
    BY ONLY <1>0 DEF Behind
  <2> HIDE DEF a, b
  <2>3. SubSeq(SubSeq(input, d + 1, pos), a, b) = SubSeq(input, d + a, d + b)
    BY ONLY <1>0, <2>1, WindowOfWindow
  <2> QED BY ONLY <2>1, <2>2, <2>3
<1>8. /\ SubSeq(input, d + 1, d + i - 1) \in Seq(STRING)
      /\ SubSeq(input, d + i + 2, pos) \in Seq(STRING)
      /\ Len(SubSeq(input, d + i + 2, pos)) = pos - d - i - 1
  <2>1. /\ d + 1 \in Nat \ {0} /\ d + i + 2 \in Nat \ {0}
        /\ pos \in 0 .. Len(input) /\ d + i - 1 \in 0 .. Len(input)
    BY ONLY <1>0, <1>a
  <2>2. /\ SubSeq(input, d + 1, d + i - 1) \in Seq(STRING)
        /\ SubSeq(input, d + i + 2, pos) \in Seq(STRING)
        /\ Len(SubSeq(input, d + i + 2, pos))
             = IF d + i + 2 <= pos THEN pos - (d + i + 2) + 1 ELSE 0
    BY ONLY <1>0, <2>1, WindowType
  <2>3. (IF d + i + 2 <= pos THEN pos - (d + i + 2) + 1 ELSE 0) = pos - d - i - 1
    BY ONLY <1>0, <1>a
  <2> QED BY ONLY <2>2, <2>3
<1> QED BY ONLY <1>1, <1>4, <1>5, <1>6, <1>7, <1>8

\* Outside Rust nothing of the buffer is consumed, so all of it is ahead.
LEMMA AllAhead == ASSUME Inv, lang # "rust" PROVE Unseen = pending
BY SubSeqFull DEF Inv, TypeOK, Locals, Unseen

\* The place where the C loop finds a CR LF is the first of the buffer.
LEMMA CFindsTheFirst ==
  ASSUME Inv, lang = "c", CrlfHere
  PROVE  /\ index + 1 \in First(Unseen)
         /\ SubSeq(pending, 1, index) = Line(Unseen, index + 1)
         /\ CRest = Behind(Unseen, index + 1)
<1>1. /\ Unseen = pending /\ pending \in Seq(STRING) /\ Len(pending) \in Nat
      /\ index \in 0 .. Len(pending)
  BY AllAhead, LenProperties DEF Inv, TypeOK
<1>2. index + 1 < Len(pending) /\ CR \in Sees(index) /\ LF \in Sees(index + 1)
  BY DEF CrlfHere, Further
<1>3. /\ index < Len(pending) /\ index + 1 \in 1 .. Len(pending) - 1
      /\ (index + 1) + 1 = index + 2 /\ (index + 1) - 1 = index /\ (index + 1) + 2 = index + 3
  BY ONLY <1>1, <1>2
<1>4. pending[index + 1] = CR /\ pending[(index + 1) + 1] = LF
  <2>1. Sees(index) = {pending[index + 1]} /\ Sees(index + 1) = {pending[(index + 1) + 1]}
    BY ONLY <1>2, <1>3 DEF Sees
  <2> QED BY <1>2, <2>1
<1>5. index + 1 \in Crlfs(pending)
  BY <1>3, <1>4 DEF Crlfs
<1>6. \A j \in Crlfs(pending) : index + 1 <= j
  <2> TAKE j \in Crlfs(pending)
  <2>1. j \in 1 .. Len(pending) - 1 /\ pending[j] = CR /\ pending[j + 1] = LF
    BY DEF Crlfs
  <2>2. j \notin 1 .. index
    BY <2>1 DEF Inv, Scanned
  <2> QED BY ONLY <1>1, <2>1, <2>2
<1> QED BY <1>1, <1>3, <1>5, <1>6 DEF First, Line, Behind, CRest

\* A C loop that ends has looked at every place where a CR LF can start.
LEMMA EndedMeansNone == ASSUME Inv, Ended PROVE Crlfs(Unseen) = {}
<1>1. CASE lang # "c"
  BY <1>1 DEF Ended
<1>2. CASE lang = "c"
  <2>1. /\ Unseen = pending /\ Len(pending) \in Nat /\ index \in 0 .. Len(pending)
        /\ ~(index + 1 < Len(pending))
    BY <1>2, AllAhead, LenProperties DEF Inv, TypeOK, Ended, Further
  <2>2. \A k \in 1 .. Len(pending) - 1 : k \in 1 .. index
    BY ONLY <2>1
  <2>3. \A k \in 1 .. Len(pending) - 1 : ~(pending[k] = CR /\ pending[k + 1] = LF)
    BY <2>2 DEF Inv, Scanned
  <2> QED BY ONLY <2>1, <2>3 DEF Crlfs
<1> QED BY <1>1, <1>2

-----------------------------------------------------------------------------
LEMMA InitInv == Init => Inv
<1> SUFFICES ASSUME Init PROVE Inv OBVIOUS
<1>1. /\ input \in Seq(STRING) /\ Len(input) \in Nat /\ 0 \in Nat /\ <<>> \in Seq(STRING)
      /\ <<>> \in Seq(Seq(STRING)) /\ Len(<<>>) = 0
  BY StreamsAssumption, LenProperties, EmptySeq DEF Init
<1>2. pending = SubSeq(input, 0 + 1, pos) /\ 0 \in 0 .. pos
  BY SubSeqEmpty, <1>1 DEF Init
<1>3. Buffered
  BY <1>2 DEF Buffered
<1>4. 0 \in 0 .. Len(input) /\ 0 \in 0 .. Len(pending)
  BY <1>1 DEF Init
<1>5. TypeOK
  BY <1>1, <1>4 DEF Init, TypeOK
<1>6. Locals /\ Scanned
  BY DEF Init, Locals, Scanned
<1> QED BY <1>3, <1>5, <1>6 DEF Inv

\* Types and locals are preserved by every step, and the buffer remains the
\* tail of what was accepted.
LEMMA Feeds == ASSUME Inv, Feed PROVE Inv'
<1>1. /\ input \in Seq(STRING) /\ Len(input) \in Nat /\ pos \in 0 .. Len(input)
      /\ pending \in Seq(STRING) /\ Len(pending) \in Nat /\ consumed \in 0 .. Len(pending)
  BY StreamsAssumption, LenProperties DEF Inv, TypeOK
<1>2. PICK n \in pos .. Len(input) : /\ pending' = pending \o SubSeq(input, pos + 1, n)
                                     /\ pos' = n
  BY DEF Feed
<1>3. PICK c \in 0 .. pos : pending = SubSeq(input, c + 1, pos)
  BY DEF Inv, Buffered
<1>4. /\ n \in 0 .. Len(input) /\ pos \in 0 .. n /\ c + 1 \in 1 .. pos + 1
      /\ c \in 0 .. n /\ pos + 1 \in Nat \ {0}
  BY <1>1, <1>3
<1>5. pending' = SubSeq(input, c + 1, n)
  <2>1. SubSeq(input, c + 1, pos) \o SubSeq(input, pos + 1, n) = SubSeq(input, c + 1, n)
    BY ONLY <1>1, <1>4, WindowsJoin
  <2> QED BY ONLY <1>2, <1>3, <2>1
<1>6. pending' \in Seq(STRING) /\ Len(pending') >= Len(pending) /\ Len(pending') \in Nat
  <2>1. SubSeq(input, pos + 1, n) \in Seq(STRING)
    BY ONLY <1>1, <1>4, WindowType
  <2>2. /\ pending' \in Seq(STRING)
        /\ Len(pending') = Len(pending) + Len(SubSeq(input, pos + 1, n))
        /\ Len(SubSeq(input, pos + 1, n)) \in Nat
    BY ONLY <1>1, <1>2, <2>1, ConcatProperties, LenProperties
  <2> QED BY ONLY <1>1, <2>2
<1>7. Buffered'
  BY <1>2, <1>4, <1>5 DEF Buffered, Feed
<1>8. consumed \in 0 .. Len(pending')
  BY ONLY <1>1, <1>6
<1>9. index = 0 /\ index' = 0 /\ 0 \in 0 .. Len(pending')
  BY <1>6 DEF Inv, Locals, Feed
<1>10. Scanned'
  BY ONLY <1>9 DEF Scanned
<1> QED BY <1>2, <1>4, <1>6, <1>7, <1>8, <1>9, <1>10 DEF Inv, TypeOK, Locals, Feed

\* A buffer that is cut down to what stands behind some line is still a tail.
LEMMA StillTail ==
  ASSUME Inv, NEW d \in Nat, Ahead(d), NEW i \in First(Unseen),
         pending' = Behind(Unseen, i), UNCHANGED <<input, pos>>
  PROVE  Buffered' /\ pending' \in Seq(STRING) /\ Len(pending') \in Nat
<1>1. /\ i \in 1 .. pos - d - 1 /\ Behind(Unseen, i) = SubSeq(input, d + i + 2, pos)
      /\ Behind(Unseen, i) \in Seq(STRING)
  BY NextLine
<1>2. d \in Nat /\ pos \in Nat
  BY DEF Ahead
<1>3. d + i + 1 \in 0 .. pos /\ (d + i + 1) + 1 = d + i + 2
  BY ONLY <1>1, <1>2
<1> QED BY <1>1, <1>3, LenProperties DEF Buffered

LEMMA StepInv == Inv /\ [Next]_vars => Inv'
<1> SUFFICES ASSUME Inv, [Next]_vars PROVE Inv' OBVIOUS
<1>1. PICK d \in Nat : Ahead(d)
  BY AheadExists
<1>2. /\ pending \in Seq(STRING) /\ Len(pending) \in Nat
      /\ found \in Seq(Seq(STRING)) /\ lines \in Seq(Seq(STRING))
  BY LenProperties DEF Inv, TypeOK
<1>3. CASE Feed
  BY <1>3, Feeds
<1>4. CASE CNoMemory
  BY <1>4 DEF Inv, TypeOK, Buffered, Locals, Scanned, CNoMemory
<1>5. CASE CScan
  <2>1. /\ index \in 0 .. Len(pending) /\ index + 1 < Len(pending) /\ index' = index + 1
        /\ lang = "c" /\ feeding = TRUE
        /\ Sees(index) # {CR} \/ Sees(index + 1) # {LF}
        /\ UNCHANGED <<lang, input, pos, feeding, pending, consumed, found, lines, rc>>
    BY <1>5 DEF CScan, InLoop, Further, Inv, TypeOK
  <2>2. /\ index < Len(pending) /\ index' < Len(pending) /\ index' \in 0 .. Len(pending)
        /\ \A k \in 1 .. index' : k \in 1 .. index \/ k = index + 1
    BY ONLY <1>2, <2>1
  <2>3. ~(pending[index + 1] = CR /\ pending[(index + 1) + 1] = LF)
    <3>1. Sees(index) = {pending[index + 1]} /\ Sees(index + 1) = {pending[(index + 1) + 1]}
      BY ONLY <2>1, <2>2 DEF Sees
    <3> QED BY ONLY <2>1, <3>1
  <2>4. Scanned'
    BY <2>1, <2>2, <2>3 DEF Inv, Scanned
  <2> QED BY <2>1, <2>2, <2>4 DEF Inv, TypeOK, Buffered, Locals
<1>6. ASSUME NEW ok \in BOOLEAN, CEmit(ok) PROVE Inv'
  <2>1. /\ lang = "c" /\ lang' = lang /\ CrlfHere /\ index' = 0 /\ found = <<>> /\ consumed = 0
        /\ UNCHANGED <<input, pos, consumed, found>> /\ rc' \in {0, -1} /\ feeding' \in BOOLEAN
    BY <1>6 DEF CEmit, InLoop, Inv, TypeOK, Locals
  <2> DEFINE i == index + 1
  <2>2. /\ i \in First(Unseen)
        /\ \/ pending' = Behind(Unseen, i) /\ lines' = Append(lines, Line(Unseen, i))
           \/ UNCHANGED <<pending, lines>>
    BY <1>6, <2>1, CFindsTheFirst DEF CEmit
  <2> HIDE DEF i
  <2>3. CASE UNCHANGED <<pending, lines>>
    BY <1>2, <2>1, <2>3 DEF Inv, TypeOK, Buffered, Locals, Scanned
  <2>4. CASE pending' = Behind(Unseen, i) /\ lines' = Append(lines, Line(Unseen, i))
    <3>1. Buffered' /\ pending' \in Seq(STRING) /\ Len(pending') \in Nat
      BY <1>1, <2>1, <2>2, <2>4, StillTail
    <3>2. lines' \in Seq(Seq(STRING))
      BY <1>1, <1>2, <2>2, <2>4, NextLine, AppendProperties
    <3>3. 0 \in 0 .. Len(pending')
      BY ONLY <3>1
    <3> QED BY <2>1, <3>1, <3>2, <3>3 DEF Inv, TypeOK, Locals, Scanned
  <2> QED BY <2>2, <2>3, <2>4
<1>7. CASE GoTake
  <2>1. /\ lang = "go" /\ Unseen = pending /\ index = 0 /\ feeding = TRUE
        /\ UNCHANGED <<lang, input, pos, feeding, index, consumed, lines, rc>>
    BY <1>7, AllAhead DEF GoTake, InLoop, Inv, TypeOK, Locals
  <2>2. PICK i \in First(Unseen) :
          found' = Append(found, Line(Unseen, i)) /\ pending' = Behind(Unseen, i)
    BY <1>7, <2>1 DEF GoTake
  <2>3. Buffered' /\ pending' \in Seq(STRING) /\ Len(pending') \in Nat
    BY <1>1, <2>1, <2>2, StillTail
  <2>4. found' \in Seq(Seq(STRING))
    BY <1>1, <1>2, <2>2, NextLine, AppendProperties
  <2>5. 0 \in 0 .. Len(pending')
    BY ONLY <2>3
  <2> QED BY <2>1, <2>3, <2>4, <2>5 DEF Inv, TypeOK, Locals, Scanned
<1>8. CASE RustTake
  <2>1. /\ lang = "rust" /\ feeding = TRUE
        /\ UNCHANGED <<lang, input, pos, feeding, pending, index, lines, rc>>
    BY <1>8 DEF RustTake, InLoop, Inv, TypeOK
  <2>2. PICK i \in First(Unseen) :
          found' = Append(found, Line(Unseen, i)) /\ consumed' = consumed + i + 1
    BY <1>8 DEF RustTake
  <2>3. consumed' \in 0 .. Len(pending)
    <3>1. i \in 1 .. pos - d - 1
      BY <1>1, NextLine
    <3>2. d = pos - Len(pending) + consumed /\ pos \in Nat /\ consumed \in Nat
      BY <1>1 DEF Ahead, Inv, TypeOK
    <3> QED BY ONLY <1>1, <1>2, <2>2, <3>1, <3>2
  <2>4. found' \in Seq(Seq(STRING))
    BY <1>1, <1>2, <2>2, NextLine, AppendProperties
  <2> QED BY <2>1, <2>3, <2>4 DEF Inv, TypeOK, Buffered, Locals, Scanned
<1>9. CASE Return
  <2>1. d \in 0 .. pos /\ Unseen = SubSeq(input, d + 1, pos) /\ Unseen \in Seq(STRING)
    BY <1>1 DEF Ahead
  <2>2. lines' \in Seq(Seq(STRING)) /\ found' \in Seq(Seq(STRING))
    BY <1>2, <1>9, ConcatProperties, EmptySeq DEF Return
  <2>3. 0 \in 0 .. Len(Unseen) /\ pending' = Unseen /\ consumed' = 0 /\ index' = 0
    BY <1>9, <2>1, LenProperties DEF Return
  <2>4. Buffered'
    BY <1>9, <2>1 DEF Return, Buffered
  <2>5. TypeOK'
    BY <1>9, <2>1, <2>2, <2>3 DEF Return, Inv, TypeOK
  <2>6. Scanned'
    BY ONLY <2>3 DEF Scanned
  <2> QED BY <1>9, <2>4, <2>5, <2>6 DEF Return, Inv, Locals
<1>10. CASE UNCHANGED vars
  BY <1>10 DEF vars, Inv, TypeOK, Buffered, Locals, Scanned
<1> QED BY <1>3, <1>4, <1>5, <1>6, <1>7, <1>8, <1>9, <1>10 DEF Next

LEMMA Invariance == Spec => []Inv
BY InitInv, StepInv, PTL DEF Spec

-----------------------------------------------------------------------------
\* Every variable keeps its type: `consumed` never points behind the buffer.
THEOREM TypeCorrect == Spec => []TypeOK
BY Invariance, PTL DEF Inv

-----------------------------------------------------------------------------
\* One line, taken out of the part ahead, is one Deliver of module LineStream.
LEMMA TakesOne ==
  ASSUME Inv, Inv', NEW d \in Nat, Ahead(d), NEW i \in First(Unseen),
         UNCHANGED <<input, pos>>,
         pos' - Len(pending') + consumed' = d + i + 1,
         lines' \o found' = Append(lines \o found, Line(Unseen, i))
  PROVE  Stream!Next
<1> DEFINE src == SubSeq(input, 1, pos)
<1>1. /\ d \in Nat /\ pos \in Nat /\ pos \in 0 .. Len(input) /\ Len(input) \in Nat
      /\ input \in Seq(STRING)
  BY DEF Ahead
<1>0. d = pos - Len(pending) + consumed
  BY DEF Ahead
<1>2. /\ i \in 1 .. pos - d - 1 /\ input[d + i] = CR /\ input[d + i + 1] = LF
      /\ \A j \in d + 1 .. d + i - 1 : ~(input[j] = CR /\ input[j + 1] = LF)
      /\ Line(Unseen, i) = SubSeq(input, d + 1, d + i - 1)
  BY NextLine
<1>3. Len(src) = pos /\ \A j \in 1 .. pos : src[j] = input[j]
  <2>1. 0 + 1 = 1 /\ 0 \in Nat /\ pos \in 0 .. Len(input) /\ pos - 0 = pos
        /\ \A j \in 1 .. pos : 0 + j = j
    BY ONLY <1>1
  <2>2. Len(src) = IF 1 <= pos THEN pos - 1 + 1 ELSE 0
    BY ONLY <1>1, WindowType
  <2>3. \A j \in 1 .. pos - 0 : SubSeq(input, 0 + 1, pos)[j] = input[0 + j]
    BY ONLY <1>1, <2>1, WindowElement
  <2> QED BY ONLY <1>1, <2>1, <2>2, <2>3
<1>4. SubSeq(src, d + 1, d + (i - 1)) = SubSeq(input, d + 1, d + i - 1)
  <2> DEFINE a == d + 1
             b == d + i - 1
  <2>1. /\ a \in 1 .. pos - 0 + 1 /\ b \in 0 .. pos - 0 /\ 0 + a = a /\ 0 + b = b
        /\ 0 \in Nat /\ pos \in 0 .. Len(input) /\ 0 + 1 = 1 /\ d + (i - 1) = b
    BY ONLY <1>1, <1>2
  <2> HIDE DEF a, b
  <2>2. SubSeq(SubSeq(input, 0 + 1, pos), a, b) = SubSeq(input, 0 + a, 0 + b)
    BY ONLY <1>1, <2>1, WindowOfWindow
  <2>3. SubSeq(src, a, b) = SubSeq(input, a, b)
    BY ONLY <2>1, <2>2
  <2> QED BY ONLY <2>1, <2>3 DEF a, b
<1> HIDE DEF src
<1> DEFINE n == i - 1
<1>5. /\ n \in 0 .. pos - d - 2 /\ d + n + 1 = d + i /\ d + n + 2 = d + i + 1
      /\ d + n + 1 \in 1 .. pos /\ (d + n + 1) + 1 \in 1 .. pos /\ (d + n + 1) + 1 = d + i + 1
  BY ONLY <1>1, <1>2
<1>6. src[d + n + 1] = CR /\ src[(d + n + 1) + 1] = LF
  BY ONLY <1>2, <1>3, <1>5
<1>7. \A j \in d + 1 .. d + n : ~(src[j] = CR /\ src[j + 1] = LF)
  <2> TAKE j \in d + 1 .. d + n
  <2>1. j \in 1 .. pos /\ j + 1 \in 1 .. pos /\ j \in d + 1 .. d + i - 1
    BY ONLY <1>1, <1>2
  <2> QED BY ONLY <1>2, <1>3, <2>1
<1>8. lines' \o found' = Append(lines \o found, SubSeq(src, d + 1, d + n))
  BY <1>2, <1>4
<1>9. src' = src
  BY DEF src
<1> HIDE DEF n
<1>10. Stream!Deliver(n)
  BY <1>0, <1>5, <1>6, <1>7, <1>8, <1>9 DEF Stream!Deliver, Stream!EndsLine, src
<1> QED BY <1>0, <1>3, <1>5, <1>10 DEF Stream!Next, src

LEMMA StreamInit == Init => Stream!Init
<1> SUFFICES ASSUME Init PROVE Stream!Init OBVIOUS
<1>1. SubSeq(input, 1, pos) = <<>> /\ pos - Len(pending) + consumed = 0
  <2>1. pos = 0 /\ consumed = 0 /\ Len(pending) = 0
    BY DEF Init
  <2>2. SubSeq(input, 1, 0) = <<>>
    BY SubSeqEmpty
  <2> QED BY <2>1, <2>2
<1>2. lines \o found = <<>>
  <2>1. <<>> \in Seq(Seq(STRING)) /\ lines = <<>> /\ found = <<>>
    BY EmptySeq DEF Init
  <2> QED BY ONLY <2>1, ConcatEmptySeq
<1> QED BY <1>1, <1>2 DEF Stream!Init

LEMMA FeedKeepsCut ==
  ASSUME Inv, Feed
  PROVE  pos' - Len(pending') + consumed = pos - Len(pending) + consumed
<1>1. /\ input \in Seq(STRING) /\ Len(input) \in Nat /\ pos \in 0 .. Len(input)
      /\ pending \in Seq(STRING) /\ Len(pending) \in Nat /\ consumed \in Nat
  BY StreamsAssumption, LenProperties DEF Inv, TypeOK
<1>2. PICK n \in pos .. Len(input) : /\ pending' = pending \o SubSeq(input, pos + 1, n)
                                     /\ pos' = n
  BY DEF Feed
<1>3. pos + 1 \in Nat \ {0} /\ n \in 0 .. Len(input) /\ n \in Nat
  BY ONLY <1>1
<1>4. Len(pending') = Len(pending) + (n - pos)
  <2>1. /\ SubSeq(input, pos + 1, n) \in Seq(STRING)
        /\ Len(SubSeq(input, pos + 1, n)) = IF pos + 1 <= n THEN n - (pos + 1) + 1 ELSE 0
    BY ONLY <1>1, <1>3, WindowType
  <2>2. Len(pending') = Len(pending) + Len(SubSeq(input, pos + 1, n))
    BY ONLY <1>1, <1>2, <2>1, ConcatProperties
  <2>3. (IF pos + 1 <= n THEN n - (pos + 1) + 1 ELSE 0) = n - pos
    BY ONLY <1>1, <1>3
  <2> QED BY ONLY <2>1, <2>2, <2>3
<1>5. pos' = n
  BY <1>2
<1> QED BY ONLY <1>1, <1>3, <1>4, <1>5

LEMMA FeedArrives == ASSUME Inv, Inv', Feed PROVE Stream!Next
<1>1. /\ input \in Seq(STRING) /\ Len(input) \in Nat /\ pos \in 0 .. Len(input)
      /\ pending \in Seq(STRING) /\ Len(pending) \in Nat /\ consumed \in Nat
  BY StreamsAssumption, LenProperties DEF Inv, TypeOK
<1>2. PICK n \in pos .. Len(input) : /\ pending' = pending \o SubSeq(input, pos + 1, n)
                                     /\ pos' = n
  BY DEF Feed
<1>3. /\ pos + 1 \in Nat \ {0} /\ n \in 0 .. Len(input) /\ n \in Nat /\ pos \in 0 .. n - 0
      /\ 0 \in Nat /\ 1 \in 1 .. n - 0 + 1 /\ n \in 0 .. Len(input)
      /\ 0 + 1 = 1 /\ 0 + pos = pos /\ 1 \in Nat \ {0}
  BY ONLY <1>1
<1>5. pos' - Len(pending') + consumed = pos - Len(pending) + consumed
  BY FeedKeepsCut
<1>6. SubSeq(SubSeq(input, 1, n), 1, pos) = SubSeq(input, 1, pos)
  <2>1. SubSeq(SubSeq(input, 0 + 1, n), 1, pos) = SubSeq(input, 0 + 1, 0 + pos)
    BY ONLY <1>1, <1>3, WindowOfWindow
  <2> QED BY ONLY <1>3, <2>1
<1>7. Len(SubSeq(input, 1, pos)) = pos
  <2>1. Len(SubSeq(input, 1, pos)) = IF 1 <= pos THEN pos - 1 + 1 ELSE 0
    BY ONLY <1>1, <1>3, WindowType
  <2> QED BY ONLY <1>1, <2>1
<1>8. Stream!Arrive
  BY <1>2, <1>5, <1>6, <1>7 DEF Feed, Stream!Arrive
<1> QED BY <1>8 DEF Stream!Next

\* Every step takes in a piece, takes one line out of the part ahead, or
\* changes neither the lines nor the place up to which they reach.
Cut == pos - Len(pending) + consumed
TakesLine(i) == /\ Cut' = Cut + i + 1
                /\ lines' \o found' = Append(lines \o found, Line(Unseen, i))
                /\ UNCHANGED <<input, pos>>
NoLine       == /\ Cut' = Cut /\ lines' \o found' = lines \o found
                /\ UNCHANGED <<input, pos>>

LEMMA StepKinds ==
  ASSUME Inv, Inv', [Next]_vars
  PROVE  Feed \/ NoLine \/ \E i \in First(Unseen) : TakesLine(i)
<1>1. PICK d \in Nat : Ahead(d)
  BY AheadExists
<1>2. /\ found \in Seq(Seq(STRING)) /\ lines \in Seq(Seq(STRING)) /\ lines' \in Seq(Seq(STRING))
      /\ pos \in Nat /\ consumed \in Nat /\ Len(pending) \in Nat
  BY LenProperties DEF Inv, TypeOK
<1>3. d = Cut /\ Cut = pos - Len(pending) + consumed /\ d <= pos
  BY <1>1 DEF Ahead, Cut
<1>4. ASSUME NEW i \in First(Unseen)
      PROVE  /\ i \in Nat /\ Line(Unseen, i) \in Seq(STRING)
             /\ Len(Behind(Unseen, i)) = pos - d - i - 1
  BY <1>1, NextLine
<1>a. Cut' = pos' - Len(pending') + consumed'
  BY DEF Cut
<1>5. ASSUME NEW ok \in BOOLEAN, CEmit(ok) PROVE NoLine \/ \E i \in First(Unseen) : TakesLine(i)
  <2>1. /\ lang = "c" /\ CrlfHere /\ found = <<>> /\ consumed = 0
        /\ UNCHANGED <<input, pos, consumed, found>>
    BY <1>5 DEF CEmit, InLoop, Inv, Locals
  <2> DEFINE i == index + 1
  <2>2. /\ i \in First(Unseen)
        /\ \/ pending' = Behind(Unseen, i) /\ lines' = Append(lines, Line(Unseen, i))
           \/ UNCHANGED <<pending, lines>>
    BY <1>5, <2>1, CFindsTheFirst DEF CEmit
  <2> HIDE DEF i
  <2>3. CASE UNCHANGED <<pending, lines>>
    BY <2>1, <2>3 DEF NoLine, Cut
  <2>4. CASE pending' = Behind(Unseen, i) /\ lines' = Append(lines, Line(Unseen, i))
    <3>1. Cut' = Cut + i + 1
      <4>1. Len(pending') = pos - d - i - 1 /\ i \in Nat /\ pos' = pos /\ consumed' = 0
        BY <1>4, <2>1, <2>2, <2>4
      <4>2. Cut' = pos - (pos - d - i - 1) + 0
        BY ONLY <1>a, <4>1
      <4>3. pos - (pos - d - i - 1) + 0 = d + i + 1
        BY ONLY <1>1, <1>2, <4>1
      <4> QED BY ONLY <1>3, <4>2, <4>3
    <3>2. lines' \o found' = Append(lines \o found, Line(Unseen, i))
      <4>1. lines' \o <<>> = lines' /\ lines \o <<>> = lines
        BY ONLY <1>2, ConcatEmptySeq
      <4> QED BY <2>1, <2>4, <4>1
    <3> QED BY <2>1, <2>2, <3>1, <3>2 DEF TakesLine
  <2> QED BY <2>2, <2>3, <2>4
<1>b. ASSUME NEW i \in First(Unseen), lines' = lines, found' = Append(found, Line(Unseen, i))
      PROVE  lines' \o found' = Append(lines \o found, Line(Unseen, i))
  <2>1. Line(Unseen, i) \in Seq(STRING)
    BY <1>4
  <2> QED BY <1>2, <1>b, <2>1, AppendToConcat
<1>6. CASE GoTake
  <2>1. /\ Unseen = pending /\ consumed = 0 /\ UNCHANGED <<input, pos, consumed, lines>>
    BY <1>6, AllAhead DEF GoTake, InLoop, Inv, Locals
  <2>2. PICK i \in First(Unseen) :
          found' = Append(found, Line(Unseen, i)) /\ pending' = Behind(Unseen, i)
    BY <1>6, <2>1 DEF GoTake
  <2>3. Cut' = Cut + i + 1
    <3>1. Len(pending') = pos - d - i - 1 /\ i \in Nat /\ pos' = pos /\ consumed' = 0
      BY <1>4, <2>1, <2>2
    <3>2. Cut' = pos - (pos - d - i - 1) + 0
      BY ONLY <1>a, <3>1
    <3>3. pos - (pos - d - i - 1) + 0 = d + i + 1
      BY ONLY <1>1, <1>2, <3>1
    <3> QED BY ONLY <1>3, <3>2, <3>3
  <2> QED BY <1>b, <2>1, <2>2, <2>3 DEF TakesLine
<1>7. CASE RustTake
  <2>1. UNCHANGED <<input, pos, pending, lines>>
    BY <1>7 DEF RustTake
  <2>2. PICK i \in First(Unseen) :
          found' = Append(found, Line(Unseen, i)) /\ consumed' = consumed + i + 1
    BY <1>7 DEF RustTake
  <2>3. Cut' = Cut + i + 1
    <3>1. i \in Nat
      BY <1>4
    <3> QED BY ONLY <1>2, <1>3, <1>a, <2>1, <2>2, <3>1
  <2> QED BY <1>b, <2>1, <2>2, <2>3 DEF TakesLine
<1>8. CASE Return
  <2>1. /\ UNCHANGED <<input, pos>> /\ pending' = Unseen /\ consumed' = 0
        /\ lines' = lines \o found /\ found' = <<>>
    BY <1>8 DEF Return
  <2>2. Len(Unseen) = pos - d
    BY <1>1 DEF Ahead
  <2>3. Cut' = Cut
    <3>1. Len(pending') = pos - d
      BY <2>1, <2>2
    <3> QED BY ONLY <1>1, <1>2, <1>3, <1>a, <2>1, <3>1
  <2>4. lines' \o found' = lines \o found
    BY ONLY <1>2, <2>1, ConcatEmptySeq
  <2> QED BY <2>1, <2>3, <2>4 DEF NoLine
<1>9. CASE CNoMemory \/ CScan \/ UNCHANGED vars
  BY <1>9 DEF CNoMemory, CScan, vars, NoLine, Cut
<1> QED BY <1>5, <1>6, <1>7, <1>8, <1>9 DEF Next

LEMMA StreamStep ==
  ASSUME Inv, Inv', [Next]_vars
  PROVE  [Stream!Next]_<<SubSeq(input, 1, pos), pos - Len(pending) + consumed, lines \o found>>
<1>1. PICK d \in Nat : Ahead(d)
  BY AheadExists
<1>2. CASE Feed
  BY <1>2, FeedArrives
<1>3. CASE NoLine
  BY <1>3 DEF NoLine, Cut
<1>4. ASSUME NEW i \in First(Unseen), TakesLine(i) PROVE Stream!Next
  <2>1. pos' - Len(pending') + consumed' = d + i + 1
    BY <1>1, <1>4 DEF Ahead, TakesLine, Cut
  <2> QED BY <1>1, <1>4, <2>1, TakesOne DEF TakesLine
<1> QED BY <1>2, <1>3, <1>4, StepKinds

\* Whatever the cuts and failures, the readers cut the stream at its CR LF
\* pairs, from the left, and deliver each line once.
THEOREM LinesAreDelivered == Spec => DeliversTheLines
BY Invariance, StreamInit, StreamStep, PTL DEF Spec, DeliversTheLines, Stream!Spec

-----------------------------------------------------------------------------
\* The CR LF pairs of the first n bytes.
Pairs(n) == {i \in 1 .. n - 1 : input[i] = CR /\ input[i + 1] = LF}

\* There are as many lines as pairs up to the cut, which parts none.
Counted == /\ Len(lines \o found) = Cardinality(Pairs(Cut))
           /\ Cut = 0 \/ input[Cut] # CR

LEMMA PairsFinite == ASSUME NEW n \in Nat PROVE IsFiniteSet(Pairs(n))
<1>1. IsFiniteSet(1 .. n - 1)
  BY FS_Interval
<1> QED BY <1>1, FS_Subset DEF Pairs

LEMMA CountsOne ==
  ASSUME Inv, Counted, NEW i \in First(Unseen), TakesLine(i)
  PROVE  Counted'
<1>1. PICK d \in Nat : Ahead(d)
  BY AheadExists
<1>2. d = Cut /\ pos \in Nat /\ d <= pos /\ Cut' = d + i + 1 /\ input' = input
  BY <1>1 DEF Ahead, Cut, TakesLine
<1>3. /\ i \in 1 .. pos - d - 1 /\ input[d + i] = CR /\ input[d + i + 1] = LF
      /\ \A j \in d + 1 .. d + i - 1 : ~(input[j] = CR /\ input[j + 1] = LF)
      /\ Line(Unseen, i) \in Seq(STRING)
  BY <1>1, NextLine
<1>4. i \in Nat \ {0} /\ d + i + 1 \in Nat /\ (d + i) + 1 = d + i + 1
  BY ONLY <1>1, <1>2, <1>3
<1>5. Pairs(d + i + 1) = Pairs(d) \cup {d + i}
  <2>1. ASSUME NEW k \in Pairs(d + i + 1) PROVE k \in Pairs(d) \/ k = d + i
    <3>1. k \in 1 .. d + i /\ input[k] = CR /\ input[k + 1] = LF
      BY ONLY <1>1, <1>4, <2>1 DEF Pairs
    <3>2. k # d
      BY <1>2, <3>1 DEF Counted
    <3>3. k \notin d + 1 .. d + i - 1
      BY <1>3, <3>1
    <3>4. k \in 1 .. d - 1 \/ k = d + i
      BY ONLY <1>1, <1>4, <3>1, <3>2, <3>3
    <3> QED BY ONLY <3>1, <3>4 DEF Pairs
  <2>2. Pairs(d) \subseteq Pairs(d + i + 1)
    BY ONLY <1>1, <1>4 DEF Pairs
  <2>3. d + i \in Pairs(d + i + 1)
    BY ONLY <1>1, <1>3, <1>4 DEF Pairs
  <2> QED BY ONLY <2>1, <2>2, <2>3
<1>6. d + i \notin Pairs(d)
  BY ONLY <1>1, <1>4 DEF Pairs
<1>7. Cardinality(Pairs(d + i + 1)) = Cardinality(Pairs(d)) + 1
  BY ONLY <1>1, <1>5, <1>6, PairsFinite, FS_AddElement
<1>8. Len(lines' \o found') = Len(lines \o found) + 1
  <2>1. lines \o found \in Seq(Seq(STRING))
    BY ConcatProperties DEF Inv, TypeOK
  <2> QED BY <1>3, <2>1, AppendProperties DEF TakesLine
<1>9. Pairs(d + i + 1)' = Pairs(d + i + 1)
  BY <1>2 DEF Pairs
<1>10. LF # CR
  BY DEF LF, CR
<1> QED BY <1>2, <1>3, <1>7, <1>8, <1>10 DEF Counted, Pairs

\* A call that has returned without an error left no pair in the buffer.
Quiet == ~feeding /\ rc = 0 => Crlfs(pending) = {}

LEMMA CountInit == Init => Counted /\ Quiet
<1> SUFFICES ASSUME Init PROVE Counted /\ Quiet OBVIOUS
<1>1. Cut = 0 /\ Pairs(0) = {}
  <2>1. pos = 0 /\ Len(pending) = 0 /\ consumed = 0
    BY EmptySeq DEF Init
  <2>2. Cut = 0
    BY ONLY <2>1 DEF Cut
  <2> QED BY ONLY <2>2 DEF Pairs
<1>4. lines \o found = <<>>
  <2>1. <<>> \in Seq(Seq(STRING)) /\ lines = <<>> /\ found = <<>>
    BY EmptySeq DEF Init
  <2> QED BY ONLY <2>1, ConcatEmptySeq
<1>2. Len(<<>>) = 0 /\ Cardinality({}) = 0
  BY EmptySeq, FS_EmptySet
<1>3. Crlfs(<<>>) = {}
  BY DEF Crlfs
<1> QED BY <1>1, <1>2, <1>3, <1>4 DEF Init, Counted, Quiet

LEMMA CountStep ==
  ASSUME Inv, Inv', [Next]_vars, Counted, Quiet
  PROVE  Counted' /\ Quiet'
<1>1. Counted'
  <2>1. CASE Feed
    <3>1. UNCHANGED <<input, lines, found>> /\ Cut' = Cut
      BY <2>1, FeedKeepsCut DEF Feed, Cut
    <3> QED BY <3>1 DEF Counted, Pairs
  <2>2. CASE NoLine
    BY <2>2 DEF NoLine, Counted, Pairs
  <2>3. ASSUME NEW i \in First(Unseen), TakesLine(i) PROVE Counted'
    BY <2>3, CountsOne
  <2> QED BY <2>1, <2>2, <2>3, StepKinds
<1>2. Quiet'
  <2>1. CASE Return
    <3>1. pending' = Unseen /\ Crlfs(Unseen) = {}
      BY <2>1, EndedMeansNone DEF Return
    <3> QED BY ONLY <3>1 DEF Quiet, Crlfs
  <2>2. CASE Feed \/ CNoMemory \/ CScan \/ GoTake \/ RustTake
    BY <2>2 DEF Feed, CNoMemory, CScan, GoTake, RustTake, InLoop, Quiet
  <2>3. ASSUME NEW ok \in BOOLEAN, CEmit(ok) PROVE Quiet'
    BY <2>3 DEF CEmit, Quiet
  <2>4. CASE UNCHANGED vars
    BY <2>4 DEF vars, Quiet, Crlfs
  <2> QED BY <2>1, <2>2, <2>3, <2>4 DEF Next
<1> QED BY <1>1, <1>2

\* No pair starts at the cut or behind it, so the lines are all there are.
LEMMA QuietMeansAll == ASSUME Inv, Counted, Quiet PROVE NothingHeldBack
<1> SUFFICES ASSUME ~feeding, rc = 0 PROVE Len(lines) = Cardinality(Pairs(pos))
  BY DEF NothingHeldBack, Pairs
<1>1. PICK d \in Nat : Ahead(d)
  BY AheadExists
<1>2. /\ d = Cut /\ pos \in Nat /\ d <= pos /\ pos \in 0 .. Len(input) /\ Len(input) \in Nat
      /\ input \in Seq(STRING) /\ Len(Unseen) = pos - d /\ Unseen = SubSeq(input, d + 1, pos)
  BY <1>1 DEF Ahead, Cut
<1>3. Unseen = pending /\ lines \o found = lines /\ Crlfs(pending) = {}
  <2>1. consumed = 0 /\ found = <<>> /\ pending \in Seq(STRING) /\ lines \in Seq(Seq(STRING))
    BY DEF Inv, Locals, TypeOK
  <2> QED BY <2>1, SubSeqFull, ConcatEmptySeq DEF Quiet, Unseen
<1>4. ASSUME NEW k \in d + 1 .. pos - 1 PROVE ~(input[k] = CR /\ input[k + 1] = LF)
  <2>1. /\ k - d \in 1 .. pos - d /\ (k - d) + 1 \in 1 .. pos - d
        /\ d + (k - d) = k /\ d + ((k - d) + 1) = k + 1 /\ k - d \in 1 .. Len(Unseen) - 1
    BY ONLY <1>1, <1>2, <1>4
  <2>2. \A j \in 1 .. pos - d : Unseen[j] = input[d + j]
    BY ONLY <1>1, <1>2, WindowElement
  <2>3. Unseen[k - d] = input[k] /\ Unseen[(k - d) + 1] = input[k + 1]
    BY ONLY <2>1, <2>2
  <2>4. k - d \notin Crlfs(Unseen)
    BY ONLY <1>3
  <2> QED BY ONLY <2>1, <2>3, <2>4 DEF Crlfs
<1>5. Pairs(pos) = Pairs(d)
  <2>1. ASSUME NEW k \in Pairs(pos) PROVE k \in Pairs(d)
    <3>1. k \in 1 .. pos - 1 /\ input[k] = CR /\ input[k + 1] = LF
      BY ONLY <2>1 DEF Pairs
    <3>2. k # d
      BY <1>2, <3>1 DEF Counted
    <3>3. k \notin d + 1 .. pos - 1
      BY <1>4, <3>1
    <3>4. k \in 1 .. d - 1
      BY ONLY <1>1, <1>2, <3>1, <3>2, <3>3
    <3> QED BY ONLY <3>1, <3>4 DEF Pairs
  <2>2. Pairs(d) \subseteq Pairs(pos)
    BY ONLY <1>1, <1>2 DEF Pairs
  <2> QED BY ONLY <2>1, <2>2
<1> QED BY <1>2, <1>3, <1>5 DEF Counted

\* After a call that succeeds the caller has as many lines as there are CR LF
\* pairs in all bytes handed in, in C because the index has looked at each place
\* where a pair can start and at none behind the length.
THEOREM NothingIsHeldBack == Spec => []NothingHeldBack
BY Invariance, CountInit, CountStep, QuietMeansAll, PTL DEF Spec
=============================================================================
