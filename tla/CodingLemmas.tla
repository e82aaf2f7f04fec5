---------------------------- MODULE CodingLemmas ----------------------------
(***************************************************************************)
(* What the digit loops compute, for every text and every machine word,    *)
(* and the chunked coding as equations: the facts about recursive          *)
(* definitions that the decoder proofs rest on.                            *)
(***************************************************************************)
EXTENDS ChunkedCoding, StreamLemmas

Bases == {10, 16}

LEMMA DigitValues ==
  /\ \A b \in HexDigit : DigitValue(b) \in 0 .. 15
  /\ DecDigit \subseteq HexDigit
<1>1. \A b \in HexDigit : \E v \in 0 .. 15 : b \in {LowerHex[v+1], UpperHex[v+1]}
  <2> SUFFICES ASSUME NEW b \in HexDigit
               PROVE  \E v \in 0 .. 15 : b \in {LowerHex[v+1], UpperHex[v+1]}
    OBVIOUS
  <2>1. DOMAIN LowerHex = 1 .. 16 /\ DOMAIN UpperHex = 1 .. 16
    BY DEF LowerHex, UpperHex
  <2>2. \E i \in 1 .. 16 : b \in {LowerHex[i], UpperHex[i]}
    BY <2>1 DEF HexDigit, ToSet
  <2>3. PICK i \in 1 .. 16 : b \in {LowerHex[i], UpperHex[i]}
    BY <2>2
  <2>4. i - 1 \in 0 .. 15 /\ (i - 1) + 1 = i
    OBVIOUS
  <2> QED BY <2>3, <2>4
<1>2. DecDigit \subseteq HexDigit
  <2>1. Len(LowerHex) = 16 /\ LowerHex \in Seq(ToSet(LowerHex))
    <3>1. DOMAIN LowerHex = 1 .. 16 /\ Len(LowerHex) = 16
      BY DEF LowerHex
    <3>2. \A i \in 1 .. 16 : LowerHex[i] \in ToSet(LowerHex)
      BY <3>1 DEF ToSet
    <3>3. LowerHex = [i \in 1 .. 16 |-> LowerHex[i]]
      BY DEF LowerHex
    <3> HIDE DEF LowerHex
    <3> QED BY <3>1, <3>2, <3>3
  <2>2. /\ DOMAIN SubSeq(LowerHex, 1, 10) = 1 .. 10 /\ DOMAIN LowerHex = 1 .. 16
        /\ \A i \in 1 .. 10 : SubSeq(LowerHex, 1, 10)[i] = LowerHex[i]
    BY <2>1
  <2> QED BY <2>2 DEF DecDigit, HexDigit, ToSet
<1> QED BY <1>1, <1>2 DEF DigitValue

\* One step of the digit loop.
Digit(v, b, base, digits) ==
  IF v = BAD \/ b \notin digits THEN BAD
  ELSE IF v > (SIZE_MAX - DigitValue(b)) \div base THEN BAD
  ELSE v * base + DigitValue(b)

LEMMA DigitFits ==
  ASSUME NEW v \in Size \cup {BAD}, NEW b, NEW base \in Bases, NEW digits \in SUBSET HexDigit
  PROVE  /\ Digit(v, b, base, digits) \in Size \cup {BAD}
         /\ v # BAD /\ b \in digits =>
              Digit(v, b, base, digits) = IF v * base + DigitValue(b) <= SIZE_MAX
                                          THEN v * base + DigitValue(b) ELSE BAD
<1>1. CASE v = BAD \/ b \notin digits
  BY <1>1 DEF Digit
<1>2. CASE ~(v = BAD \/ b \notin digits)
  <2> DEFINE d == DigitValue(b)
  <2>1. d \in 0 .. 15 /\ v \in Nat /\ v <= SIZE_MAX /\ SIZE_MAX \in Nat /\ SIZE_MAX >= 15
    BY <1>2, DigitValues, SizeMaxAssumption DEF Size
  <2>2. Digit(v, b, base, digits) = IF v > (SIZE_MAX - d) \div base THEN BAD ELSE v * base + d
    BY <1>2 DEF Digit
  <2> HIDE DEF d
  <2>3. /\ v * base + d \in Nat
        /\ v > (SIZE_MAX - d) \div base <=> v * base + d > SIZE_MAX
    <3>1. CASE base = 10
      BY <2>1, <3>1
    <3>2. CASE base = 16
      BY <2>1, <3>2
    <3> QED BY <3>1, <3>2 DEF Bases
  <2> QED BY <2>1, <2>2, <2>3 DEF d, Size
<1> QED BY <1>1, <1>2

LEMMA CheckedSteps ==
  ASSUME NEW text \in Seq(STRING), NEW base \in Bases, NEW digits \in SUBSET HexDigit
  PROVE  \E w \in [0 .. Len(text) -> Size \cup {BAD}] :
           /\ w[0] = IF text = <<>> THEN BAD ELSE 0
           /\ w[Len(text)] = CheckedNumber(text, base, digits)
           /\ \A i \in 1 .. Len(text) : w[i] = Digit(w[i-1], text[i], base, digits)
<1> DEFINE n  == Len(text)
           T  == Size \cup {BAD}
           b0 == IF text = <<>> THEN BAD ELSE 0
           g  == [p \in (1 .. n) \X T |-> Digit(p[2], text[p[1]], base, digits)]
           iter[s \in SUBSET DOMAIN text] ==
             IF s = {} THEN b0
             ELSE LET v == iter[s \ {Max(s)}] IN
                  IF v = BAD \/ text[Max(s)] \notin digits THEN BAD
                  ELSE IF v > (SIZE_MAX - DigitValue(text[Max(s)])) \div base THEN BAD
                  ELSE v * base + DigitValue(text[Max(s)])
<1>1. CheckedNumber(text, base, digits) = iter[DOMAIN text]
  BY DEF CheckedNumber, FoldLeft, MapThenFoldSet
<1>2. n \in Nat /\ DOMAIN text = 1 .. n /\ b0 \in T
  BY LenProperties, SizeMaxAssumption DEF Size
<1>3. g \in [(1 .. n) \X T -> T]
  <2> HIDE DEF T, n
  <2>1. \A p \in (1 .. n) \X T : Digit(p[2], text[p[1]], base, digits) \in T
    BY DigitFits DEF T
  <2> QED BY <2>1
<1>4. PICK f \in [SUBSET (1 .. n) -> T] : Folded(f, n, b0, g)
  <2> HIDE DEF T, n, b0, g, iter
  <2>1. Folding(n, T, b0, g)
    BY <1>2, <1>3 DEF Folding
  <2> QED BY <2>1, FoldingFunction
<1>5. f = [s \in SUBSET DOMAIN text |->
             IF s = {} THEN b0
             ELSE LET v == f[s \ {Max(s)}] IN
                  IF v = BAD \/ text[Max(s)] \notin digits THEN BAD
                  ELSE IF v > (SIZE_MAX - DigitValue(text[Max(s)])) \div base THEN BAD
                  ELSE v * base + DigitValue(text[Max(s)])]
  <2> SUFFICES ASSUME NEW s \in SUBSET (1 .. n), s # {}
               PROVE  f[s] = Digit(f[s \ {Max(s)}], text[Max(s)], base, digits)
    BY <1>2, <1>4 DEF Digit, Folded
  <2>1. Max(s) \in 1 .. n
    BY <1>2, MaxFacts
  <2>2. s \ {Max(s)} \in SUBSET (1 .. n) /\ f[s \ {Max(s)}] \in T
    BY <1>4
  <2> QED BY <1>4, <2>1, <2>2 DEF Folded
<1>6. iter = [s \in SUBSET DOMAIN text |->
             IF s = {} THEN b0
             ELSE LET v == iter[s \ {Max(s)}] IN
                  IF v = BAD \/ text[Max(s)] \notin digits THEN BAD
                  ELSE IF v > (SIZE_MAX - DigitValue(text[Max(s)])) \div base THEN BAD
                  ELSE v * base + DigitValue(text[Max(s)])]
  BY <1>5, Zenon
<1> HIDE DEF iter
<1>7. iter[{}] = b0
  BY <1>6
<1>8. ASSUME NEW s \in SUBSET (1 .. n), s # {}, iter[s \ {Max(s)}] \in T
      PROVE  iter[s] = g[<<Max(s), iter[s \ {Max(s)}]>>]
  <2>1. Max(s) \in 1 .. n
    BY <1>2, <1>8, MaxFacts
  <2>2. iter[s] = Digit(iter[s \ {Max(s)}], text[Max(s)], base, digits)
    BY <1>2, <1>6, <1>8 DEF Digit
  <2> QED BY <1>8, <2>1, <2>2
<1>9. PICK w \in [0 .. n -> T] :
        /\ w[0] = b0 /\ w[n] = iter[1 .. n]
        /\ \A i \in 1 .. n : w[i] = g[<<i, w[i - 1]>>]
  <2> HIDE DEF T, n, b0, g
  <2>1. Folding(n, T, b0, g) /\ Folds(iter, n, T, b0, g)
    BY <1>2, <1>3, <1>7, <1>8 DEF Folding, Folds
  <2> QED BY <2>1, FoldSteps
<1>10. \A i \in 1 .. n : w[i] = Digit(w[i - 1], text[i], base, digits)
  <2> SUFFICES ASSUME NEW i \in 1 .. n PROVE w[i] = Digit(w[i - 1], text[i], base, digits)
    OBVIOUS
  <2>1. i - 1 \in 0 .. n /\ w[i - 1] \in T
    BY <1>2, <1>9
  <2> QED BY <1>9, <2>1
<1> QED BY <1>1, <1>2, <1>9, <1>10

LEMMA NumberSteps ==
  ASSUME NEW text \in Seq(STRING), ToSet(text) \subseteq HexDigit, NEW base \in Bases
  PROVE  \E w \in [0 .. Len(text) -> Nat] :
           /\ w[0] = 0 /\ w[Len(text)] = Number(text, base)
           /\ \A i \in 1 .. Len(text) :
                text[i] \in HexDigit /\ w[i] = w[i-1] * base + DigitValue(text[i])
<1> DEFINE n == Len(text)
           g == [p \in (1 .. n) \X Nat |-> p[2] * base + DigitValue(text[p[1]])]
           iter[s \in SUBSET DOMAIN text] ==
             IF s = {} THEN 0
             ELSE iter[s \ {Max(s)}] * base + DigitValue(text[Max(s)])
<1>1. Number(text, base) = iter[DOMAIN text]
  BY DEF Number, FoldLeft, MapThenFoldSet
<1>2. n \in Nat /\ DOMAIN text = 1 .. n
  BY LenProperties
<1>a. \A i \in 1 .. n : text[i] \in HexDigit /\ DigitValue(text[i]) \in Nat
  BY <1>2, DigitValues DEF ToSet
<1>b. \A v \in Nat : v * base \in Nat
  BY DEF Bases
<1>3. g \in [(1 .. n) \X Nat -> Nat]
  <2> SUFFICES ASSUME NEW p \in (1 .. n) \X Nat
               PROVE  p[2] * base + DigitValue(text[p[1]]) \in Nat
    OBVIOUS
  <2>1. p[1] \in 1 .. n /\ p[2] \in Nat
    OBVIOUS
  <2>2. p[2] * base \in Nat /\ DigitValue(text[p[1]]) \in Nat
    BY <1>a, <1>b, <2>1
  <2> QED BY <2>2
<1>c. Folding(n, Nat, 0, g)
  BY <1>2, <1>3 DEF Folding
<1>4. PICK f \in [SUBSET (1 .. n) -> Nat] : Folded(f, n, 0, g)
  <2> HIDE DEF n, g
  <2> QED BY <1>c, FoldingFunction
<1>5. f = [s \in SUBSET DOMAIN text |->
             IF s = {} THEN 0
             ELSE f[s \ {Max(s)}] * base + DigitValue(text[Max(s)])]
  <2> SUFFICES ASSUME NEW s \in SUBSET (1 .. n), s # {}
               PROVE  f[s] = f[s \ {Max(s)}] * base + DigitValue(text[Max(s)])
    BY <1>2, <1>4 DEF Folded
  <2>1. Max(s) \in 1 .. n
    BY <1>2, MaxFacts
  <2>2. s \ {Max(s)} \in SUBSET (1 .. n) /\ f[s \ {Max(s)}] \in Nat
    BY <1>4
  <2> QED BY <1>4, <2>1, <2>2 DEF Folded
<1>6. iter = [s \in SUBSET DOMAIN text |->
             IF s = {} THEN 0
             ELSE iter[s \ {Max(s)}] * base + DigitValue(text[Max(s)])]
  BY <1>5, Zenon
<1> HIDE DEF iter
<1>7. Folds(iter, n, Nat, 0, g)
  <2>1. iter[{}] = 0
    BY <1>6
  <2>2. ASSUME NEW s \in SUBSET (1 .. n), s # {}, iter[s \ {Max(s)}] \in Nat
        PROVE  iter[s] = g[<<Max(s), iter[s \ {Max(s)}]>>]
    <3>1. Max(s) \in 1 .. n
      BY <1>2, <2>2, MaxFacts
    <3>2. iter[s] = iter[s \ {Max(s)}] * base + DigitValue(text[Max(s)])
      BY <1>2, <1>6, <2>2
    <3> QED BY <2>2, <3>1, <3>2
  <2> QED BY <2>1, <2>2 DEF Folds
<1>8. PICK w \in [0 .. n -> Nat] :
        /\ w[0] = 0 /\ w[n] = iter[1 .. n]
        /\ \A i \in 1 .. n : w[i] = g[<<i, w[i - 1]>>]
  <2> HIDE DEF n, g
  <2> QED BY <1>c, <1>7, FoldSteps
<1>9. \A i \in 1 .. n : w[i] = w[i - 1] * base + DigitValue(text[i])
  <2> SUFFICES ASSUME NEW i \in 1 .. n PROVE w[i] = w[i - 1] * base + DigitValue(text[i])
    OBVIOUS
  <2>1. i - 1 \in 0 .. n /\ w[i - 1] \in Nat
    BY <1>2, <1>8
  <2> QED BY <1>8, <2>1
<1> QED BY <1>1, <1>2, <1>8, <1>9, <1>a

\* The digit loop never wraps: it computes the number the text denotes, or
\* refuses a text that is no number or denotes one above SIZE_MAX.
LEMMA CheckedNumberIsNumber ==
  ASSUME NEW text \in Seq(STRING), NEW base \in Bases, NEW digits \in SUBSET HexDigit
  PROVE  CheckedNumber(text, base, digits) =
           IF AllIn(text, digits) /\ Number(text, base) <= SIZE_MAX
           THEN Number(text, base) ELSE BAD
<1> DEFINE n == Len(text)
<1>1. PICK w \in [0 .. n -> Size \cup {BAD}] :
        /\ w[0] = IF text = <<>> THEN BAD ELSE 0
        /\ w[n] = CheckedNumber(text, base, digits)
        /\ \A i \in 1 .. n : w[i] = Digit(w[i-1], text[i], base, digits)
  BY CheckedSteps
<1>2. /\ n \in Nat /\ DOMAIN text = 1 .. n /\ (n = 0 <=> text = <<>>)
      /\ ToSet(text) = {text[i] : i \in 1 .. n} /\ SIZE_MAX \in Nat
  BY LenProperties, SizeMaxAssumption DEF ToSet
<1>3. CASE ~AllIn(text, digits)
  <2>1. PICK k \in 0 .. n : w[k] = BAD
    <3>1. CASE text = <<>>
      BY <1>1, <1>2, <3>1
    <3>2. CASE text # <<>>
      <4>1. PICK k \in 1 .. n : text[k] \notin digits
        BY <1>2, <1>3, <3>2 DEF AllIn
      <4> QED BY <1>1, <4>1 DEF Digit
    <3> QED BY <3>1, <3>2
  <2> DEFINE G == {i \in Nat : k + i <= n => w[k + i] = BAD}
  <2>2. 0 \in G
    BY <2>1
  <2>3. ASSUME NEW i \in Nat, i \in G PROVE i + 1 \in G
    <3> SUFFICES ASSUME k + (i + 1) <= n PROVE w[k + (i + 1)] = BAD
      OBVIOUS
    <3>1. k + (i + 1) \in 1 .. n /\ (k + (i + 1)) - 1 = k + i /\ w[k + i] = BAD
      BY <2>3, <1>2
    <3> QED BY <1>1, <3>1 DEF Digit
  <2>4. \A i \in Nat : i \in G
    <3> HIDE DEF G
    <3> QED BY <2>2, <2>3, Induction
  <2>5. n - k \in Nat /\ k + (n - k) = n
    BY <1>2
  <2>6. w[n] = BAD
    BY <2>4, <2>5
  <2> QED BY <1>1, <1>3, <2>6
<1>4. CASE AllIn(text, digits)
  <2>1. text # <<>> /\ ToSet(text) \subseteq HexDigit /\ \A i \in 1 .. n : text[i] \in digits
    BY <1>2, <1>4 DEF AllIn
  <2>2. PICK v \in [0 .. n -> Nat] :
          /\ v[0] = 0 /\ v[n] = Number(text, base)
          /\ \A i \in 1 .. n :
               text[i] \in HexDigit /\ v[i] = v[i-1] * base + DigitValue(text[i])
    BY <2>1, NumberSteps
  <2> DEFINE G == {i \in Nat : i <= n => w[i] = IF v[i] <= SIZE_MAX THEN v[i] ELSE BAD}
  <2>3. 0 \in G
    BY <1>1, <1>2, <2>1, <2>2
  <2>4. ASSUME NEW i \in Nat, i \in G PROVE i + 1 \in G
    <3> SUFFICES ASSUME i + 1 <= n
                 PROVE  w[i + 1] = IF v[i + 1] <= SIZE_MAX THEN v[i + 1] ELSE BAD
      OBVIOUS
    <3> DEFINE d == DigitValue(text[i + 1])
    <3>1. /\ i + 1 \in 1 .. n /\ (i + 1) - 1 = i /\ i \in 0 .. n
          /\ w[i] = IF v[i] <= SIZE_MAX THEN v[i] ELSE BAD
      BY <2>4, <1>2
    <3>2. /\ v[i] \in Nat /\ w[i] \in Size \cup {BAD} /\ v[i + 1] = v[i] * base + d
          /\ w[i + 1] = Digit(w[i], text[i + 1], base, digits)
          /\ text[i + 1] \in digits
      BY <1>1, <2>1, <2>2, <3>1
    <3>3. d \in Nat
      <4>1. text[i + 1] \in HexDigit
        BY <2>2, <3>1
      <4>2. DigitValue(text[i + 1]) \in 0 .. 15
        BY <4>1, DigitValues
      <4> QED BY <4>2
    <3>4. v[i + 1] \in Nat /\ v[i + 1] >= v[i]
      BY <3>2, <3>3 DEF Bases
    <3>5. CASE v[i] <= SIZE_MAX
      <4>1. w[i] = v[i] /\ w[i] # BAD
        BY <3>1, <3>2, <3>5 DEF BAD
      <4> QED BY <3>2, <4>1, DigitFits
    <3>6. CASE v[i] > SIZE_MAX
      <4>1. w[i] = BAD
        BY <3>1, <3>2, <3>6, <1>2
      <4>2. w[i + 1] = BAD
        BY <3>2, <4>1 DEF Digit
      <4> QED BY <3>2, <3>4, <3>6, <4>2, <1>2
    <3> QED BY <3>2, <3>5, <3>6, <1>2
  <2>5. \A i \in Nat : i \in G
    <3> HIDE DEF G
    <3> QED BY <2>3, <2>4, Induction
  <2>6. w[n] = IF v[n] <= SIZE_MAX THEN v[n] ELSE BAD
    BY <2>5, <1>2
  <2> QED BY <1>1, <1>4, <2>2, <2>6
<1> QED BY <1>3, <1>4

LEMMA NumberType ==
  ASSUME NEW text \in Seq(STRING), AllIn(text, HexDigit) \/ AllIn(text, DecDigit),
         NEW base \in Bases
  PROVE  Number(text, base) \in Nat
<1>1. ToSet(text) \subseteq HexDigit
  BY DigitValues DEF AllIn
<1>2. PICK w \in [0 .. Len(text) -> Nat] : w[Len(text)] = Number(text, base)
  BY <1>1, NumberSteps
<1> QED BY <1>2, LenProperties

\* A decimal number within the limit, as HexSize.
DecSize(v, limit) ==
  IF AllIn(v, DecDigit) /\ Number(v, 10) <= limit THEN Number(v, 10) ELSE BAD

LEMMA SizeType ==
  ASSUME NEW l \in Seq(STRING), NEW limit \in Nat
  PROVE  HexSize(l, limit) \in (0 .. limit) \cup {BAD} /\ DecSize(l, limit) \in (0 .. limit) \cup {BAD}
BY NumberType DEF HexSize, DecSize, Bases

\* What the three languages read in a Content-Length value: the same number
\* syntax, up to the largest value of the type that holds it.
LEMMA LengthValues ==
  ASSUME NEW v \in Seq(STRING)
  PROVE  /\ ParseContentLengthC(v) = DecSize(v, SIZE_MAX)
         /\ ParseContentLengthGo(v) = DecSize(v, SIZE_MAX \div 2)
         /\ ParseContentLengthRust(v) = DecSize(v, SIZE_MAX)
<1>1. CheckedNumber(v, 10, DecDigit) = DecSize(v, SIZE_MAX)
  <2>1. DecDigit \in SUBSET HexDigit /\ 10 \in Bases
    BY DigitValues DEF Bases
  <2> QED BY <2>1, CheckedNumberIsNumber DEF DecSize
<1>2. ParseContentLengthGo(v) = DecSize(v, SIZE_MAX \div 2)
  <2>1. AllIn(v, DecDigit) => Number(v, 10) \in Nat
    BY NumberType DEF Bases
  <2> QED BY <2>1, SizeMaxAssumption DEF ParseContentLengthGo, ParseUint, DecSize, Size, GoInt, BAD
<1> QED BY <1>1, <1>2 DEF ParseContentLengthC, ParseContentLengthRust, DecSize

\* What they read in a chunk size line: C and Go the same hexadecimal syntax,
\* Rust also a number with one leading "+".
Unsigned(l) == IF Len(l) > 1 /\ l[1] = "+" THEN Tail(l) ELSE l

LEMMA SizeLines ==
  ASSUME NEW l \in Seq(STRING)
  PROVE  /\ Unsigned(l) \in Seq(STRING)
         /\ ParseChunkSizeC(l) = HexSize(l, SIZE_MAX)
         /\ FinishChunkSizeGo(l) = HexSize(l, SIZE_MAX \div 2)
         /\ ParseChunkSizeRust(l) = HexSize(Unsigned(l), SIZE_MAX)
<1>1. \A t \in Seq(STRING) : CheckedNumber(t, 16, HexDigit) = HexSize(t, SIZE_MAX)
  <2>1. HexDigit \in SUBSET HexDigit /\ 16 \in Bases
    BY DEF Bases
  <2> QED BY <2>1, CheckedNumberIsNumber DEF HexSize
<1>2. FinishChunkSizeGo(l) = HexSize(l, SIZE_MAX \div 2)
  <2>1. AllIn(l, HexDigit) => Number(l, 16) \in Nat
    BY NumberType DEF Bases
  <2> QED BY <2>1, SizeMaxAssumption DEF FinishChunkSizeGo, ParseUint, HexSize, Size, GoInt, BAD
<1>3. /\ Unsigned(l) \in Seq(STRING) /\ (Len(l) > 1 => l # <<>>)
      /\ Len(l) > 1 => \A i \in 2 .. Len(l) : i - 1 \in DOMAIN Tail(l) /\ Tail(l)[i - 1] = l[i]
  <2>1. CASE Len(l) > 1
    <3>1. l # <<>>
      BY <2>1
    <3>2. /\ Tail(l) \in Seq(STRING) /\ Len(Tail(l)) = Len(l) - 1
          /\ \A i \in 1 .. Len(Tail(l)) : Tail(l)[i] = l[i + 1]
      BY <3>1, HeadTailProperties
    <3>3. \A i \in 2 .. Len(l) : i - 1 \in 1 .. Len(Tail(l)) /\ (i - 1) + 1 = i
      BY <3>2, LenProperties
    <3> QED BY <3>1, <3>2, <3>3, LenProperties DEF Unsigned
  <2> QED BY <2>1 DEF Unsigned
<1>4. ASSUME l = <<>> \/ ";" \in ToSet(l) PROVE HexSize(Unsigned(l), SIZE_MAX) = BAD
  <2>1. CASE l = <<>>
    <3>1. Unsigned(l) = <<>>
      BY <2>1 DEF Unsigned
    <3> QED BY <3>1 DEF HexSize, AllIn
  <2>2. CASE ";" \in ToSet(l)
    <3>1. ";" \notin HexDigit
      <4>1. \A i \in 1 .. 16 : LowerHex[i] # ";" /\ UpperHex[i] # ";"
        <5>1. \A i \in 1 .. 16 :
                \/ i = 1 \/ i = 2 \/ i = 3 \/ i = 4 \/ i = 5 \/ i = 6 \/ i = 7 \/ i = 8
                \/ i = 9 \/ i = 10 \/ i = 11 \/ i = 12 \/ i = 13 \/ i = 14 \/ i = 15 \/ i = 16
          OBVIOUS
        <5>2. /\ LowerHex[1] # ";" /\ LowerHex[2] # ";" /\ LowerHex[3] # ";" /\ LowerHex[4] # ";"
              /\ LowerHex[5] # ";" /\ LowerHex[6] # ";" /\ LowerHex[7] # ";" /\ LowerHex[8] # ";"
              /\ LowerHex[9] # ";" /\ LowerHex[10] # ";" /\ LowerHex[11] # ";" /\ LowerHex[12] # ";"
              /\ LowerHex[13] # ";" /\ LowerHex[14] # ";" /\ LowerHex[15] # ";" /\ LowerHex[16] # ";"
          BY DEF LowerHex
        <5>3. DOMAIN LowerHex = 1 .. 16
          BY DEF LowerHex
        <5>4. \A i \in 1 .. 16 :
                UpperHex[i] \in {LowerHex[i], "A", "B", "C", "D", "E", "F"}
          BY <5>3 DEF UpperHex
        <5> QED BY <5>1, <5>2, <5>4
      <4>2. DOMAIN LowerHex = 1 .. 16 /\ DOMAIN UpperHex = 1 .. 16
        BY DEF LowerHex, UpperHex
      <4> QED BY <4>1, <4>2 DEF HexDigit, ToSet
    <3>2. ";" \in ToSet(Unsigned(l))
      <4>1. PICK i \in 1 .. Len(l) : l[i] = ";"
        BY <2>2, LenProperties DEF ToSet
      <4>2. CASE Len(l) > 1 /\ l[1] = "+"
        <5>0. l[i] # l[1] /\ Len(l) \in Nat
          BY <4>1, <4>2, LenProperties
        <5>1. i \in 2 .. Len(l)
          BY <5>0
        <5> QED BY <5>1, <4>1, <4>2, <1>3 DEF Unsigned, ToSet
      <4> QED BY <4>2, <2>2 DEF Unsigned
    <3> QED BY <3>1, <3>2 DEF HexSize, AllIn
  <2> QED BY <1>4, <2>1, <2>2
<1> QED BY <1>1, <1>2, <1>3, <1>4 DEF ParseChunkSizeC, ParseChunkSizeRust, FromStrRadix, Unsigned

-----------------------------------------------------------------------------
(* The first line of a sequence, and what is left behind it. *)

LEMMA FromType ==
  ASSUME NEW t \in Seq(STRING), NEW i \in Nat \ {0}
  PROVE  /\ From(t, i) \in Seq(STRING)
         /\ Len(From(t, i)) = IF i <= Len(t) THEN Len(t) - i + 1 ELSE 0
<1>1. Len(t) \in 0 .. Len(t)
  BY LenProperties
<1> QED BY <1>1, WindowType DEF From

LEMMA LineEndFacts ==
  ASSUME NEW t \in Seq(STRING)
  PROVE  /\ LineEnd(t) \in 1 .. Len(t) + 1
         /\ LineEnd(t) <= Len(t) => t[LineEnd(t)] \in {CR, LF}
         /\ \A i \in 1 .. LineEnd(t) - 1 : t[i] \notin {CR, LF}
<1> DEFINE ends == {j \in DOMAIN t : t[j] \in {CR, LF}}
<1>1. DOMAIN t = 1 .. Len(t) /\ Len(t) \in Nat
  BY LenProperties
<1>2. LineEnd(t) = IF ends = {} THEN Len(t) + 1 ELSE Min(ends)
  BY DEF LineEnd
<1>3. \A i \in 1 .. Len(t) : t[i] \in {CR, LF} => i \in ends
  BY <1>1
<1>4. CASE ends = {}
  BY <1>1, <1>2, <1>3, <1>4
<1>5. CASE ends # {}
  <2>1. ends \in SUBSET Nat
    BY <1>1
  <2>2. \A e \in ends : e \in 1 .. Len(t) /\ t[e] \in {CR, LF}
    BY <1>1
  <2> HIDE DEF ends
  <2>3. Min(ends) \in ends /\ \A i \in ends : Min(ends) <= i
    BY <1>5, <2>1, MinFacts
  <2> QED BY <1>1, <1>2, <1>3, <1>5, <2>2, <2>3
<1> QED BY <1>4, <1>5

LEMMA LineEndAt ==
  ASSUME NEW t \in Seq(STRING), NEW n \in 1 .. Len(t), t[n] \in {CR, LF},
         \A i \in 1 .. n - 1 : t[i] \notin {CR, LF}
  PROVE  LineEnd(t) = n
<1>1. Len(t) \in Nat
  BY LenProperties
<1> QED BY <1>1, LineEndFacts

LEMMA LineType ==
  ASSUME NEW t \in Seq(STRING)
  PROVE  /\ Line(t) \in Seq(STRING) /\ NextLine(t) \in Seq(STRING)
         /\ ~LineOpen(t) => Len(NextLine(t)) < Len(t)
<1>1. LineEnd(t) \in 1 .. Len(t) + 1 /\ Len(t) \in Nat
  BY LineEndFacts, LenProperties
<1>2. LineEnd(t) + 2 \in Nat \ {0} /\ LineEnd(t) - 1 \in 0 .. Len(t) /\ 1 \in Nat \ {0}
  BY <1>1
<1>3. Line(t) \in Seq(STRING)
  BY <1>2, WindowType DEF Line
<1>4. /\ NextLine(t) \in Seq(STRING)
      /\ Len(NextLine(t)) = IF LineEnd(t) + 2 <= Len(t) THEN Len(t) - (LineEnd(t) + 2) + 1 ELSE 0
  BY <1>2, FromType DEF NextLine
<1> QED BY <1>1, <1>3, <1>4 DEF LineOpen

-----------------------------------------------------------------------------
(* The grammar as equations. *)

Result == [state : {"incomplete", "complete", "invalid"},
           body : Seq(STRING), surplus : Seq(STRING)]

LEMMA ResultType ==
  /\ \A b \in Seq(STRING) : Open(b) \in Result /\ Malformed(b) \in Result
  /\ \A b, t \in Seq(STRING) : Finished(b, t) \in Result
BY EmptySeq DEF Open, Malformed, Finished, Result

OneTrailer(t, next) ==
  IF LineOpen(t) THEN Open(<<>>)
  ELSE IF LineBroken(t) THEN Malformed(<<>>)
  ELSE IF Line(t) = <<>> THEN Finished(<<>>, NextLine(t))
  ELSE IF FieldLine(Line(t)) THEN next ELSE Malformed(<<>>)

LEMMA TrailersEquation ==
  ASSUME NEW t \in Seq(STRING)
  PROVE  Trailers[t] = OneTrailer(t, Trailers[NextLine(t)]) /\ Trailers[t] \in Result
<1> DEFINE D == Seq(STRING)
           goes == {s \in D : /\ ~LineOpen(s) /\ ~LineBroken(s)
                              /\ Line(s) # <<>> /\ FieldLine(Line(s))}
           stop == D \ goes
           mu == [s \in D |-> Len(s)]
           nx == [s \in D |-> IF s \in goes THEN NextLine(s) ELSE s]
           bs == [s \in D |-> OneTrailer(s, Open(<<>>))]
           g  == [p \in D \X Result |-> p[2]]
<1>1. /\ <<>> \in D /\ \A s \in D : Len(s) \in Nat
      /\ \A s \in D : NextLine(s) \in D /\ (s \in goes => Len(NextLine(s)) < Len(s))
  BY EmptySeq, LenProperties, LineType
<1>2. \A s \in D : OneTrailer(s, Open(<<>>)) \in Result
  BY <1>1, ResultType DEF OneTrailer
<1>3. mu \in [D -> Nat] /\ bs \in [D -> Result] /\ g \in [D \X Result -> Result]
  <2> HIDE DEF D
  <2> QED BY <1>1, <1>2
<1>4. nx \in [D -> D] /\ \A s \in D \ stop : mu[nx[s]] < mu[s]
  BY <1>1
<1>5. PICK f \in [D -> Result] :
        \A s \in D : f[s] = IF s \in stop THEN bs[s] ELSE g[<<s, f[nx[s]]>>]
  <2> HIDE DEF D, mu, stop, nx, bs, g, Result
  <2>1. stop \in SUBSET D
    BY DEF stop
  <2>2. Recursion(D, Result, mu, stop, nx, bs, g)
    BY <1>3, <1>4, <2>1 DEF Recursion
  <2> QED BY <2>2, RecursiveFunction
<1>6. f = [s \in Seq(STRING) |->
             IF LineOpen(s) THEN Open(<<>>)
             ELSE IF LineBroken(s) THEN Malformed(<<>>)
             ELSE IF Line(s) = <<>> THEN Finished(<<>>, NextLine(s))
             ELSE IF FieldLine(Line(s)) THEN f[NextLine(s)] ELSE Malformed(<<>>)]
  <2> SUFFICES ASSUME NEW s \in D PROVE f[s] = OneTrailer(s, f[NextLine(s)])
    BY DEF OneTrailer
  <2>1. CASE s \in goes
    <3>1. f[s] = g[<<s, f[nx[s]]>>] /\ nx[s] = NextLine(s) /\ NextLine(s) \in D
      BY <1>1, <1>5, <2>1
    <3>2. f[NextLine(s)] \in Result
      BY <3>1
    <3>3. g[<<s, f[NextLine(s)]>>] = f[NextLine(s)]
      <4> HIDE DEF Result, D
      <4> QED BY <3>2
    <3> QED BY <2>1, <3>1, <3>3 DEF OneTrailer
  <2>2. CASE s \notin goes
    <3>1. f[s] = OneTrailer(s, Open(<<>>))
      BY <1>5, <2>2
    <3> QED BY <2>2, <3>1 DEF OneTrailer
  <2> QED BY <2>1, <2>2
<1>7. Trailers = [s \in Seq(STRING) |->
             IF LineOpen(s) THEN Open(<<>>)
             ELSE IF LineBroken(s) THEN Malformed(<<>>)
             ELSE IF Line(s) = <<>> THEN Finished(<<>>, NextLine(s))
             ELSE IF FieldLine(Line(s)) THEN Trailers[NextLine(s)] ELSE Malformed(<<>>)]
  BY <1>6, Zenon DEF Trailers
<1>8. \A s \in D : Trailers[s] = OneTrailer(s, Trailers[NextLine(s)])
  BY <1>7, Zenon DEF OneTrailer
<1> HIDE DEF D
<1>9. \A d \in D : Trailers[d] \in Result
  <2>1. /\ \A s \in D \ goes : Trailers[s] = bs[s]
        /\ \A s \in goes : Trailers[s] = Trailers[nx[s]]
    BY <1>8 DEF OneTrailer
  <2>2. stop \in SUBSET D
    BY DEF stop
  <2>3. Recursion(D, Result, mu, stop, nx, bs, g)
    <3> HIDE DEF mu, stop, nx, bs, g, Result
    <3> QED BY <1>3, <1>4, <2>2 DEF Recursion
  <2>4. Recurs(Trailers, D, Result, stop, nx, bs, g)
    <3> SUFFICES ASSUME NEW d \in D, d \in goes, Trailers[nx[d]] \in Result
                 PROVE  Trailers[d] = g[<<d, Trailers[nx[d]]>>]
      BY <2>1 DEF Recurs
    <3> HIDE DEF Result, nx, goes
    <3> QED BY <2>1
  <2> HIDE DEF mu, stop, nx, bs, g, Result
  <2> QED BY <2>3, <2>4, RecursionType
<1> QED BY <1>8, <1>9 DEF D

\* Something decoded, behind what was decoded before it.
Behind(b, r) == [r EXCEPT !.body = b \o @]

LEMMA BehindType ==
  ASSUME NEW b \in Seq(STRING), NEW r \in Result
  PROVE  Behind(b, r) \in Result
<1>1. b \o r.body \in Seq(STRING)
  BY ConcatProperties DEF Result
<1> QED BY <1>1 DEF Behind, Result

LEMMA ChunkType ==
  ASSUME NEW n \in Nat, NEW d \in Seq(STRING), NEW after \in Result
  PROVE  Chunk(n, d, after) \in Result
<1> DEFINE data == SubSeq(d, 1, n)
<1>1. CASE Len(d) <= n
  BY <1>1, ResultType DEF Chunk
<1>2. CASE ~(Len(d) <= n)
  <2>1. data \in Seq(STRING)
    <3>1. n \in 0 .. Len(d)
      BY <1>2, LenProperties
    <3> QED BY <3>1, WindowType
  <2>2. Behind(data, after) \in Result
    BY <2>1, BehindType
  <2> QED BY <1>2, <2>1, <2>2, ResultType DEF Chunk, Behind
<1> QED BY <1>1, <1>2

OneChunk(t, n, next) ==
  IF LineOpen(t) THEN Open(<<>>)
  ELSE IF LineBroken(t) \/ n = BAD THEN Malformed(<<>>)
  ELSE IF n = 0 THEN Trailers[NextLine(t)] ELSE Chunk(n, NextLine(t), next)

LEMMA DecodeEquation ==
  ASSUME NEW sizeOf \in [Seq(STRING) -> Nat \cup {BAD}], NEW t \in Seq(STRING)
  PROVE  /\ Decode(t, sizeOf) \in Result
         /\ Decode(t, sizeOf) =
              OneChunk(t, sizeOf[Line(t)],
                       Decode(From(NextLine(t), sizeOf[Line(t)] + 3), sizeOf))
<1> DEFINE Chunks[s \in Seq(STRING)] ==
             LET n == sizeOf[Line(s)]
                 d == NextLine(s)
             IN  IF LineOpen(s) THEN Open(<<>>)
                 ELSE IF LineBroken(s) \/ n = BAD THEN Malformed(<<>>)
                 ELSE IF n = 0 THEN Trailers[d]
                 ELSE Chunk(n, d, Chunks[From(d, n + 3)])
<1>0. \A s : Decode(s, sizeOf) = Chunks[s]
  BY Zenon DEF Decode
<1> DEFINE D == Seq(STRING)
           size(s) == sizeOf[Line(s)]
           goes == {s \in D : ~LineOpen(s) /\ size(s) \notin {0, BAD}}
           stop == D \ goes
           rest(s) == From(NextLine(s), size(s) + 3)
           mu == [s \in D |-> Len(s)]
           nx == [s \in D |-> IF s \in goes THEN rest(s) ELSE s]
           bs == [s \in D |-> OneChunk(s, size(s), Open(<<>>))]
           g  == [p \in D \X Result |-> OneChunk(p[1], size(p[1]), p[2])]
<1> HIDE DEF Chunks
<1>a. \A s \in D : /\ Len(s) \in Nat /\ NextLine(s) \in D /\ size(s) \in Nat \cup {BAD}
                   /\ Trailers[NextLine(s)] \in Result
                   /\ ~LineOpen(s) => Len(NextLine(s)) < Len(s)
  BY LenProperties, LineType, TrailersEquation
<1>b. /\ <<>> \in D
      /\ \A s \in D : s \in goes => size(s) \in Nat /\ rest(s) \in D /\ Len(rest(s)) < Len(s)
  <2>1. ASSUME NEW s \in D, s \in goes
        PROVE  size(s) \in Nat /\ rest(s) \in D /\ Len(rest(s)) < Len(s)
    <3>1. size(s) + 3 \in Nat \ {0} /\ size(s) \in Nat
      <4>1. size(s) \in Nat \cup {BAD} /\ size(s) \notin {0, BAD}
        BY <1>a, <2>1
      <4> HIDE DEF size
      <4> QED BY <4>1
    <3>2. /\ rest(s) \in D
          /\ Len(rest(s)) = IF size(s) + 3 <= Len(NextLine(s))
                            THEN Len(NextLine(s)) - (size(s) + 3) + 1 ELSE 0
      <4>1. NextLine(s) \in Seq(STRING)
        BY <1>a
      <4> HIDE DEF size
      <4> QED BY <3>1, <4>1, FromType
    <3>3. Len(NextLine(s)) < Len(s) /\ Len(NextLine(s)) \in Nat /\ Len(s) \in Nat
      BY <1>a, <2>1
    <3> HIDE DEF size, rest
    <3> QED BY <3>1, <3>2, <3>3
  <2> QED BY <2>1, EmptySeq
<1>2. \A s \in D, r \in Result : OneChunk(s, size(s), r) \in Result
  <2> SUFFICES ASSUME NEW s \in D, NEW r \in Result PROVE OneChunk(s, size(s), r) \in Result
    OBVIOUS
  <2>1. size(s) \in Nat => Chunk(size(s), NextLine(s), r) \in Result
    BY <1>a, ChunkType
  <2>2. Trailers[NextLine(s)] \in Result /\ size(s) \in Nat \cup {BAD}
        /\ Open(<<>>) \in Result /\ Malformed(<<>>) \in Result
    BY <1>a, <1>b, ResultType
  <2> HIDE DEF size, Result
  <2> QED BY <2>1, <2>2 DEF OneChunk
<1>3. mu \in [D -> Nat] /\ bs \in [D -> Result] /\ g \in [D \X Result -> Result]
  <2>1. Open(<<>>) \in Result
    BY <1>b, ResultType
  <2> HIDE DEF D, size, Result
  <2> QED BY <1>a, <1>2, <2>1
<1>4. nx \in [D -> D] /\ \A s \in D \ stop : mu[nx[s]] < mu[s]
  <2> HIDE DEF size, rest, D
  <2> QED BY <1>b DEF stop
<1>c. stop \in SUBSET D
  OBVIOUS
<1>r. Recursion(D, Result, mu, stop, nx, bs, g)
  <2> HIDE DEF D, mu, stop, nx, bs, g, Result
  <2> QED BY <1>3, <1>4, <1>c DEF Recursion
<1>5. PICK f \in [D -> Result] :
        \A s \in D : f[s] = IF s \in stop THEN bs[s] ELSE g[<<s, f[nx[s]]>>]
  <2> HIDE DEF D, mu, stop, nx, bs, g, Result
  <2> QED BY <1>r, RecursiveFunction
<1>6. \A s \in D : f[s] = OneChunk(s, size(s), f[rest(s)])
  <2> SUFFICES ASSUME NEW s \in D PROVE f[s] = OneChunk(s, size(s), f[rest(s)])
    OBVIOUS
  <2>1. CASE s \in goes
    <3>1. f[s] = g[<<s, f[nx[s]]>>] /\ nx[s] = rest(s) /\ rest(s) \in D
      BY <1>b, <1>5, <2>1
    <3>2. f[rest(s)] \in Result
      BY <3>1
    <3>3. g[<<s, f[rest(s)]>>] = OneChunk(s, size(s), f[rest(s)])
      <4> HIDE DEF Result, D, size, rest
      <4> QED BY <3>2
    <3> QED BY <3>1, <3>3
  <2>2. CASE s \notin goes
    <3>1. f[s] = OneChunk(s, size(s), Open(<<>>))
      BY <1>5, <2>2
    <3> QED BY <2>2, <3>1 DEF OneChunk
  <2> QED BY <2>1, <2>2
<1>7. f = [s \in Seq(STRING) |->
             LET n == sizeOf[Line(s)]
                 d == NextLine(s)
             IN  IF LineOpen(s) THEN Open(<<>>)
                 ELSE IF LineBroken(s) \/ n = BAD THEN Malformed(<<>>)
                 ELSE IF n = 0 THEN Trailers[d]
                 ELSE Chunk(n, d, f[From(d, n + 3)])]
  BY <1>6 DEF OneChunk
<1>8. Chunks = [s \in Seq(STRING) |->
             LET n == sizeOf[Line(s)]
                 d == NextLine(s)
             IN  IF LineOpen(s) THEN Open(<<>>)
                 ELSE IF LineBroken(s) \/ n = BAD THEN Malformed(<<>>)
                 ELSE IF n = 0 THEN Trailers[d]
                 ELSE Chunk(n, d, Chunks[From(d, n + 3)])]
  BY <1>7, Zenon DEF Chunks
<1>9. \A s \in D : Chunks[s] = OneChunk(s, size(s), Chunks[rest(s)])
  BY <1>8, Zenon DEF OneChunk
<1>10. \A d \in D : Chunks[d] \in Result
  <2>1. /\ \A s \in D \ goes : Chunks[s] = bs[s]
        /\ \A s \in goes : Chunks[s] = OneChunk(s, size(s), Chunks[nx[s]])
    BY <1>9 DEF OneChunk
  <2>2. Recurs(Chunks, D, Result, stop, nx, bs, g)
    <3> SUFFICES ASSUME NEW d \in D, d \in goes, Chunks[nx[d]] \in Result
                 PROVE  Chunks[d] = g[<<d, Chunks[nx[d]]>>]
      BY <2>1 DEF Recurs
    <3> HIDE DEF Result, nx, goes, D, size
    <3> QED BY <2>1
  <2> HIDE DEF D, mu, stop, nx, bs, g, Result
  <2> QED BY <1>r, <2>2, RecursionType
<1> QED BY <1>0, <1>9, <1>10

-----------------------------------------------------------------------------
(* One more byte.  A line is plain while no byte of its end has arrived. *)

Plain(l) == \A i \in 1 .. Len(l) : l[i] \notin {CR, LF}

LEMMA PlainAppend ==
  ASSUME NEW l \in Seq(STRING), Plain(l), NEW b \in STRING
  PROVE  /\ Append(l, b) \in Seq(STRING) /\ Append(l, b) # <<>>
         /\ b \notin {CR, LF} => Plain(Append(l, b))
<1> DEFINE t == Append(l, b)
<1>1. Longer(STRING, l, b, t)
  BY AppendParts
<1> HIDE DEF t
<1>2. t \in Seq(STRING) /\ t # <<>>
  BY <1>1 DEF Longer
<1>3. b \notin {CR, LF} => Plain(t)
  <2> SUFFICES ASSUME b \notin {CR, LF}, NEW i \in 1 .. Len(t) PROVE t[i] \notin {CR, LF}
    BY DEF Plain
  <2>1. i \in 1 .. Len(l) \/ i = Len(l) + 1
    BY <1>1 DEF Longer
  <2> QED BY <1>1, <2>1 DEF Longer, Plain
<1> QED BY <1>2, <1>3 DEF t

\* A line without its end, then with a CR: still open.
LEMMA OpenLine ==
  ASSUME NEW l \in Seq(STRING), Plain(l)
  PROVE  LineOpen(l) /\ LineOpen(Append(l, CR))
<1>1. LineOpen(l)
  <2>1. LineEnd(l) \in 1 .. Len(l) + 1 /\ (LineEnd(l) <= Len(l) => l[LineEnd(l)] \in {CR, LF})
        /\ Len(l) \in Nat
    BY LineEndFacts, LenProperties
  <2> QED BY <2>1 DEF Plain, LineOpen
<1>2. LineOpen(Append(l, CR))
  <2> DEFINE t == Append(l, CR)
  <2>1. Longer(STRING, l, CR, t)
    BY LineEndAssumption, AppendParts
  <2> HIDE DEF t
  <2>2. Len(l) + 1 \in 1 .. Len(t) /\ (Len(l) + 1) - 1 = Len(l) /\ t \in Seq(STRING)
    BY <2>1 DEF Longer
  <2>3. \A i \in 1 .. (Len(l) + 1) - 1 : t[i] \notin {CR, LF}
    BY <2>1, <2>2 DEF Plain, Longer
  <2>4. t[Len(l) + 1] \in {CR, LF}
    BY <2>1 DEF Longer
  <2>5. LineEnd(t) = Len(l) + 1
    BY <2>2, <2>3, <2>4, LineEndAt
  <2>6. LineOpen(t)
    BY <2>1, <2>5 DEF LineOpen, Longer
  <2> QED BY <2>6 DEF t
<1> QED BY <1>1, <1>2

\* The first CR or LF ends the line, whatever follows.
LEMMA EndOfPlain ==
  ASSUME NEW l \in Seq(STRING), Plain(l), NEW b \in {CR, LF}, NEW w, NEW t,
         Splice(STRING, l, b, w, t)
  PROVE  LineEnd(t) = Len(l) + 1 /\ t[LineEnd(t)] = b
<1>1. Len(l) + 1 \in 1 .. Len(t) /\ (Len(l) + 1) - 1 = Len(l) /\ t \in Seq(STRING)
  BY DEF Splice
<1>2. \A i \in 1 .. (Len(l) + 1) - 1 : t[i] \notin {CR, LF}
  BY <1>1 DEF Plain, Splice
<1>3. t[Len(l) + 1] = b
  BY DEF Splice
<1>4. LineEnd(t) = Len(l) + 1
  BY <1>1, <1>2, <1>3, LineEndAt
<1> QED BY <1>3, <1>4

\* An LF without a CR.
LEMMA BareLF ==
  ASSUME NEW l \in Seq(STRING), Plain(l), NEW w \in Seq(STRING)
  PROVE  LET t == l \o (<<LF>> \o w) IN
         t \in Seq(STRING) /\ ~LineOpen(t) /\ LineBroken(t)
<1> DEFINE t == l \o (<<LF>> \o w)
<1>1. Splice(STRING, l, LF, w, t)
  BY LineEndAssumption, Between
<1> HIDE DEF t
<1>2. LineEnd(t) = Len(l) + 1 /\ t[LineEnd(t)] = LF
  BY <1>1, EndOfPlain
<1>3. LF # CR
  BY DEF LF, CR
<1>4. ~LineOpen(t) /\ LineBroken(t) /\ t \in Seq(STRING)
  <2>1. t \in Seq(STRING) /\ Len(l) + 1 <= Len(t) /\ Len(l) \in Nat /\ Len(t) \in Nat
    BY <1>1 DEF Splice
  <2>2. LineBroken(t)
    BY <1>2 DEF LineBroken
  <2>3. ~LineOpen(t)
    BY <1>2, <1>3, <2>1 DEF LineOpen
  <2> QED BY <2>1, <2>2, <2>3
<1> QED BY <1>4 DEF t

\* What follows a CR: the line is broken, or complete.
LEMMA AfterCR ==
  ASSUME NEW l \in Seq(STRING), Plain(l), NEW b \in STRING, NEW w \in Seq(STRING)
  PROVE  LET t == Append(l, CR) \o (<<b>> \o w) IN
         /\ t \in Seq(STRING) /\ ~LineOpen(t)
         /\ b # LF => LineBroken(t)
         /\ b = LF => ~LineBroken(t) /\ Line(t) = l /\ NextLine(t) = w
<1> DEFINE a == Append(l, CR)
           v == <<b>> \o w
           t == a \o v
<1>1. Longer(STRING, l, CR, a)
  BY LineEndAssumption, AppendParts
<1>a. a \in Seq(STRING)
  BY <1>1 DEF Longer
<1>2. Splice(STRING, a, b, w, t)
  <2> HIDE DEF a
  <2> QED BY <1>a, Between
<1>v. v \in Seq(STRING)
  BY <1>2 DEF Splice
<1>3. Splice(STRING, l, CR, v, l \o (<<CR>> \o v))
  <2> HIDE DEF v
  <2> QED BY <1>v, LineEndAssumption, Between
<1>4. l \o (<<CR>> \o v) = t
  BY <1>3 DEF Splice
<1>5. Splice(STRING, l, CR, v, t)
  BY <1>3, <1>4
<1> HIDE DEF a, v, t
<1>6. LineEnd(t) = Len(l) + 1 /\ t[LineEnd(t)] = CR
  BY <1>5, EndOfPlain
<1>7. /\ Len(l) \in Nat /\ Len(w) \in Nat /\ Len(t) = Len(l) + 2 + Len(w)
      /\ Len(a) = Len(l) + 1
  <2>1. Len(l) \in Nat /\ Len(w) \in Nat /\ Len(a) = Len(l) + 1
    BY <1>1, <1>2 DEF Longer, Splice
  <2>2. Len(t) = Len(a) + 1 + Len(w)
    BY <1>2 DEF Splice
  <2> QED BY <2>1, <2>2
<1>8. t[LineEnd(t) + 1] = b
  BY <1>2, <1>6, <1>7 DEF Splice
<1>9. LF # CR
  BY DEF LF, CR
<1>10. ~LineOpen(t) /\ (LineBroken(t) <=> b # LF)
  <2>1. LineEnd(t) < Len(t)
    BY <1>6, <1>7
  <2>2. ~LineOpen(t)
    <3>1. LineEnd(t) \in Nat /\ Len(t) \in Nat
      BY <1>6, <1>7
    <3> QED BY <2>1, <3>1 DEF LineOpen
  <2>3. LineBroken(t) <=> b # LF
    BY <1>6, <1>8, <1>9, Zenon DEF LineBroken
  <2> QED BY <2>2, <2>3
<1>11. Line(t) = l
  <2>1. SubSeq(t, 1, Len(l)) = l /\ LineEnd(t) - 1 = Len(l)
    BY <1>5, <1>6, <1>7 DEF Splice
  <2> QED BY <2>1 DEF Line
<1>12. NextLine(t) = w
  <2>1. SubSeq(t, Len(a) + 2, Len(t)) = w /\ LineEnd(t) + 2 = Len(a) + 2
    BY <1>2, <1>6, <1>7 DEF Splice
  <2> QED BY <2>1 DEF NextLine, From
<1>13. t \in Seq(STRING)
  BY <1>2 DEF Splice
<1> QED BY <1>10, <1>11, <1>12, <1>13 DEF t, a, v

-----------------------------------------------------------------------------
(* Results behind one another, and a chunk one byte at a time. *)

LEMMA BehindBehind ==
  ASSUME NEW a \in Seq(STRING), NEW b \in Seq(STRING), NEW r \in Result
  PROVE  Behind(a, Behind(b, r)) = Behind(a \o b, r)
<1>1. r.body \in Seq(STRING)
  BY DEF Result
<1> DEFINE c == r.body
<1>a. c \in Seq(STRING)
  BY <1>1
<1> HIDE DEF c
<1>2. (a \o b) \o c = a \o (b \o c)
  BY ONLY a \in Seq(STRING), b \in Seq(STRING), <1>a, ConcatAssociative
<1> QED BY <1>2 DEF Behind, Result, c

LEMMA BehindNothing ==
  ASSUME NEW r \in Result
  PROVE  Behind(<<>>, r) = r
<1>1. r.body \in Seq(STRING)
  BY DEF Result
<1>2. <<>> \o r.body = r.body
  BY <1>1, ConcatEmptySeq
<1> QED BY <1>2 DEF Behind, Result

LEMMA BehindEnds ==
  ASSUME NEW a \in Seq(STRING), NEW b \in Seq(STRING)
  PROVE  /\ Behind(a, Open(b)) = Open(a \o b) /\ Behind(a, Malformed(b)) = Malformed(a \o b)
         /\ Behind(a, Open(<<>>)) = Open(a) /\ Behind(a, Malformed(<<>>)) = Malformed(a)
         /\ \A t : Behind(a, Finished(<<>>, t)) = Finished(a, t)
<1>1. a \o <<>> = a
  BY ConcatEmptySeq
<1> DEFINE c == a \o b
<1>2. Behind(a, Open(b)) = Open(c) /\ Behind(a, Malformed(b)) = Malformed(c)
  <2>1. Open(b).body = b /\ Malformed(b).body = b
    BY DEF Open, Malformed
  <2>2. /\ Behind(a, Open(b)) = [Open(b) EXCEPT !.body = c]
        /\ Behind(a, Malformed(b)) = [Malformed(b) EXCEPT !.body = c]
    BY <2>1 DEF Behind
  <2> HIDE DEF c
  <2>3. [Open(b) EXCEPT !.body = c] = Open(c)
    BY DEF Open
  <2>4. [Malformed(b) EXCEPT !.body = c] = Malformed(c)
    BY DEF Malformed
  <2> QED BY <2>2, <2>3, <2>4
<1>3. Behind(a, Open(<<>>)) = Open(a) /\ Behind(a, Malformed(<<>>)) = Malformed(a)
  BY <1>1 DEF Behind, Open, Malformed
<1>4. \A t : Behind(a, Finished(<<>>, t)) = Finished(a, t)
  BY <1>1 DEF Behind, Finished
<1> QED BY <1>2, <1>3, <1>4

\* One byte of chunk data.
LEMMA ChunkByte ==
  ASSUME NEW n \in Nat \ {0}, NEW b \in STRING, NEW w \in Seq(STRING), NEW after \in Result
  PROVE  /\ Chunk(n, <<b>> \o w, after) = Behind(<<b>>, Chunk(n - 1, w, after))
         /\ From(<<b>> \o w, n + 3) = From(w, n + 2)
<1> DEFINE e == <<b>>
           d == e \o w
           m == n - 1
<1>1. e \in Seq(STRING)
  BY OneElement
<1>2. Headed(STRING, b, w, d)
  BY InFront
<1> HIDE DEF d
<1>3. /\ Len(w) \in Nat /\ Len(d) = Len(w) + 1 /\ m \in Nat /\ m + 1 = n
      /\ (Len(d) <= n <=> Len(w) <= m) /\ (Len(d) = n + 1 <=> Len(w) = m + 1)
  BY <1>2 DEF Headed
<1>4. From(d, n + 3) = From(w, n + 2)
  <2>1. n + 2 \in Nat \ {0} /\ (n + 2) + 1 = n + 3
    OBVIOUS
  <2> QED BY <1>2, <2>1 DEF Headed, From
<1>5. CASE Len(d) <= n
  <2>1. d = e \o w
    BY DEF d
  <2> HIDE DEF e, m
  <2>2. Chunk(n, d, after) = Open(e \o w)
    BY <1>5, <2>1 DEF Chunk
  <2>3. Chunk(m, w, after) = Open(w)
    BY <1>3, <1>5 DEF Chunk
  <2>4. Behind(e, Open(w)) = Open(e \o w)
    BY <1>1, BehindEnds
  <2> QED BY <1>4, <2>2, <2>3, <2>4 DEF d, e, m
<1>6. CASE ~(Len(d) <= n)
  <2> DEFINE dw == SubSeq(w, 1, m)
             dd == SubSeq(d, 1, n)
  <2>1. m \in 0 .. Len(w) /\ m + 1 \in 1 .. Len(w) /\ (m + 1) + 1 = n + 1
    BY <1>3, <1>6
  <2>a. SubSeq(d, 1, m + 1) = e \o dw
    <3> HIDE DEF m
    <3> QED BY <1>2, <2>1 DEF Headed
  <2>b. d[n + 1] = w[m + 1]
    <3> HIDE DEF m
    <3>1. d[(m + 1) + 1] = w[m + 1]
      BY <1>2, <2>1 DEF Headed
    <3> QED BY <2>1, <3>1
  <2>2. dd = e \o dw /\ d[n + 1] = w[m + 1]
    BY <1>3, <2>a, <2>b
  <2>3. Len(d) # n + 1 => d[n + 2] = w[m + 2]
    <3>1. Len(d) # n + 1 => m + 2 \in 1 .. Len(w) /\ (m + 2) + 1 = n + 2
      BY <1>3, <1>6
    <3> QED BY <1>2, <3>1 DEF Headed
  <2>4. dw \in Seq(STRING)
    BY <2>1, WindowType
  <2> HIDE DEF e, dw, dd
  <2>5. Behind(e, Behind(dw, after)) = Behind(dd, after)
    BY <1>1, <2>2, <2>4, BehindBehind
  <2>6. Behind(e, Open(dw)) = Open(dd) /\ Behind(e, Malformed(dw)) = Malformed(dd)
    BY <1>1, <2>2, <2>4, BehindEnds
  <2>7. Chunk(n, d, after) =
          IF w[m + 1] # CR THEN Malformed(dd)
          ELSE IF Len(w) = m + 1 THEN Open(dd)
          ELSE IF w[m + 2] # LF THEN Malformed(dd)
          ELSE Behind(dd, after)
    BY <1>3, <1>6, <2>2, <2>3 DEF Chunk, Behind, dd
  <2>8. Chunk(m, w, after) =
          IF w[m + 1] # CR THEN Malformed(dw)
          ELSE IF Len(w) = m + 1 THEN Open(dw)
          ELSE IF w[m + 2] # LF THEN Malformed(dw)
          ELSE Behind(dw, after)
    BY <1>3, <1>6 DEF Chunk, Behind, dw
  <2> HIDE DEF m
  <2>9. Chunk(n, d, after) = Behind(e, Chunk(m, w, after))
    BY <2>5, <2>6, <2>7, <2>8
  <2> QED BY <1>4, <2>9 DEF d, e, m
<1> QED BY <1>5, <1>6

\* What must follow the data of a chunk.
LEMMA ChunkEnd ==
  ASSUME NEW b \in STRING, NEW w \in Seq(STRING), NEW after \in Result
  PROVE  /\ \A n \in Nat : Chunk(n, <<>>, after) = Open(<<>>)
         /\ Chunk(0, <<CR>>, after) = Open(<<>>)
         /\ b # CR => Chunk(0, <<b>> \o w, after) = Malformed(<<>>)
         /\ b # LF => Chunk(0, <<CR>> \o (<<b>> \o w), after) = Malformed(<<>>)
         /\ b = LF => /\ Chunk(0, <<CR>> \o (<<b>> \o w), after) = after
                      /\ From(<<CR>> \o (<<b>> \o w), 3) = w
<1>1. \A n \in Nat : Chunk(n, <<>>, after) = Open(<<>>)
  BY DEF Chunk
<1>2. Chunk(0, <<CR>>, after) = Open(<<>>)
  <2>1. SubSeq(<<CR>>, 1, 0) = <<>>
    BY SubSeqEmpty
  <2>2. Len(<<CR>>) = 1 /\ <<CR>>[1] = CR
    OBVIOUS
  <2>3. 0 + 1 = 1 /\ ~(1 <= 0)
    OBVIOUS
  <2> QED BY <2>1, <2>2, <2>3, Zenon DEF Chunk
<1>3. b # CR => Chunk(0, <<b>> \o w, after) = Malformed(<<>>)
  <2> DEFINE d == <<b>> \o w
  <2>1. Headed(STRING, b, w, d)
    BY InFront
  <2> HIDE DEF d
  <2>2. ~(Len(d) <= 0) /\ d[0 + 1] = b
    <3>1. 0 + 1 = 1
      OBVIOUS
    <3>2. Len(d) = Len(w) + 1 /\ Len(w) \in Nat /\ d[1] = b
      BY <2>1 DEF Headed
    <3>3. ~(Len(d) <= 0)
      BY <3>2
    <3> QED BY <3>1, <3>2, <3>3, Zenon
  <2>3. SubSeq(d, 1, 0) = <<>>
    BY SubSeqEmpty
  <2>4. b # CR => Chunk(0, d, after) = Malformed(<<>>)
    BY <2>2, <2>3 DEF Chunk
  <2> QED BY <2>4 DEF d
<1>4. /\ b # LF => Chunk(0, <<CR>> \o (<<b>> \o w), after) = Malformed(<<>>)
      /\ b = LF => /\ Chunk(0, <<CR>> \o (<<b>> \o w), after) = after
                   /\ From(<<CR>> \o (<<b>> \o w), 3) = w
  <2> DEFINE v == <<b>> \o w
             d == <<CR>> \o v
  <2>1. Headed(STRING, b, w, v)
    BY InFront
  <2>2. Headed(STRING, CR, v, d)
    <3>1. v \in Seq(STRING)
      BY <2>1 DEF Headed
    <3> HIDE DEF v
    <3> QED BY <3>1, LineEndAssumption, InFront
  <2> HIDE DEF v, d
  <2>3. Len(w) \in Nat /\ Len(v) = Len(w) + 1 /\ Len(d) = Len(v) + 1 /\ v[1] = b
    BY <2>1, <2>2 DEF Headed
  <2>4. d[1] = CR /\ d[2] = b
    <3>1. 1 \in 1 .. Len(v) /\ 1 + 1 = 2
      BY <2>3
    <3> QED BY <2>2, <2>3, <3>1 DEF Headed
  <2>5. From(d, 3) = w
    <3>1. /\ 2 \in Nat \ {0} /\ 2 + 1 = 3 /\ 1 \in Nat \ {0} /\ 1 + 1 = 2
      OBVIOUS
    <3>2. SubSeq(d, 3, Len(d)) = SubSeq(v, 2, Len(v))
      BY <2>2, <3>1 DEF Headed
    <3>3. SubSeq(v, 2, Len(v)) = SubSeq(w, 1, Len(w))
      BY <2>1, <3>1 DEF Headed
    <3>4. SubSeq(w, 1, Len(w)) = w
      BY SubSeqFull
    <3> QED BY <3>2, <3>3, <3>4 DEF From
  <2>6. SubSeq(d, 1, 0) = <<>>
    BY SubSeqEmpty
  <2>7. Chunk(0, d, after) = IF b # LF THEN Malformed(<<>>) ELSE Behind(<<>>, after)
    <3>1. ~(Len(d) <= 0) /\ Len(d) # 0 + 1
      BY <2>3
    <3>2. 0 + 1 = 1 /\ 0 + 2 = 2
      OBVIOUS
    <3>3. d[0 + 1] = CR /\ d[0 + 2] = b
      BY <2>4, <3>2, Zenon
    <3> QED BY <2>6, <3>1, <3>3 DEF Chunk, Behind
  <2>8. Behind(<<>>, after) = after
    BY BehindNothing
  <2> QED BY <2>5, <2>7, <2>8 DEF v, d
<1> QED BY <1>1, <1>2, <1>3, <1>4

-----------------------------------------------------------------------------
(* The coding read from the middle: what is left to decode when a line or  *)
(* the data of a chunk has been read in part.                              *)

SizeFunction == [Seq(STRING) -> Nat \cup {BAD}]

LEMMA SizeLineBytes ==
  ASSUME NEW sizeOf \in SizeFunction, NEW l \in Seq(STRING), Plain(l),
         NEW b \in STRING, NEW w \in Seq(STRING)
  PROVE  /\ Decode(l, sizeOf) = Open(<<>>) /\ Decode(Append(l, CR), sizeOf) = Open(<<>>)
         /\ Decode(l \o (<<LF>> \o w), sizeOf) = Malformed(<<>>)
         /\ b # LF => Decode(Append(l, CR) \o (<<b>> \o w), sizeOf) = Malformed(<<>>)
         /\ b = LF =>
              Decode(Append(l, CR) \o (<<b>> \o w), sizeOf) =
                IF sizeOf[l] = BAD THEN Malformed(<<>>)
                ELSE IF sizeOf[l] = 0 THEN Trailers[w]
                ELSE Chunk(sizeOf[l], w, Decode(From(w, sizeOf[l] + 3), sizeOf))
<1>1. \A t \in Seq(STRING) :
        Decode(t, sizeOf) = OneChunk(t, sizeOf[Line(t)],
                                     Decode(From(NextLine(t), sizeOf[Line(t)] + 3), sizeOf))
  BY DecodeEquation DEF SizeFunction
<1>2. Append(l, CR) \in Seq(STRING)
  BY LineEndAssumption, PlainAppend
<1>3. Decode(l, sizeOf) = Open(<<>>) /\ Decode(Append(l, CR), sizeOf) = Open(<<>>)
  BY <1>1, <1>2, OpenLine DEF OneChunk
<1>4. Decode(l \o (<<LF>> \o w), sizeOf) = Malformed(<<>>)
  BY <1>1, BareLF DEF OneChunk
<1> DEFINE t == Append(l, CR) \o (<<b>> \o w)
<1>5. /\ t \in Seq(STRING) /\ ~LineOpen(t)
      /\ b # LF => LineBroken(t)
      /\ b = LF => ~LineBroken(t) /\ Line(t) = l /\ NextLine(t) = w
  BY AfterCR
<1> HIDE DEF t
<1>6. b # LF => Decode(t, sizeOf) = Malformed(<<>>)
  BY <1>1, <1>5 DEF OneChunk
<1>7. b = LF => Decode(t, sizeOf) =
                  IF sizeOf[l] = BAD THEN Malformed(<<>>)
                  ELSE IF sizeOf[l] = 0 THEN Trailers[w]
                  ELSE Chunk(sizeOf[l], w, Decode(From(w, sizeOf[l] + 3), sizeOf))
  BY <1>1, <1>5 DEF OneChunk
<1> QED BY <1>3, <1>4, <1>6, <1>7 DEF t

LEMMA TrailerLineBytes ==
  ASSUME NEW l \in Seq(STRING), Plain(l), NEW b \in STRING, NEW w \in Seq(STRING)
  PROVE  /\ Trailers[l] = Open(<<>>) /\ Trailers[Append(l, CR)] = Open(<<>>)
         /\ Trailers[l \o (<<LF>> \o w)] = Malformed(<<>>)
         /\ b # LF => Trailers[Append(l, CR) \o (<<b>> \o w)] = Malformed(<<>>)
         /\ b = LF =>
              Trailers[Append(l, CR) \o (<<b>> \o w)] =
                IF l = <<>> THEN Finished(<<>>, w)
                ELSE IF FieldLine(l) THEN Trailers[w] ELSE Malformed(<<>>)
<1>1. \A t \in Seq(STRING) : Trailers[t] = OneTrailer(t, Trailers[NextLine(t)])
  BY TrailersEquation
<1>2. Append(l, CR) \in Seq(STRING)
  BY LineEndAssumption, PlainAppend
<1>3. Trailers[l] = Open(<<>>) /\ Trailers[Append(l, CR)] = Open(<<>>)
  BY <1>1, <1>2, OpenLine DEF OneTrailer
<1>4. Trailers[l \o (<<LF>> \o w)] = Malformed(<<>>)
  BY <1>1, BareLF DEF OneTrailer
<1> DEFINE t == Append(l, CR) \o (<<b>> \o w)
<1>5. /\ t \in Seq(STRING) /\ ~LineOpen(t)
      /\ b # LF => LineBroken(t)
      /\ b = LF => ~LineBroken(t) /\ Line(t) = l /\ NextLine(t) = w
  BY AfterCR
<1> HIDE DEF t
<1>6. b # LF => Trailers[t] = Malformed(<<>>)
  BY <1>1, <1>5 DEF OneTrailer
<1>7. b = LF => Trailers[t] = IF l = <<>> THEN Finished(<<>>, w)
                              ELSE IF FieldLine(l) THEN Trailers[w] ELSE Malformed(<<>>)
  BY <1>1, <1>5 DEF OneTrailer
<1> QED BY <1>3, <1>4, <1>6, <1>7 DEF t

\* What w means behind a line l of which, if cr, the CR has been read, or
\* behind the data of a chunk of which n bytes are still due.
Held(l, cr) == IF cr THEN Append(l, CR) ELSE l
Rest(mode, l, cr, n, w, sizeOf) ==
  IF mode = "SIZE" THEN Decode(Held(l, cr) \o w, sizeOf)
  ELSE IF mode = "TRAILERS" THEN Trailers[Held(l, cr) \o w]
  ELSE LET d == IF mode = "DATA_LF" THEN <<CR>> \o w ELSE w
       IN  Chunk(n, d, Decode(From(d, n + 3), sizeOf))
Modes == {"SIZE", "TRAILERS", "DATA", "DATA_CR", "DATA_LF"}

LEMMA RestResult ==
  ASSUME NEW sizeOf \in SizeFunction, NEW mode \in Modes, NEW l \in Seq(STRING),
         NEW cr \in BOOLEAN, NEW n \in Nat, NEW w \in Seq(STRING)
  PROVE  Rest(mode, l, cr, n, w, sizeOf) \in Result
<1> DEFINE t == Held(l, cr) \o w
           d == IF mode = "DATA_LF" THEN <<CR>> \o w ELSE w
<1>1. Append(l, CR) \in Seq(STRING)
  BY LineEndAssumption, AppendParts DEF Longer
<1>2. Held(l, cr) \in Seq(STRING)
  BY <1>1 DEF Held
<1>3. t \in Seq(STRING)
  <2> DEFINE h == Held(l, cr)
  <2>1. h \in Seq(STRING)
    BY <1>2
  <2> HIDE DEF h
  <2>2. h \o w \in Seq(STRING)
    BY <2>1, ConcatParts
  <2> QED BY <2>2 DEF h
<1>4. d \in Seq(STRING)
  BY LineEndAssumption, InFront DEF Headed
<1>5. n + 3 \in Nat \ {0}
  OBVIOUS
<1> HIDE DEF t, d
<1>6. Decode(t, sizeOf) \in Result /\ Trailers[t] \in Result
  BY <1>3, DecodeEquation, TrailersEquation DEF SizeFunction
<1>7. From(d, n + 3) \in Seq(STRING)
  BY <1>4, <1>5, FromType
<1>8. Decode(From(d, n + 3), sizeOf) \in Result
  BY <1>7, DecodeEquation DEF SizeFunction
<1>9. Chunk(n, d, Decode(From(d, n + 3), sizeOf)) \in Result
  BY <1>4, <1>8, ChunkType
<1> QED BY <1>6, <1>9 DEF Rest, t, d

LEMMA RestEnd ==
  ASSUME NEW sizeOf \in SizeFunction, NEW mode \in Modes, NEW l \in Seq(STRING), Plain(l),
         NEW cr \in BOOLEAN, NEW n \in Nat, mode = "DATA_LF" => n = 0
  PROVE  Rest(mode, l, cr, n, <<>>, sizeOf) = Open(<<>>)
<1> DEFINE h == Held(l, cr)
<1>1. h \o <<>> = h
  <2>1. Append(l, CR) \in Seq(STRING)
    BY LineEndAssumption, PlainAppend
  <2>2. h \in Seq(STRING)
    BY <2>1 DEF Held
  <2> HIDE DEF h
  <2> QED BY <2>2, ConcatEmptySeq
<1>2. Decode(h, sizeOf) = Open(<<>>) /\ Trailers[h] = Open(<<>>)
  <2>1. CR \in STRING /\ <<>> \in Seq(STRING)
    BY LineEndAssumption, EmptySeq
  <2>2. /\ Decode(l, sizeOf) = Open(<<>>) /\ Decode(Append(l, CR), sizeOf) = Open(<<>>)
        /\ Trailers[l] = Open(<<>>) /\ Trailers[Append(l, CR)] = Open(<<>>)
    BY <2>1, SizeLineBytes, TrailerLineBytes
  <2> QED BY <2>2 DEF Held
<1>3. <<CR>> \o <<>> = <<CR>>
  BY LineEndAssumption, OneElement, ConcatEmptySeq
<1>4. /\ \A after \in Result : Chunk(n, <<>>, after) = Open(<<>>)
      /\ \A after \in Result : Chunk(0, <<CR>>, after) = Open(<<>>)
  BY LineEndAssumption, EmptySeq, ChunkEnd
<1>5. \A d \in Seq(STRING) : Decode(From(d, n + 3), sizeOf) \in Result
  <2> SUFFICES ASSUME NEW d \in Seq(STRING) PROVE Decode(From(d, n + 3), sizeOf) \in Result
    OBVIOUS
  <2>1. n + 3 \in Nat \ {0}
    OBVIOUS
  <2>2. From(d, n + 3) \in Seq(STRING)
    BY <2>1, FromType
  <2> QED BY <2>2, DecodeEquation DEF SizeFunction
<1>6. <<>> \in Seq(STRING) /\ <<CR>> \in Seq(STRING)
  BY LineEndAssumption, OneElement, EmptySeq
<1>7. CASE mode \in {"SIZE", "TRAILERS"}
  BY <1>1, <1>2, <1>7 DEF Rest
<1>8. CASE mode \in {"DATA", "DATA_CR"}
  BY <1>4, <1>5, <1>6, <1>8 DEF Rest
<1>9. CASE mode = "DATA_LF"
  BY <1>3, <1>4, <1>5, <1>6, <1>9 DEF Rest
<1> QED BY <1>7, <1>8, <1>9 DEF Modes

(* How the rest decodes when b comes next.  Each fact is a predicate of its *)
(* own: the decoders instantiate it with their variables.                   *)

\* b inside a line, b behind the line's CR, and the line's CR and a bare LF.
LineGoesOn(mode, l, b, n, w, sizeOf) ==
  /\ Rest(mode, l, FALSE, n, <<b>> \o w, sizeOf) = Rest(mode, Append(l, b), FALSE, n, w, sizeOf)
  /\ Rest(mode, l, FALSE, n, <<CR>> \o w, sizeOf) = Rest(mode, l, TRUE, n, w, sizeOf)
  /\ Rest(mode, l, FALSE, n, <<LF>> \o w, sizeOf) = Malformed(<<>>)
  /\ b # LF => Rest(mode, l, TRUE, n, <<b>> \o w, sizeOf) = Malformed(<<>>)

LEMMA LineByte ==
  ASSUME NEW sizeOf \in SizeFunction, NEW mode \in {"SIZE", "TRAILERS"},
         NEW l \in Seq(STRING), Plain(l), NEW b \in STRING, NEW w \in Seq(STRING), NEW n
  PROVE  LineGoesOn(mode, l, b, n, w, sizeOf)
<1>1. Splice(STRING, l, b, w, l \o (<<b>> \o w))
  BY Between
<1>2. Splice(STRING, l, CR, w, l \o (<<CR>> \o w))
  BY LineEndAssumption, Between
<1>3. /\ l \o (<<b>> \o w) = Append(l, b) \o w
      /\ l \o (<<CR>> \o w) = Append(l, CR) \o w
  BY <1>1, <1>2 DEF Splice
<1>4. /\ Decode(l \o (<<LF>> \o w), sizeOf) = Malformed(<<>>)
      /\ b # LF => Decode(Append(l, CR) \o (<<b>> \o w), sizeOf) = Malformed(<<>>)
  BY SizeLineBytes
<1>5. /\ Trailers[l \o (<<LF>> \o w)] = Malformed(<<>>)
      /\ b # LF => Trailers[Append(l, CR) \o (<<b>> \o w)] = Malformed(<<>>)
  BY TrailerLineBytes
<1> QED BY <1>3, <1>4, <1>5 DEF LineGoesOn, Rest, Held

\* The LF of a size line and of a trailer line.
LineIsDone(l, n, w, sizeOf, k, x) ==
  /\ Rest("SIZE", l, TRUE, n, <<LF>> \o w, sizeOf) =
       IF sizeOf[l] = BAD THEN Malformed(<<>>)
       ELSE IF sizeOf[l] = 0 THEN Rest("TRAILERS", <<>>, FALSE, k, w, sizeOf)
       ELSE Rest("DATA", x, FALSE, sizeOf[l], w, sizeOf)
  /\ Rest("TRAILERS", l, TRUE, n, <<LF>> \o w, sizeOf) =
       IF l = <<>> THEN Finished(<<>>, w)
       ELSE IF FieldLine(l) THEN Rest("TRAILERS", <<>>, FALSE, k, w, sizeOf)
       ELSE Malformed(<<>>)

LEMMA LineDone ==
  ASSUME NEW sizeOf \in SizeFunction, NEW l \in Seq(STRING), Plain(l), NEW w \in Seq(STRING),
         NEW n, NEW k, NEW x
  PROVE  LineIsDone(l, n, w, sizeOf, k, x)
<1>1. <<>> \o w = w
  BY ConcatEmptySeq
<1>2. Decode(Append(l, CR) \o (<<LF>> \o w), sizeOf) =
        IF sizeOf[l] = BAD THEN Malformed(<<>>)
        ELSE IF sizeOf[l] = 0 THEN Trailers[w]
        ELSE Chunk(sizeOf[l], w, Decode(From(w, sizeOf[l] + 3), sizeOf))
  BY LineEndAssumption, SizeLineBytes
<1>3. Trailers[Append(l, CR) \o (<<LF>> \o w)] =
        IF l = <<>> THEN Finished(<<>>, w)
        ELSE IF FieldLine(l) THEN Trailers[w] ELSE Malformed(<<>>)
  BY LineEndAssumption, TrailerLineBytes
<1> QED BY <1>1, <1>2, <1>3 DEF LineIsDone, Rest, Held

\* A byte of data, and the CR and the LF behind a chunk.
DataGoesOn(b, n, w, sizeOf, l, cr, x, y, k) ==
  /\ \A m \in {"DATA", "DATA_CR"} :
       Rest("DATA", l, cr, n, <<b>> \o w, sizeOf) =
         Behind(<<b>>, Rest(m, x, y, n - 1, w, sizeOf))
  /\ b # CR => Rest("DATA_CR", l, cr, 0, <<b>> \o w, sizeOf) = Malformed(<<>>)
  /\ Rest("DATA_CR", l, cr, 0, <<CR>> \o w, sizeOf) = Rest("DATA_LF", x, y, 0, w, sizeOf)
  /\ b # LF => Rest("DATA_LF", l, cr, 0, <<b>> \o w, sizeOf) = Malformed(<<>>)
  /\ Rest("DATA_LF", l, cr, 0, <<LF>> \o w, sizeOf) =
       Rest("SIZE", <<>>, FALSE, k, w, sizeOf)

LEMMA DataByte ==
  ASSUME NEW sizeOf \in SizeFunction, NEW b \in STRING, NEW w \in Seq(STRING),
         NEW n \in Nat \ {0}, NEW l, NEW x, NEW cr, NEW y, NEW k
  PROVE  DataGoesOn(b, n, w, sizeOf, l, cr, x, y, k)
<1>1. \A d \in Seq(STRING), i \in Nat : Decode(From(d, i + 3), sizeOf) \in Result
  <2> SUFFICES ASSUME NEW d \in Seq(STRING), NEW i \in Nat
               PROVE  Decode(From(d, i + 3), sizeOf) \in Result
    OBVIOUS
  <2>1. i + 3 \in Nat \ {0}
    OBVIOUS
  <2>2. From(d, i + 3) \in Seq(STRING)
    BY <2>1, FromType
  <2> QED BY <2>2, DecodeEquation DEF SizeFunction
<1>2. n - 1 \in Nat /\ (n - 1) + 3 = n + 2 /\ 0 \in Nat /\ 0 + 3 = 3
  OBVIOUS
<1>3. /\ \A r \in Result : Chunk(n, <<b>> \o w, r) = Behind(<<b>>, Chunk(n - 1, w, r))
      /\ From(<<b>> \o w, n + 3) = From(w, n + 2)
  <2>1. <<>> \in Seq(STRING)
    BY EmptySeq
  <2>2. Open(<<>>) \in Result
    BY <2>1, ResultType
  <2> QED BY <2>2, ChunkByte
<1>4. ASSUME NEW m \in {"DATA", "DATA_CR"}
      PROVE  Rest("DATA", l, cr, n, <<b>> \o w, sizeOf) =
               Behind(<<b>>, Rest(m, x, y, n - 1, w, sizeOf))
  <2> DEFINE r == Decode(From(w, n + 2), sizeOf)
  <2>1. r \in Result
    BY <1>1, <1>2, Zenon
  <2>2. Rest("DATA", l, cr, n, <<b>> \o w, sizeOf) = Chunk(n, <<b>> \o w, r)
    BY <1>3, Zenon DEF Rest
  <2>3. Rest(m, x, y, n - 1, w, sizeOf) = Chunk(n - 1, w, r)
    BY <1>2, <1>4 DEF Rest
  <2> QED BY <1>3, <2>1, <2>2, <2>3
<1>5. b # CR => Rest("DATA_CR", l, cr, 0, <<b>> \o w, sizeOf) = Malformed(<<>>)
  <2> DEFINE d == <<b>> \o w
  <2>1. d \in Seq(STRING)
    BY InFront DEF Headed
  <2>2. Decode(From(d, 0 + 3), sizeOf) \in Result
    BY <1>1, <1>2, <2>1
  <2>3. b # CR => \A r \in Result : Chunk(0, d, r) = Malformed(<<>>)
    BY ChunkEnd
  <2> QED BY <2>2, <2>3 DEF Rest
<1>6. Rest("DATA_CR", l, cr, 0, <<CR>> \o w, sizeOf) = Rest("DATA_LF", x, y, 0, w, sizeOf)
  BY DEF Rest
<1>7. \A c \in STRING :
        /\ c # LF => Rest("DATA_LF", l, cr, 0, <<c>> \o w, sizeOf) = Malformed(<<>>)
        /\ c = LF => Rest("DATA_LF", l, cr, 0, <<c>> \o w, sizeOf) = Decode(w, sizeOf)
  <2> SUFFICES ASSUME NEW c \in STRING
               PROVE  Rest("DATA_LF", l, cr, 0, <<c>> \o w, sizeOf) =
                        IF c = LF THEN Decode(w, sizeOf) ELSE Malformed(<<>>)
    OBVIOUS
  <2> DEFINE v == <<c>> \o w
             d == <<CR>> \o v
  <2>1. v \in Seq(STRING)
    BY InFront DEF Headed
  <2>2. d \in Seq(STRING)
    <3> HIDE DEF v
    <3> QED BY <2>1, LineEndAssumption, InFront DEF Headed
  <2>3. \A r \in Result : /\ c # LF => Chunk(0, d, r) = Malformed(<<>>)
                          /\ c = LF => Chunk(0, d, r) = r /\ From(d, 3) = w
    BY ChunkEnd
  <2> HIDE DEF v, d
  <2>4. Decode(From(d, 0 + 3), sizeOf) \in Result
    BY <1>1, <1>2, <2>2
  <2>5. Rest("DATA_LF", l, cr, 0, v, sizeOf) = Chunk(0, d, Decode(From(d, 0 + 3), sizeOf))
    BY DEF Rest, d
  <2>6. c = LF => Decode(From(d, 0 + 3), sizeOf) = Decode(w, sizeOf)
    BY <1>2, <2>3, <2>4
  <2> QED BY <2>3, <2>4, <2>5, <2>6 DEF v
<1>8. Rest("SIZE", <<>>, FALSE, k, w, sizeOf) = Decode(w, sizeOf)
  <2>1. <<>> \o w = w
    BY ConcatEmptySeq
  <2> QED BY <2>1 DEF Rest, Held
<1> QED BY <1>4, <1>5, <1>6, <1>7, <1>8, LineEndAssumption DEF DataGoesOn

\* A size line with no value, judged at its CR: what comes next is broken
\* whatever it is, but nothing is broken yet.
LEMMA BadLineAtCR ==
  ASSUME NEW sizeOf \in SizeFunction, NEW l \in Seq(STRING), Plain(l), sizeOf[l] = BAD, NEW n \in Nat
  PROVE  /\ Rest("SIZE", l, TRUE, n, <<>>, sizeOf) = Open(<<>>)
         /\ \A w \in Seq(STRING) \ {<<>>} : Rest("SIZE", l, TRUE, n, w, sizeOf) = Malformed(<<>>)
<1>1. Rest("SIZE", l, TRUE, n, <<>>, sizeOf) = Open(<<>>)
  BY RestEnd DEF Modes
<1>2. ASSUME NEW w \in Seq(STRING), w # <<>>
      PROVE  Rest("SIZE", l, TRUE, n, w, sizeOf) = Malformed(<<>>)
  <2>1. PICK b \in STRING, v \in Seq(STRING) : w = <<b>> \o v
    BY <1>2, FirstAndRest
  <2>2. LineGoesOn("SIZE", l, b, n, v, sizeOf)
    BY LineByte
  <2>3. LineIsDone(l, n, v, sizeOf, n, <<>>)
    BY LineDone
  <2>4. b # LF => Rest("SIZE", l, TRUE, n, <<b>> \o v, sizeOf) = Malformed(<<>>)
    BY <2>2 DEF LineGoesOn
  <2>5. Rest("SIZE", l, TRUE, n, <<LF>> \o v, sizeOf) = Malformed(<<>>)
    BY <2>3 DEF LineIsDone
  <2> QED BY <2>1, <2>4, <2>5
<1> QED BY <1>1, <1>2

=============================================================================
