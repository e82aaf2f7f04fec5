----------------------------- MODULE EchoProofs -----------------------------
(***************************************************************************)
(* Proofs about the echo servers, for all requests, field tables, word and *)
(* buffer sizes: every connection is one exchange in the sense of module   *)
(* EchoExchange, what the caller is told is told in the right order, and a *)
(* response is the one the contract (MessageIn) calls for.                 *)
(*                                                                         *)
(* The first three parts are about data only: the three ways to select a   *)
(* framing, the head, and the body parsers against the contract.  Then the *)
(* control of the servers (Inv), for which what the parsers compute plays  *)
(* no part; the types, with the fact that a body is parsed only behind a   *)
(* good head (Types); and the verdict (Judged), which needs both.          *)
(***************************************************************************)
EXTENDS EchoServers, CodingLemmas, FiniteSetTheorems

-----------------------------------------------------------------------------
(* Framing selection: three loops, one meaning.                            *)

\* The k-th line is the one framing field, and of a framing the servers know.
OneField(lines, k) ==
  /\ k \in DOMAIN lines /\ lines[k] \in DOMAIN LengthFields \cup ChunkedFields
  /\ LengthLines(lines) \cup TransferLines(lines) = {k}

Selects(lines, f) ==
  \/ \E k \in DOMAIN lines : OneField(lines, k) /\ f = lines[k] /\ f # Blank
  \/ f = Blank /\ \A k \in DOMAIN lines : ~OneField(lines, k)

\* How many positions a set holds, by its elements.
LEMMA SizeOfPositions ==
  ASSUME NEW n \in Nat, NEW s \in SUBSET (1 .. n)
  PROVE  /\ Cardinality(s) \in Nat
         /\ Cardinality(s) = 0 <=> s = {}
         /\ Cardinality(s) = 1 <=> \E k \in s : s = {k}
         /\ Cardinality(s) > 1 <=> \E i, j \in s : i # j
<1>1. IsFiniteSet(s)
  <2>1. IsFiniteSet(1 .. n)
    BY FS_Interval
  <2> QED BY <2>1, FS_Subset
<1>2. Cardinality(s) \in Nat /\ (Cardinality(s) = 0 <=> s = {})
  BY <1>1, FS_CardinalityType, FS_EmptySet
<1>3. Cardinality(s) = 1 <=> \E k : s = {k}
  BY <1>1, FS_Singleton
<1>4. Cardinality(s) = 1 <=> \E k \in s : s = {k}
  BY <1>3
<1>5. Cardinality(s) > 1 <=> ~(s = {}) /\ ~(\E k \in s : s = {k})
  BY <1>2, <1>4
<1>6. (\E i, j \in s : i # j) <=> ~(s = {}) /\ ~(\E k \in s : s = {k})
  OBVIOUS
<1>7. Cardinality(s) > 1 <=> \E i, j \in s : i # j
  BY <1>5, <1>6, Zenon
<1> QED BY <1>2, <1>4, <1>7, Zenon

LEMMA FieldLinesApart ==
  ASSUME NEW n \in Nat, NEW lines, DOMAIN lines = 1 .. n
  PROVE  /\ LengthLines(lines) \in SUBSET (1 .. n) /\ TransferLines(lines) \in SUBSET (1 .. n)
         /\ LengthLines(lines) \cap TransferLines(lines) = {}
         /\ \A k \in LengthLines(lines) :
              lines[k] \in DOMAIN LengthFields /\ lines[k] # Blank
         /\ \A k \in TransferLines(lines) :
              lines[k] \in TransferFields /\ lines[k] # Blank /\ lines[k] \notin DOMAIN LengthFields
         /\ \A k \in 1 .. n : lines[k] \in ChunkedFields => k \in TransferLines(lines)
BY FieldAssumption DEF LengthLines, TransferLines, Fields

LEMMA GoSelects ==
  ASSUME NEW n \in Nat, NEW lines, DOMAIN lines = 1 .. n
  PROVE  Selects(lines, SelectFramingGo(lines))
<1> DEFINE L == LengthLines(lines)
           T == TransferLines(lines)
<1>1. /\ L \in SUBSET (1 .. n) /\ T \in SUBSET (1 .. n) /\ L \cap T = {}
      /\ \A k \in L : lines[k] \in DOMAIN LengthFields /\ lines[k] # Blank
      /\ \A k \in T : lines[k] # Blank /\ lines[k] \notin DOMAIN LengthFields
      /\ \A k \in 1 .. n : lines[k] \in ChunkedFields => k \in T
  BY FieldLinesApart
<1>2. /\ Cardinality(L) > 1 <=> \E i, j \in L : i # j
      /\ Cardinality(T) = 1 <=> \E k \in T : T = {k}
  BY <1>1, SizeOfPositions
<1>3. /\ L # {} => Min(L) \in L
      /\ T # {} => Max(T) \in T
  <2> HIDE DEF L, T
  <2>1. L # {} => Min(L) \in L
    BY <1>1, MinFacts
  <2>2. T # {} => Max(T) \in T
    BY <1>1, MaxFacts
  <2> QED BY <2>1, <2>2
<1>4. SelectFramingGo(lines) =
        IF Cardinality(L) > 1 \/ (L # {} /\ T # {}) THEN Blank
        ELSE IF L # {} THEN lines[Min(L)]
        ELSE IF Cardinality(T) = 1 /\ lines[Max(T)] \in ChunkedFields
        THEN lines[Max(T)] ELSE Blank
  BY DEF SelectFramingGo
<1>5. \A k \in DOMAIN lines : OneField(lines, k) <=>
        lines[k] \in DOMAIN LengthFields \cup ChunkedFields /\ L \cup T = {k}
  BY DEF OneField
<1> HIDE DEF L, T
<1>6. CASE Cardinality(L) > 1 \/ (L # {} /\ T # {})
  BY <1>1, <1>2, <1>4, <1>5, <1>6 DEF Selects
<1>7. CASE ~(Cardinality(L) > 1 \/ (L # {} /\ T # {})) /\ L # {}
  <2>1. L = {Min(L)} /\ L \cup T = {Min(L)} /\ Min(L) \in DOMAIN lines
    BY <1>1, <1>2, <1>3, <1>7
  <2>2. OneField(lines, Min(L)) /\ SelectFramingGo(lines) = lines[Min(L)] /\ lines[Min(L)] # Blank
    BY <1>1, <1>3, <1>4, <1>5, <1>7, <2>1
  <2> QED BY <2>1, <2>2 DEF Selects
<1>8. CASE L = {} /\ Cardinality(T) = 1
  <2>1. PICK k \in T : T = {k}
    BY <1>2, <1>8
  <2>2. Max(T) = k /\ L \cup T = {k} /\ k \in DOMAIN lines
    BY <1>1, <1>3, <1>8, <2>1
  <2>3. SelectFramingGo(lines) = IF lines[k] \in ChunkedFields THEN lines[k] ELSE Blank
    BY <1>2, <1>4, <1>8, <2>2
  <2>4. \A i \in DOMAIN lines : OneField(lines, i) <=> i = k /\ lines[k] \in ChunkedFields
    BY <1>1, <1>5, <2>2
  <2> QED BY <1>1, <2>1, <2>2, <2>3, <2>4 DEF Selects
<1>9. CASE L = {} /\ Cardinality(T) # 1
  <2>1. SelectFramingGo(lines) = Blank
    BY <1>2, <1>4, <1>9
  <2>2. \A k \in DOMAIN lines : ~OneField(lines, k)
    BY <1>1, <1>2, <1>5, <1>9
  <2> QED BY <2>1, <2>2 DEF Selects
<1> QED BY <1>6, <1>7, <1>8, <1>9

LEMMA RustSelects ==
  ASSUME NEW n \in Nat, NEW lines, DOMAIN lines = 1 .. n
  PROVE  Selects(lines, SelectFramingRust(lines))
<1> DEFINE L == LengthLines(lines)
           T == TransferLines(lines)
<1>1. /\ L \in SUBSET (1 .. n) /\ T \in SUBSET (1 .. n) /\ L \cap T = {}
      /\ \A k \in L : lines[k] \in DOMAIN LengthFields /\ lines[k] # Blank
      /\ \A k \in T : lines[k] # Blank /\ lines[k] \notin DOMAIN LengthFields
      /\ \A k \in 1 .. n : lines[k] \in ChunkedFields => k \in T
  BY FieldLinesApart
<1>2. /\ Cardinality(L) > 1 <=> \E i, j \in L : i # j
      /\ Cardinality(T) > 1 <=> \E i, j \in T : i # j
  BY <1>1, SizeOfPositions
<1>3. /\ L # {} => Min(L) \in L
      /\ T # {} => Min(T) \in T
  BY <1>1, MinFacts
<1>4. SelectFramingRust(lines) =
        IF Cardinality(L) > 1 \/ Cardinality(T) > 1 THEN Blank
        ELSE IF L # {} /\ T = {} THEN lines[Min(L)]
        ELSE IF T # {} /\ L = {} /\ lines[Min(T)] \in ChunkedFields
        THEN lines[Min(T)] ELSE Blank
  BY DEF SelectFramingRust
<1>5. \A k \in DOMAIN lines : OneField(lines, k) <=>
        lines[k] \in DOMAIN LengthFields \cup ChunkedFields /\ L \cup T = {k}
  BY DEF OneField
<1> HIDE DEF L, T
<1>6. CASE Cardinality(L) > 1 \/ Cardinality(T) > 1 \/ (L # {} /\ T # {}) \/ L \cup T = {}
  BY <1>1, <1>2, <1>4, <1>5, <1>6 DEF Selects
<1>7. CASE ~(Cardinality(L) > 1) /\ L # {} /\ T = {}
  <2>1. L \cup T = {Min(L)} /\ Min(L) \in DOMAIN lines
    BY <1>1, <1>2, <1>3, <1>7
  <2>2. OneField(lines, Min(L)) /\ SelectFramingRust(lines) = lines[Min(L)] /\ lines[Min(L)] # Blank
    BY <1>1, <1>2, <1>3, <1>4, <1>5, <1>7, <2>1
  <2> QED BY <2>1, <2>2 DEF Selects
<1>8. CASE ~(Cardinality(T) > 1) /\ L = {} /\ T # {}
  <2>1. L \cup T = {Min(T)} /\ Min(T) \in DOMAIN lines
    BY <1>1, <1>2, <1>3, <1>8
  <2>2. SelectFramingRust(lines) = IF lines[Min(T)] \in ChunkedFields THEN lines[Min(T)] ELSE Blank
    BY <1>2, <1>4, <1>8
  <2>3. \A i \in DOMAIN lines : OneField(lines, i) <=> i = Min(T) /\ lines[i] \in ChunkedFields
    BY <1>1, <1>3, <1>5, <1>8, <2>1
  <2> QED BY <1>1, <1>3, <1>8, <2>1, <2>2, <2>3 DEF Selects
<1> QED BY <1>6, <1>7, <1>8

\* What the loop of select_framing knows after the first i lines.
Seen == [ok : BOOLEAN, length : DOMAIN LengthFields \cup {Blank}, transfer : ChunkedFields \cup {Blank}]
NoneSeen == [ok |-> TRUE, length |-> Blank, transfer |-> Blank]
SeenUpto(v, lines, i) ==
  LET L == LengthLines(lines) \cap (1 .. i)
      T == TransferLines(lines) \cap (1 .. i)
  IN  IF v.ok
      THEN /\ \/ v.length = Blank /\ L = {}
              \/ \E k \in L : L = {k} /\ v.length = lines[k]
           /\ \/ v.transfer = Blank /\ T = {}
              \/ \E k \in T : T = {k} /\ v.transfer = lines[k]
      ELSE \/ \E j, k \in L : j # k
           \/ \E j, k \in T : j # k
           \/ \E k \in T : lines[k] \notin ChunkedFields

LEMMA SelectStepType ==
  ASSUME NEW v \in Seen, NEW f
  PROVE  SelectStep(v, f) \in Seen
BY DEF SelectStep, Seen

LEMMA SelectSteps ==
  ASSUME NEW n \in Nat, NEW lines, DOMAIN lines = 1 .. n
  PROVE  \E w \in [0 .. n -> Seen] :
           /\ w[0] = NoneSeen /\ w[n] = FoldLeft(SelectStep, NoneSeen, lines)
           /\ \A i \in 1 .. n : w[i] = SelectStep(w[i - 1], lines[i])
<1> DEFINE g == [p \in (1 .. n) \X Seen |-> SelectStep(p[2], lines[p[1]])]
           iter[s \in SUBSET DOMAIN lines] ==
             IF s = {} THEN NoneSeen ELSE SelectStep(iter[s \ {Max(s)}], lines[Max(s)])
<1>1. FoldLeft(SelectStep, NoneSeen, lines) = iter[DOMAIN lines]
  BY DEF FoldLeft, MapThenFoldSet
<1>2. g \in [(1 .. n) \X Seen -> Seen] /\ NoneSeen \in Seen
  <2>1. NoneSeen \in Seen
    BY DEF NoneSeen, Seen
  <2>2. \A p \in (1 .. n) \X Seen : SelectStep(p[2], lines[p[1]]) \in Seen
    BY SelectStepType
  <2> HIDE DEF Seen
  <2> QED BY <2>1, <2>2
<1>3. Folding(n, Seen, NoneSeen, g)
  <2> HIDE DEF g
  <2> QED BY <1>2 DEF Folding
<1>4. PICK f \in [SUBSET (1 .. n) -> Seen] : Folded(f, n, NoneSeen, g)
  <2> HIDE DEF g
  <2> QED BY <1>3, FoldingFunction
<1>5. f = [s \in SUBSET DOMAIN lines |->
             IF s = {} THEN NoneSeen ELSE SelectStep(f[s \ {Max(s)}], lines[Max(s)])]
  <2> SUFFICES ASSUME NEW s \in SUBSET (1 .. n), s # {}
               PROVE  f[s] = SelectStep(f[s \ {Max(s)}], lines[Max(s)])
    BY <1>4 DEF Folded
  <2>1. Max(s) \in 1 .. n
    BY MaxFacts
  <2>2. s \ {Max(s)} \in SUBSET (1 .. n) /\ f[s \ {Max(s)}] \in Seen
    BY <1>4
  <2> QED BY <1>4, <2>1, <2>2 DEF Folded
<1>6. iter = [s \in SUBSET DOMAIN lines |->
             IF s = {} THEN NoneSeen ELSE SelectStep(iter[s \ {Max(s)}], lines[Max(s)])]
  BY <1>5, Zenon
<1> HIDE DEF iter
<1>7. Folds(iter, n, Seen, NoneSeen, g)
  <2>1. iter[{}] = NoneSeen
    BY <1>6
  <2>2. ASSUME NEW s \in SUBSET (1 .. n), s # {}, iter[s \ {Max(s)}] \in Seen
        PROVE  iter[s] = g[<<Max(s), iter[s \ {Max(s)}]>>]
    <3>1. Max(s) \in 1 .. n
      BY <2>2, MaxFacts
    <3>2. iter[s] = SelectStep(iter[s \ {Max(s)}], lines[Max(s)])
      BY <1>6, <2>2
    <3> QED BY <2>2, <3>1, <3>2
  <2> QED BY <2>1, <2>2 DEF Folds
<1>8. PICK w \in [0 .. n -> Seen] :
        /\ w[0] = NoneSeen /\ w[n] = iter[1 .. n]
        /\ \A i \in 1 .. n : w[i] = g[<<i, w[i - 1]>>]
  <2> HIDE DEF g
  <2>1. PICK m, V : m = n /\ V = Seen
    OBVIOUS
  <2>2. Folding(m, V, NoneSeen, g) /\ Folds(iter, m, V, NoneSeen, g)
    BY <1>3, <1>7, <2>1
  <2>3. \E w \in [0 .. m -> V] :
          /\ w[0] = NoneSeen /\ w[m] = iter[1 .. m]
          /\ \A i \in 1 .. m : w[i] = g[<<i, w[i - 1]>>]
    BY <2>2, FoldSteps
  <2> QED BY <2>1, <2>3
<1>9. \A i \in 1 .. n : w[i] = SelectStep(w[i - 1], lines[i])
  <2> SUFFICES ASSUME NEW i \in 1 .. n PROVE w[i] = SelectStep(w[i - 1], lines[i])
    OBVIOUS
  <2>1. i - 1 \in 0 .. n /\ w[i - 1] \in Seen
    BY <1>8
  <2> QED BY <1>8, <2>1
<1> QED BY <1>1, <1>8, <1>9

LEMMA SeenOneMore ==
  ASSUME NEW n \in Nat, NEW lines, DOMAIN lines = 1 .. n, NEW i \in 0 .. n - 1,
         NEW v \in Seen, SeenUpto(v, lines, i)
  PROVE  SeenUpto(SelectStep(v, lines[i + 1]), lines, i + 1)
<1> DEFINE L == LengthLines(lines) \cap (1 .. i)
           T == TransferLines(lines) \cap (1 .. i)
           L1 == LengthLines(lines) \cap (1 .. i + 1)
           T1 == TransferLines(lines) \cap (1 .. i + 1)
           f == lines[i + 1]
           u == SelectStep(v, f)
<1>1. /\ i + 1 \in 1 .. n /\ i + 1 \notin 1 .. i /\ 1 .. i + 1 = (1 .. i) \cup {i + 1}
      /\ i + 1 \notin L /\ i + 1 \notin T
  OBVIOUS
<1>2. /\ L1 = IF f \in DOMAIN LengthFields THEN L \cup {i + 1} ELSE L
      /\ T1 = IF f \in TransferFields THEN T \cup {i + 1} ELSE T
  BY <1>1 DEF LengthLines, TransferLines
<1>3. /\ \A k \in L : lines[k] # Blank
      /\ \A k \in T : lines[k] # Blank
      /\ f \in DOMAIN LengthFields \cup TransferFields => f # Blank
      /\ DOMAIN LengthFields \cap TransferFields = {}
  BY FieldAssumption DEF LengthLines, TransferLines, Fields
<1>4. v.ok \in BOOLEAN /\ v \in Seen
  BY DEF Seen
<1>5. IF v.ok
      THEN /\ \/ v.length = Blank /\ L = {}
              \/ \E k \in L : L = {k} /\ v.length = lines[k]
           /\ \/ v.transfer = Blank /\ T = {}
              \/ \E k \in T : T = {k} /\ v.transfer = lines[k]
      ELSE \/ \E j, k \in L : j # k
           \/ \E j, k \in T : j # k
           \/ \E k \in T : lines[k] \notin ChunkedFields
  BY DEF SeenUpto
<1> HIDE DEF L, T, L1, T1, f
<1>6. IF u.ok
      THEN /\ \/ u.length = Blank /\ L1 = {}
              \/ \E k \in L1 : L1 = {k} /\ u.length = lines[k]
           /\ \/ u.transfer = Blank /\ T1 = {}
              \/ \E k \in T1 : T1 = {k} /\ u.transfer = lines[k]
      ELSE \/ \E j, k \in L1 : j # k
           \/ \E j, k \in T1 : j # k
           \/ \E k \in T1 : lines[k] \notin ChunkedFields
  <2>1. CASE ~v.ok
    <3>1. u = v /\ ~u.ok
      BY <2>1 DEF SelectStep
    <3>2. L \subseteq L1 /\ T \subseteq T1
      BY <1>2
    <3>3. \/ \E j, k \in L : j # k
          \/ \E j, k \in T : j # k
          \/ \E k \in T : lines[k] \notin ChunkedFields
      BY <1>5, <2>1
    <3> QED BY <3>1, <3>2, <3>3, Zenon
  <2>2. CASE v.ok /\ f \in DOMAIN LengthFields
    <3>1. u = IF v.length # Blank THEN [v EXCEPT !.ok = FALSE] ELSE [v EXCEPT !.length = f]
      BY <2>2 DEF SelectStep
    <3>2. L1 = L \cup {i + 1} /\ T1 = T /\ i + 1 \notin L
      BY <1>1, <1>2, <1>3, <2>2
    <3>3. CASE v.length # Blank
      <4>1. u.ok = FALSE
        BY <3>1, <3>3 DEF Seen
      <4>2. PICK k \in L : L = {k}
        BY <1>5, <2>2, <3>3
      <4>3. \E j, m \in L1 : j # m
        BY <3>2, <4>2
      <4> QED BY <4>1, <4>3
    <3>4. CASE v.length = Blank
      <4>1. u.ok = v.ok /\ u.length = f /\ u.transfer = v.transfer
        BY <3>1, <3>4 DEF Seen
      <4>2. L = {}
        BY <1>3, <1>5, <2>2, <3>4
      <4>3. L1 = {i + 1} /\ i + 1 \in L1 /\ u.length = lines[i + 1]
        BY <3>2, <4>1, <4>2 DEF f
      <4>4. \/ u.transfer = Blank /\ T1 = {}
            \/ \E k \in T1 : T1 = {k} /\ u.transfer = lines[k]
        BY <1>5, <2>2, <3>2, <4>1
      <4> QED BY <2>2, <4>1, <4>3, <4>4
    <3> QED BY <3>3, <3>4
  <2>3. CASE v.ok /\ f \in TransferFields
    <3>1. u = IF v.transfer # Blank \/ f \notin ChunkedFields
              THEN [v EXCEPT !.ok = FALSE] ELSE [v EXCEPT !.transfer = f]
      BY <1>3, <2>3 DEF SelectStep
    <3>2. T1 = T \cup {i + 1} /\ L1 = L /\ i + 1 \notin T
      BY <1>1, <1>2, <1>3, <2>3
    <3>3. CASE v.transfer # Blank \/ f \notin ChunkedFields
      <4>1. u.ok = FALSE
        BY <3>1, <3>3 DEF Seen
      <4>2. ASSUME v.transfer # Blank PROVE \E j, m \in T1 : j # m
        <5>1. PICK k \in T : T = {k}
          BY <1>5, <2>3, <4>2
        <5> QED BY <3>2, <5>1
      <4>3. ASSUME f \notin ChunkedFields PROVE \E k \in T1 : lines[k] \notin ChunkedFields
        BY <3>2, <4>3 DEF f
      <4> QED BY <3>3, <4>1, <4>2, <4>3
    <3>4. CASE ~(v.transfer # Blank \/ f \notin ChunkedFields)
      <4>1. u.ok = v.ok /\ u.length = v.length /\ u.transfer = f
        BY <3>1, <3>4 DEF Seen
      <4>2. T = {}
        BY <1>3, <1>5, <2>3, <3>4
      <4>3. T1 = {i + 1} /\ i + 1 \in T1 /\ u.transfer = lines[i + 1]
        BY <3>2, <4>1, <4>2 DEF f
      <4>4. \/ u.length = Blank /\ L1 = {}
            \/ \E k \in L1 : L1 = {k} /\ u.length = lines[k]
        BY <1>5, <2>3, <3>2, <4>1
      <4> QED BY <2>3, <4>1, <4>3, <4>4
    <3> QED BY <3>3, <3>4
  <2>4. CASE v.ok /\ f \notin DOMAIN LengthFields /\ f \notin TransferFields
    <3>1. u = v
      BY <2>4 DEF SelectStep
    <3>2. L1 = L /\ T1 = T
      BY <1>2, <2>4
    <3> QED BY <1>5, <3>1, <3>2, Zenon
  <2> QED BY <1>4, <2>1, <2>2, <2>3, <2>4
<1> QED BY <1>6 DEF SeenUpto, L1, T1, f

LEMMA CSelects ==
  ASSUME NEW n \in Nat, NEW lines, DOMAIN lines = 1 .. n
  PROVE  Selects(lines, SelectFramingC(lines))
<1>1. PICK w \in [0 .. n -> Seen] :
        /\ w[0] = NoneSeen /\ w[n] = FoldLeft(SelectStep, NoneSeen, lines)
        /\ \A i \in 1 .. n : w[i] = SelectStep(w[i - 1], lines[i])
  BY SelectSteps
<1> DEFINE G == {i \in Nat : i <= n => SeenUpto(w[i], lines, i)}
<1>2. 0 \in G
  <2>1. 1 .. 0 = {} /\ NoneSeen.ok /\ NoneSeen.length = Blank /\ NoneSeen.transfer = Blank
    BY DEF NoneSeen
  <2> QED BY <1>1, <2>1 DEF SeenUpto
<1>3. ASSUME NEW i \in Nat, i \in G PROVE i + 1 \in G
  <2> SUFFICES ASSUME i + 1 <= n PROVE SeenUpto(w[i + 1], lines, i + 1)
    OBVIOUS
  <2>1. i \in 0 .. n - 1 /\ i + 1 \in 1 .. n /\ (i + 1) - 1 = i /\ w[i] \in Seen
    BY <1>1
  <2>2. SeenUpto(w[i], lines, i)
    BY <1>3, <2>1
  <2>3. w[i + 1] = SelectStep(w[i], lines[i + 1])
    BY <1>1, <2>1
  <2> QED BY <2>1, <2>2, <2>3, SeenOneMore
<1>4. \A i \in Nat : i \in G
  <2> HIDE DEF G
  <2> QED BY <1>2, <1>3, Induction
<1>5. SeenUpto(w[n], lines, n) /\ w[n] \in Seen
  BY <1>1, <1>4
<1> DEFINE v == w[n]
           L == LengthLines(lines)
           T == TransferLines(lines)
<1>6. /\ L \in SUBSET (1 .. n) /\ T \in SUBSET (1 .. n) /\ L \cap T = {}
      /\ \A k \in L : lines[k] \in DOMAIN LengthFields /\ lines[k] # Blank
      /\ \A k \in T : lines[k] # Blank /\ lines[k] \notin DOMAIN LengthFields
      /\ \A k \in 1 .. n : lines[k] \in ChunkedFields => k \in T
  BY FieldLinesApart
<1>7. L \cap (1 .. n) = L /\ T \cap (1 .. n) = T
  BY <1>6
<1>8. IF v.ok
      THEN /\ \/ v.length = Blank /\ L = {}
              \/ \E k \in L : L = {k} /\ v.length = lines[k]
           /\ \/ v.transfer = Blank /\ T = {}
              \/ \E k \in T : T = {k} /\ v.transfer = lines[k]
      ELSE \/ \E j, k \in L : j # k
           \/ \E j, k \in T : j # k
           \/ \E k \in T : lines[k] \notin ChunkedFields
  BY <1>5, <1>7 DEF SeenUpto
<1>9. /\ SelectFramingC(lines) =
           IF ~v.ok THEN Blank
           ELSE IF v.transfer = Blank THEN v.length
           ELSE IF v.length = Blank THEN v.transfer ELSE Blank
      /\ v.transfer \in ChunkedFields \cup {Blank}
  BY <1>1, <1>5 DEF SelectFramingC, NoneSeen, Seen
<1>10. \A k \in DOMAIN lines : OneField(lines, k) <=>
        lines[k] \in DOMAIN LengthFields \cup ChunkedFields /\ L \cup T = {k}
  BY DEF OneField
<1> HIDE DEF v, L, T
<1>11. CASE ~v.ok
  <2>1. SelectFramingC(lines) = Blank
    BY <1>9, <1>11
  <2>2. \A k \in DOMAIN lines : ~OneField(lines, k)
    BY <1>6, <1>8, <1>10, <1>11
  <2> QED BY <2>1, <2>2 DEF Selects
<1>12. CASE v.ok /\ T = {} /\ L = {}
  <2>1. SelectFramingC(lines) = Blank
    BY <1>8, <1>9, <1>12
  <2>2. \A k \in DOMAIN lines : ~OneField(lines, k)
    BY <1>10, <1>12
  <2> QED BY <2>1, <2>2 DEF Selects
<1>13. CASE v.ok /\ T = {} /\ L # {}
  <2>1. PICK k \in L : L = {k} /\ v.length = lines[k]
    BY <1>8, <1>13
  <2>2. v.transfer = Blank
    BY <1>8, <1>13
  <2>3. SelectFramingC(lines) = lines[k] /\ lines[k] # Blank /\ OneField(lines, k) /\ k \in DOMAIN lines
    BY <1>6, <1>9, <1>10, <1>13, <2>1, <2>2
  <2> QED BY <2>3 DEF Selects
<1>14. CASE v.ok /\ T # {}
  <2>1. PICK k \in T : T = {k} /\ v.transfer = lines[k]
    BY <1>8, <1>14
  <2>2. v.transfer # Blank /\ lines[k] \in ChunkedFields
    BY <1>6, <1>9, <2>1
  <2>3. CASE L = {}
    <3>1. v.length = Blank
      BY <1>8, <1>14, <2>3
    <3>2. SelectFramingC(lines) = lines[k] /\ lines[k] # Blank /\ OneField(lines, k) /\ k \in DOMAIN lines
      BY <1>6, <1>9, <1>10, <1>14, <2>1, <2>2, <2>3, <3>1
    <3> QED BY <3>2 DEF Selects
  <2>4. CASE L # {}
    <3>1. v.length # Blank
      BY <1>6, <1>8, <1>14, <2>4
    <3>2. SelectFramingC(lines) = Blank
      BY <1>9, <1>14, <2>2, <3>1
    <3>3. \A i \in DOMAIN lines : ~OneField(lines, i)
      BY <1>6, <1>10, <2>1, <2>4
    <3> QED BY <3>2, <3>3 DEF Selects
  <2> QED BY <2>3, <2>4
<1> QED BY <1>11, <1>12, <1>13, <1>14

-----------------------------------------------------------------------------
(* Heads: what the servers accept is what the contract asks for.           *)

Select(l, lines) ==
  IF l = "c" THEN SelectFramingC(lines)
  ELSE IF l = "go" THEN SelectFramingGo(lines) ELSE SelectFramingRust(lines)
HeadAccepted(l, head) ==
  /\ RequestComplete(head) /\ EchoRequest(head) /\ HeadersParsed(head)
  /\ Select(l, FieldLines(head)) # Blank

Framings == DOMAIN LengthFields \cup ChunkedFields
Chosen(head) == CHOOSE f \in ToSet(head) : f \in Framings

\* A first line, field lines and the empty line.
WholeHead(head) ==
  LET n == Len(head) IN
  /\ n \in Nat /\ n >= 2 /\ DOMAIN head = 1 .. n /\ head[n] = Blank
  /\ DOMAIN FieldLines(head) = 1 .. n - 2
  /\ \A k \in 1 .. n - 2 : FieldLines(head)[k] = head[k + 1]

LEMMA HeadShape ==
  ASSUME NEW tokens \in Seq(STRING), HasHead(tokens)
  PROVE  /\ Min(HeadEnds(tokens)) \in 2 .. Len(tokens)
         /\ tokens[Min(HeadEnds(tokens))] = Blank
         /\ \A i \in 2 .. Min(HeadEnds(tokens)) - 1 : tokens[i] # Blank
         /\ WholeHead(HeadOf(tokens)) /\ BodyOf(tokens) \in Seq(STRING)
<1> DEFINE n == Min(HeadEnds(tokens))
           head == HeadOf(tokens)
<1>1. Len(tokens) \in Nat
  BY LenProperties
<1>2. n \in HeadEnds(tokens) /\ \A i \in HeadEnds(tokens) : n <= i
  <2>1. HeadEnds(tokens) \in SUBSET Nat /\ HeadEnds(tokens) # {}
    BY <1>1 DEF HeadEnds, HasHead
  <2> QED BY <2>1, MinFacts
<1> HIDE DEF n
<1>3. /\ n \in 2 .. Len(tokens) /\ tokens[n] = Blank
      /\ \A i \in 2 .. n - 1 : tokens[i] # Blank
  BY <1>1, <1>2 DEF HeadEnds
<1>4. /\ 1 \in Nat \ {0} /\ n \in 0 .. Len(tokens) /\ n + 1 \in Nat \ {0} /\ Len(tokens) \in 0 .. Len(tokens)
      /\ 1 <= n /\ n - 1 + 1 = n /\ 0 \in Nat /\ n \in 0 .. Len(tokens) /\ 0 + 1 = 1 /\ n - 0 = n
  BY <1>1, <1>3
<1>5. SubSeq(tokens, 1, n) \in Seq(STRING) /\ Len(SubSeq(tokens, 1, n)) = n
  BY <1>4, WindowType
<1>6. SubSeq(tokens, n + 1, Len(tokens)) \in Seq(STRING)
  BY <1>4, WindowType
<1>7. head = SubSeq(tokens, 1, n)
  BY DEF HeadOf, n
<1>8. head \in Seq(STRING) /\ Len(head) = n
  BY <1>5, <1>7
<1>9. DOMAIN head = 1 .. n /\ head[n] = Blank
  <2>1. DOMAIN head = 1 .. n
    BY <1>8, LenProperties
  <2>2. n \in 1 .. n - 0
    BY <1>3
  <2>3. SubSeq(tokens, 0 + 1, n)[n] = tokens[0 + n]
    BY <1>4, <2>2, WindowElement
  <2> QED BY <1>3, <1>4, <1>7, <2>1, <2>3
<1> HIDE DEF head
<1>10. /\ DOMAIN SubSeq(head, 2, n - 1) = 1 .. n - 2
       /\ \A k \in 1 .. n - 2 : SubSeq(head, 2, n - 1)[k] = head[k + 1]
  <2>1. /\ 2 \in Nat \ {0} /\ n - 1 \in 0 .. Len(head) /\ n - 1 \in 1 .. Len(head) /\ 1 \in Nat
        /\ 1 + 1 = 2 /\ (n - 1) - 1 = n - 2 /\ n - 2 \in Nat /\ (n - 1) - 2 + 1 = n - 2
        /\ \A k \in 1 .. n - 2 : 1 + k = k + 1
    BY <1>3, <1>8
  <2>2. SubSeq(head, 2, n - 1) \in Seq(STRING) /\ Len(SubSeq(head, 2, n - 1)) = n - 2
    <3>1. /\ SubSeq(head, 2, n - 1) \in Seq(STRING)
          /\ Len(SubSeq(head, 2, n - 1)) = IF 2 <= n - 1 THEN (n - 1) - 2 + 1 ELSE 0
      BY <1>8, <2>1, WindowType
    <3> QED BY <2>1, <3>1
  <2>3. \A k \in 1 .. n - 2 : SubSeq(head, 2, n - 1)[k] = head[k + 1]
    <3> SUFFICES ASSUME NEW k \in 1 .. n - 2 PROVE SubSeq(head, 2, n - 1)[k] = head[k + 1]
      OBVIOUS
    <3>1. k \in 1 .. (n - 1) - 1
      BY <2>1
    <3>2. SubSeq(head, 1 + 1, n - 1)[k] = head[1 + k]
      BY <1>8, <2>1, <3>1, WindowElement
    <3> QED BY <2>1, <3>2
  <2> QED BY <2>2, <2>3, LenProperties
<1>11. WholeHead(head)
  BY <1>3, <1>8, <1>9, <1>10 DEF WholeHead, FieldLines
<1>12. BodyOf(tokens) \in Seq(STRING)
  BY <1>6 DEF BodyOf, n
<1> QED BY <1>3, <1>11, <1>12 DEF n, head

LEMMA AnySelects ==
  ASSUME NEW n \in Nat, NEW lines, DOMAIN lines = 1 .. n, NEW l
  PROVE  Selects(lines, Select(l, lines))
BY CSelects, GoSelects, RustSelects DEF Select

LEMMA AcceptsGoodHeads ==
  ASSUME NEW head, WholeHead(head), NEW l
  PROVE  /\ HeadAccepted(l, head) <=> GoodHead(head)
         /\ GoodHead(head) =>
              /\ Chosen(head) = Select(l, FieldLines(head))
              /\ Chosen(head) \in Framings /\ Chosen(head) # Blank
<1> DEFINE lines == FieldLines(head)
           n == Len(head)
           m == n - 2
<1>1. /\ n \in Nat /\ n >= 2 /\ DOMAIN head = 1 .. n /\ head[n] = Blank /\ m \in Nat
      /\ DOMAIN lines = 1 .. m /\ \A k \in 1 .. m : lines[k] = head[k + 1] /\ k + 1 \in 1 .. n
  BY DEF WholeHead
<1> HIDE DEF n, lines
<1>2. Selects(lines, Select(l, lines))
  BY <1>1, AnySelects
<1>3. GoodHead(head) <=>
        /\ head[1] = EchoLine /\ \A i \in 1 .. m : lines[i] \in Fields
        /\ \E k \in 1 .. m : OneField(lines, k)
  <2> DEFINE selected == {i \in DOMAIN lines : lines[i] \in DOMAIN LengthFields \cup TransferFields}
  <2>1. selected = LengthLines(lines) \cup TransferLines(lines) /\ selected \in SUBSET (1 .. m)
    BY <1>1 DEF LengthLines, TransferLines
  <2>2. GoodHead(head) <=>
          /\ head[1] = EchoLine /\ \A i \in 1 .. m : lines[i] \in Fields
          /\ Cardinality(selected) = 1
          /\ \A i \in selected : lines[i] \in DOMAIN LengthFields \cup ChunkedFields
    BY <1>1 DEF GoodHead, lines
  <2> HIDE DEF selected
  <2>3. Cardinality(selected) = 1 <=> \E k \in selected : selected = {k}
    <3>1. PICK j \in Nat : j = m
      BY <1>1
    <3>2. PICK s \in SUBSET (1 .. j) : s = selected
      BY <2>1, <3>1
    <3>3. Cardinality(s) = 1 <=> \E k \in s : s = {k}
      BY SizeOfPositions
    <3> QED BY <3>2, <3>3
  <2> QED BY <1>1, <2>1, <2>2, <2>3 DEF OneField
<1>4. HeadersParsed(head) <=> \A i \in 1 .. m : lines[i] \in Fields
  BY <1>1 DEF HeadersParsed, ToSet, lines
<1>5. head[1] = EchoLine /\ (\A i \in 1 .. m : lines[i] \in Fields) => RequestComplete(head)
  <2> SUFFICES ASSUME head[1] = EchoLine, \A i \in 1 .. m : lines[i] \in Fields, NEW i \in 1 .. n
               PROVE  head[i] \notin BareLines
    BY <1>1, FieldAssumption DEF RequestComplete
  <2>1. CASE i = 1 \/ i = n
    BY <1>1, <2>1, FieldAssumption
  <2>2. CASE ~(i = 1 \/ i = n)
    <3>1. i - 1 \in 1 .. m /\ (i - 1) + 1 = i
      BY <1>1, <2>2
    <3>2. head[i] \in Fields
      BY <1>1, <3>1
    <3> QED BY <3>2, FieldAssumption
  <2> QED BY <2>1, <2>2
<1>6. Select(l, lines) # Blank <=> \E k \in 1 .. m : OneField(lines, k)
  BY <1>1, <1>2 DEF Selects
<1>7. HeadAccepted(l, head) <=> GoodHead(head)
  BY <1>3, <1>4, <1>5, <1>6 DEF HeadAccepted, EchoRequest, lines
<1>8. ASSUME GoodHead(head)
      PROVE  Chosen(head) = Select(l, lines) /\ Chosen(head) \in Framings /\ Chosen(head) # Blank
  <2>1. PICK k \in 1 .. m : OneField(lines, k) /\ Select(l, lines) = lines[k] /\ lines[k] # Blank
    BY <1>1, <1>2, <1>3, <1>8 DEF Selects
  <2>2. lines[k] \in ToSet(head) /\ lines[k] \in Framings
    BY <1>1, <2>1 DEF OneField, Framings, ToSet
  <2>3. ASSUME NEW f \in ToSet(head), f \in Framings PROVE f = lines[k]
    <3>1. PICK i \in 1 .. n : f = head[i]
      BY <1>1 DEF ToSet
    <3>2. f \in Fields
      BY <2>3, FieldAssumption DEF Framings, Fields
    <3>3. i # 1 /\ i # n
      BY <1>1, <1>3, <1>8, <3>1, <3>2, FieldAssumption
    <3>4. i - 1 \in 1 .. m /\ (i - 1) + 1 = i
      BY <1>1, <3>3
    <3>5. lines[i - 1] = f
      BY <1>1, <3>1, <3>4
    <3>6. i - 1 \in LengthLines(lines) \cup TransferLines(lines)
      BY <1>1, <2>3, <3>4, <3>5, FieldAssumption DEF LengthLines, TransferLines, Framings
    <3> QED BY <2>1, <3>5, <3>6 DEF OneField
  <2> QED BY <2>1, <2>2, <2>3 DEF Chosen
<1> QED BY <1>7, <1>8 DEF lines

-----------------------------------------------------------------------------
(* Bodies: what the three parsers decide is what the contract says of the  *)
(* same bytes, or in Rust of the same bytes and a line feed.               *)

Languages == {"c", "go", "rust"}
BodyIn(l, f, bytes) ==
  IF l = "c" THEN BodyC(f, bytes)
  ELSE IF l = "go" THEN BodyGo(f, bytes) ELSE BodyRust(f, bytes)

\* The head of tokens is complete and good, and f is the framing it selects.
Begun(tokens, f) ==
  /\ tokens \in Seq(STRING) /\ HasHead(tokens) /\ GoodHead(HeadOf(tokens))
  /\ f = Chosen(HeadOf(tokens)) /\ f \in Framings

\* What a body parser's answer b says of the message in tokens.
Verdict(l, tokens, b) ==
  /\ b.state \in {"incomplete", "complete", "invalid"} /\ b.body \in Seq(STRING)
  /\ b.state = "incomplete" => MessageIn(l, tokens).state = "incomplete"
  /\ b.state = "complete" => /\ MessageIn(l, tokens).state = "complete"
                             /\ b.body = MessageIn(l, tokens).body
  /\ b.state = "invalid" =>
       \/ MessageIn(l, tokens).state = "invalid"
       \/ l = "rust" /\ MessageIn(l, Append(tokens, LF)).state = "invalid"

LEMMA LimitType == \A l : Limit(l) \in Nat
BY SizeMaxAssumption DEF Limit

LEMMA SizesAgree ==
  /\ SizesC = ChunkSize("c") /\ SizesC \in SizeFunction
  /\ SizesGo = ChunkSize("go") /\ SizesGo \in SizeFunction
  /\ SizesRust = ChunkSize("rust") /\ SizesRust \in SizeFunction
<1>1. ASSUME NEW t \in Seq(STRING)
      PROVE  /\ ParseChunkSizeC(t) = HexSize(UnsignedPart("c", t), Limit("c"))
             /\ FinishChunkSizeGo(t) = HexSize(UnsignedPart("go", t), Limit("go"))
             /\ ParseChunkSizeRust(t) = HexSize(UnsignedPart("rust", t), Limit("rust"))
  <2>1. /\ UnsignedPart("c", t) = t /\ Limit("c") = SIZE_MAX
        /\ UnsignedPart("go", t) = t /\ Limit("go") = SIZE_MAX \div 2
        /\ UnsignedPart("rust", t) = Unsigned(t) /\ Limit("rust") = SIZE_MAX
    BY DEF UnsignedPart, Unsigned, Limit
  <2> QED BY <2>1, SizeLines
<1>2. ASSUME NEW t \in Seq(STRING), NEW l \in Languages
      PROVE  HexSize(UnsignedPart(l, t), Limit(l)) \in Nat \cup {BAD}
  <2>1. UnsignedPart(l, t) \in Seq(STRING)
    <3>1. UnsignedPart(l, t) = IF l = "rust" THEN Unsigned(t) ELSE t
      BY DEF UnsignedPart, Unsigned
    <3> QED BY <3>1, SizeLines
  <2>2. HexSize(UnsignedPart(l, t), Limit(l)) \in (0 .. Limit(l)) \cup {BAD} /\ Limit(l) \in Nat
    BY <2>1, LimitType, SizeType
  <2> QED BY <2>2
<1>3. /\ SizesC = [t \in Seq(STRING) |-> HexSize(UnsignedPart("c", t), Limit("c"))]
      /\ SizesGo = [t \in Seq(STRING) |-> HexSize(UnsignedPart("go", t), Limit("go"))]
      /\ SizesRust = [t \in Seq(STRING) |-> HexSize(UnsignedPart("rust", t), Limit("rust"))]
  BY <1>1 DEF SizesC, SizesGo, SizesRust
<1> QED BY <1>2, <1>3 DEF ChunkSize, SizeFunction, Languages

\* The answer b of a parser that takes a declared length, and the meaning m.
SameVerdict(b, m) ==
  /\ b.state \in {"incomplete", "complete", "invalid"} /\ b.body \in Seq(STRING)
  /\ b.state = m.state
  /\ b.state = "complete" => b.body = m.body

LEMMA LengthVerdict ==
  ASSUME NEW v \in Seq(STRING), NEW limit \in Nat, NEW bytes \in Seq(STRING)
  PROVE  SameVerdict(Declared(DecSize(v, limit), bytes),
                     IF AllIn(v, DecDigit) /\ Number(v, 10) <= limit
                     THEN Counted(bytes, Number(v, 10)) ELSE Malformed(<<>>))
<1> DEFINE n == Number(v, 10)
<1>1. Len(bytes) \in Nat
  BY LenProperties
<1>2. PICK b : b = Declared(DecSize(v, limit), bytes)
  OBVIOUS
<1>3. PICK m : m = IF AllIn(v, DecDigit) /\ n <= limit
                   THEN Counted(bytes, n) ELSE Malformed(<<>>)
  OBVIOUS
<1>4. CASE AllIn(v, DecDigit) /\ n <= limit
  <2>1. n \in Nat
    BY <1>4, NumberType DEF Bases
  <2>2. DecSize(v, limit) = n /\ n # BAD /\ m = Counted(bytes, n)
    BY <1>3, <1>4, <2>1 DEF DecSize, BAD
  <2> HIDE DEF n
  <2>3. b = [state |-> IF Len(bytes) < n THEN "incomplete" ELSE "complete",
             body  |-> SubSeq(bytes, 1, Min({n, Len(bytes)}))]
    BY <1>2, <2>2 DEF Declared
  <2>4. Min({n, Len(bytes)}) = IF n <= Len(bytes) THEN n ELSE Len(bytes)
    BY <1>1, <2>1, MinOfTwo
  <2>5. SubSeq(bytes, 1, Min({n, Len(bytes)})) \in Seq(STRING)
    <3>1. 1 \in Nat \ {0} /\ Min({n, Len(bytes)}) \in 0 .. Len(bytes)
      BY <1>1, <2>1, <2>4
    <3> QED BY <3>1, WindowType
  <2>6. b.body \in Seq(STRING) /\ b.body = SubSeq(bytes, 1, Min({n, Len(bytes)}))
    BY <2>3, <2>5
  <2>7. CASE Len(bytes) < n
    <3>1. m.state = "incomplete" /\ b.state = "incomplete"
      BY <2>2, <2>3, <2>7 DEF Counted, Open
    <3> QED BY <1>2, <1>3, <2>6, <3>1 DEF SameVerdict, n
  <2>8. CASE ~(Len(bytes) < n)
    <3>1. b.state = "complete"
      BY <2>3, <2>8
    <3>2. m = Finished(SubSeq(bytes, 1, n), SubSeq(bytes, n + 1, Len(bytes)))
      BY <2>2, <2>8 DEF Counted
    <3>3. m.state = "complete" /\ m.body = SubSeq(bytes, 1, n)
      BY <3>2 DEF Finished
    <3>4. Min({n, Len(bytes)}) = n
      BY <1>1, <2>1, <2>4, <2>8
    <3> QED BY <1>2, <1>3, <2>6, <3>1, <3>3, <3>4 DEF SameVerdict, n
  <2> QED BY <2>7, <2>8
<1>5. CASE ~(AllIn(v, DecDigit) /\ n <= limit)
  <2>1. DecSize(v, limit) = BAD /\ m = Malformed(<<>>)
    BY <1>3, <1>5 DEF DecSize
  <2>2. b = [state |-> "invalid", body |-> <<>>]
    BY <1>2, <2>1 DEF Declared
  <2>3. b.state = "invalid" /\ b.body \in Seq(STRING) /\ m.state = "invalid"
    BY <2>1, <2>2, EmptySeq DEF Malformed
  <2> QED BY <1>2, <1>3, <2>3 DEF SameVerdict
<1> QED BY <1>4, <1>5

LEMMA Prolonged ==
  ASSUME NEW s \in Seq(STRING), NEW t \in Seq(STRING), HasHead(s),
         Len(s) <= Len(t), SubSeq(t, 1, Len(s)) = s
  PROVE  HasHead(t) /\ HeadOf(t) = HeadOf(s) /\ Min(HeadEnds(t)) = Min(HeadEnds(s))
<1> DEFINE n == Min(HeadEnds(s))
           k == Min(HeadEnds(t))
<1>1. Len(s) \in Nat /\ Len(t) \in Nat
  BY LenProperties
<1>2. \A i \in 1 .. Len(s) : s[i] = t[i]
  <2> SUFFICES ASSUME NEW i \in 1 .. Len(s) PROVE s[i] = t[i]
    OBVIOUS
  <2>1. 0 \in Nat /\ Len(s) \in 0 .. Len(t) /\ i \in 1 .. Len(s) - 0 /\ 0 + 1 = 1 /\ 0 + i = i
    BY <1>1
  <2>2. SubSeq(t, 0 + 1, Len(s))[i] = t[0 + i]
    BY <2>1, WindowElement
  <2> QED BY <2>1, <2>2
<1>3. /\ n \in 2 .. Len(s) /\ s[n] = Blank
      /\ \A i \in 2 .. n - 1 : s[i] # Blank
  BY HeadShape
<1> HIDE DEF n
<1>4. n \in HeadEnds(t)
  BY <1>1, <1>2, <1>3 DEF HeadEnds
<1>5. HasHead(t)
  BY <1>4 DEF HasHead
<1>6. /\ k \in 2 .. Len(t) /\ t[k] = Blank
      /\ \A i \in 2 .. k - 1 : t[i] # Blank
  BY <1>5, HeadShape
<1> HIDE DEF k
<1>7. k = n
  <2>1. ~(n < k)
    BY <1>1, <1>2, <1>3, <1>6
  <2>2. ~(k < n)
    BY <1>1, <1>2, <1>3, <1>6
  <2> QED BY <1>1, <1>3, <1>6, <2>1, <2>2
<1>8. SubSeq(s, 1, n) = SubSeq(t, 1, n)
  <2>1. /\ 0 \in Nat /\ Len(s) \in 0 .. Len(t) /\ 1 \in 1 .. Len(s) - 0 + 1 /\ n \in 0 .. Len(s) - 0
        /\ 0 + 1 = 1 /\ 0 + n = n
    BY <1>1, <1>3
  <2>2. SubSeq(SubSeq(t, 0 + 1, Len(s)), 1, n) = SubSeq(t, 0 + 1, 0 + n)
    BY <2>1, WindowOfWindow
  <2> QED BY <2>1, <2>2
<1> QED BY <1>5, <1>7, <1>8 DEF HeadOf, n, k

LEMMA OneTokenMore ==
  ASSUME NEW tokens \in Seq(STRING), HasHead(tokens), NEW b \in STRING
  PROVE  /\ Append(tokens, b) \in Seq(STRING) /\ HasHead(Append(tokens, b))
         /\ HeadOf(Append(tokens, b)) = HeadOf(tokens)
         /\ BodyOf(Append(tokens, b)) = Append(BodyOf(tokens), b)
<1> DEFINE t == Append(tokens, b)
           n == Min(HeadEnds(tokens))
           k == Len(tokens)
<1>1. t \in Seq(STRING) /\ k \in Nat /\ Len(t) = k + 1 /\ t[k + 1] = b
  BY AppendParts DEF Longer
<1>2. SubSeq(t, 1, k) = tokens
  BY PrefixOfAppend, <1>1 DEF IsPrefix
<1> HIDE DEF t
<1>3. HasHead(t) /\ HeadOf(t) = HeadOf(tokens) /\ Min(HeadEnds(t)) = n
  BY <1>1, <1>2, Prolonged
<1>4. n \in 2 .. k
  BY HeadShape
<1> HIDE DEF n, k
<1>5. SubSeq(tokens, n + 1, k) = SubSeq(t, n + 1, k)
  <2>1. /\ 0 \in Nat /\ k \in 0 .. Len(t) /\ n + 1 \in 1 .. k - 0 + 1 /\ k \in 0 .. k - 0
        /\ 0 + 1 = 1 /\ 0 + (n + 1) = n + 1 /\ 0 + k = k
    BY <1>1, <1>4
  <2>2. SubSeq(SubSeq(t, 0 + 1, k), n + 1, k) = SubSeq(t, 0 + (n + 1), 0 + k)
    BY <1>1, <2>1, WindowOfWindow
  <2> QED BY <1>2, <2>1, <2>2
<1>6. Append(SubSeq(t, n + 1, k), t[k + 1]) = SubSeq(t, n + 1, k + 1)
  <2>1. k \in 0 .. Len(t) - 1 /\ n + 1 \in 1 .. k + 1
    BY <1>1, <1>4
  <2> QED BY <1>1, <2>1, WindowGrows
<1> QED BY <1>1, <1>3, <1>5, <1>6 DEF BodyOf, t, n, k

LEMMA MessageBegun ==
  ASSUME NEW l, NEW tokens, NEW f, Begun(tokens, f)
  PROVE  /\ MessageIn(l, tokens) = Framed(l, f, BodyOf(tokens))
         /\ MessageIn(l, Append(tokens, LF)) = Framed(l, f, Append(BodyOf(tokens), LF))
         /\ BodyOf(tokens) \in Seq(STRING)
<1>1. /\ HasHead(tokens) /\ tokens \in Seq(STRING)
      /\ GoodHead(HeadOf(tokens)) /\ f = Chosen(HeadOf(tokens))
  BY DEF Begun
<1>2. ASSUME NEW t, HasHead(t), HeadOf(t) = HeadOf(tokens)
      PROVE  MessageIn(l, t) = Framed(l, f, BodyOf(t))
  <2>1. EmptyLines(t) # {} /\ EmptyLines(t) = HeadEnds(t)
    BY <1>2 DEF EmptyLines, HasHead, HeadEnds
  <2> QED BY <1>1, <1>2, <2>1 DEF MessageIn, HeadOf, BodyOf, Chosen, Framings
<1>3. /\ HasHead(Append(tokens, LF)) /\ HeadOf(Append(tokens, LF)) = HeadOf(tokens)
      /\ BodyOf(Append(tokens, LF)) = Append(BodyOf(tokens), LF)
  BY <1>1, OneTokenMore, LineEndAssumption
<1>4. BodyOf(tokens) \in Seq(STRING)
  BY <1>1, HeadShape
<1>5. MessageIn(l, tokens) = Framed(l, f, BodyOf(tokens))
  BY <1>1, <1>2
<1>6. MessageIn(l, Append(tokens, LF)) = Framed(l, f, Append(BodyOf(tokens), LF))
  BY <1>2, <1>3
<1> QED BY <1>4, <1>5, <1>6

LEMMA BodyVerdict ==
  ASSUME NEW l \in Languages, NEW tokens, NEW f, Begun(tokens, f)
  PROVE  Verdict(l, tokens, BodyIn(l, f, BodyOf(tokens)))
<1>1. PICK bytes \in Seq(STRING) : bytes = BodyOf(tokens)
  BY MessageBegun
<1>2. /\ MessageIn(l, tokens) = Framed(l, f, bytes)
      /\ MessageIn(l, Append(tokens, LF)) = Framed(l, f, Append(bytes, LF))
  BY <1>1, MessageBegun
<1>3. PICK b : b = BodyIn(l, f, bytes)
  OBVIOUS
<1>4. CASE f \in ChunkedFields
  <2>1. PICK m \in Result : m = Decode(bytes, ChunkSize(l))
    <3>1. ChunkSize(l) \in SizeFunction
      BY SizesAgree DEF Languages
    <3> QED BY <3>1, DecodeEquation DEF SizeFunction
  <2>2. /\ MessageIn(l, tokens) = m
        /\ MessageIn(l, Append(tokens, LF)) = Decode(Append(bytes, LF), ChunkSize(l))
    BY <1>2, <1>4, <2>1 DEF Framed
  <2>3. CASE l # "rust" \/ b = Decoded(m)
    <3>1. b = Decoded(m)
      BY <1>3, <1>4, <2>1, <2>3, SizesAgree DEF BodyIn, BodyC, BodyGo, Languages
    <3>2. b.state = m.state /\ b.body = m.body
      BY <3>1 DEF Decoded
    <3> QED BY <1>1, <1>3, <2>2, <3>2 DEF Verdict, Result
  <2>4. CASE l = "rust" /\ b # Decoded(m)
    <3>1. b = IF m.state = "incomplete" /\ BadSizeLine(bytes)
              THEN [Decoded(m) EXCEPT !.state = "invalid"] ELSE Decoded(m)
      BY <1>3, <1>4, <2>1, <2>4, SizesAgree DEF BodyIn, BodyRust, Decoded
    <3>2. BadSizeLine(bytes) /\ b.state = "invalid" /\ b.body = m.body
      BY <2>4, <3>1 DEF Decoded
    <3>3. MessageIn(l, Append(tokens, LF)).state = "invalid"
      BY <2>2, <2>4, <3>2, SizesAgree DEF BadSizeLine
    <3> QED BY <1>1, <1>3, <2>4, <3>2, <3>3 DEF Verdict, Result
  <2> QED BY <2>3, <2>4
<1>5. CASE f \notin ChunkedFields
  <2>1. PICK v \in Seq(STRING) : v = LengthFields[f]
    BY <1>5, FieldAssumption DEF Begun, Framings
  <2>2. PICK limit \in Nat : limit = Limit(l)
    BY LimitType
  <2>3. b = Declared(DecSize(v, limit), bytes)
    BY <1>3, <1>5, <2>1, <2>2, LengthValues DEF BodyIn, BodyC, BodyGo, BodyRust, Languages, Limit
  <2>4. MessageIn(l, tokens) = IF AllIn(v, DecDigit) /\ Number(v, 10) <= limit
                               THEN Counted(bytes, Number(v, 10)) ELSE Malformed(<<>>)
    BY <1>2, <1>5, <2>1, <2>2 DEF Framed
  <2>5. SameVerdict(b, MessageIn(l, tokens))
    <3>1. SameVerdict(Declared(DecSize(v, limit), bytes),
                      IF AllIn(v, DecDigit) /\ Number(v, 10) <= limit
                      THEN Counted(bytes, Number(v, 10)) ELSE Malformed(<<>>))
      BY LengthVerdict
    <3> QED BY <2>3, <2>4, <3>1
  <2> QED BY <1>1, <1>3, <2>5 DEF Verdict, SameVerdict
<1> QED BY <1>4, <1>5

-----------------------------------------------------------------------------
(* What the servers do with a head and with a body, in these terms.        *)

LEMMA BegunLonger ==
  ASSUME NEW rq \in Seq(STRING), NEW b \in 0 .. Len(rq), NEW a \in 0 .. b,
         NEW f, Begun(SubSeq(rq, 1, a), f)
  PROVE  Begun(SubSeq(rq, 1, b), f)
<1>1. Len(rq) \in Nat
  BY LenProperties
<1>2. PICK s \in Seq(STRING) : s = SubSeq(rq, 1, a) /\ Len(s) = a
  <2>1. 1 \in Nat \ {0} /\ a \in 0 .. Len(rq) /\ (a = IF 1 <= a THEN a - 1 + 1 ELSE 0)
    BY <1>1
  <2>2. /\ SubSeq(rq, 1, a) \in Seq(STRING)
        /\ Len(SubSeq(rq, 1, a)) = IF 1 <= a THEN a - 1 + 1 ELSE 0
    BY <2>1, WindowType
  <2> QED BY <2>1, <2>2
<1>3. PICK t \in Seq(STRING) : t = SubSeq(rq, 1, b) /\ Len(t) = b
  <2>1. 1 \in Nat \ {0} /\ (b = IF 1 <= b THEN b - 1 + 1 ELSE 0)
    BY <1>1
  <2>2. /\ SubSeq(rq, 1, b) \in Seq(STRING)
        /\ Len(SubSeq(rq, 1, b)) = IF 1 <= b THEN b - 1 + 1 ELSE 0
    BY <2>1, WindowType
  <2> QED BY <2>1, <2>2
<1>4. SubSeq(t, 1, Len(s)) = s
  <2>1. /\ 0 \in Nat /\ b \in 0 .. Len(rq) /\ 1 \in 1 .. b - 0 + 1 /\ a \in 0 .. b - 0
        /\ 0 + 1 = 1 /\ 0 + a = a
    BY <1>1
  <2>2. SubSeq(SubSeq(rq, 0 + 1, b), 1, a) = SubSeq(rq, 0 + 1, 0 + a)
    BY <2>1, WindowOfWindow
  <2> QED BY <1>2, <1>3, <2>1, <2>2
<1>5. HasHead(s) /\ GoodHead(HeadOf(s)) /\ f = Chosen(HeadOf(s)) /\ f \in Framings
  BY <1>2 DEF Begun
<1>6. HasHead(t) /\ HeadOf(t) = HeadOf(s)
  <2>1. Len(s) <= Len(t)
    BY <1>2, <1>3
  <2> QED BY <1>4, <1>5, <2>1, Prolonged
<1> QED BY <1>3, <1>5, <1>6 DEF Begun

\* The judgement of a head: accepted with a framing, or malformed.
HeadJudged(l, tokens) ==
  LET head == HeadOf(tokens) IN
  /\ HeadAccepted(l, head) => /\ Begun(tokens, Select(l, FieldLines(head)))
                              /\ Select(l, FieldLines(head)) # Blank
  /\ ~HeadAccepted(l, head) => MessageIn(l, tokens).state = "invalid"

LEMMA HeadJudgement ==
  ASSUME NEW l, NEW tokens \in Seq(STRING), HasHead(tokens)
  PROVE  HeadJudged(l, tokens)
<1> DEFINE head == HeadOf(tokens)
<1>1. WholeHead(head)
  BY HeadShape
<1>2. /\ HeadAccepted(l, head) <=> GoodHead(head)
      /\ GoodHead(head) =>
           /\ Chosen(head) = Select(l, FieldLines(head))
           /\ Chosen(head) \in Framings /\ Chosen(head) # Blank
  BY <1>1, AcceptsGoodHeads
<1>3. ~GoodHead(head) => MessageIn(l, tokens).state = "invalid"
  <2>1. EmptyLines(tokens) # {} /\ EmptyLines(tokens) = HeadEnds(tokens)
    BY DEF EmptyLines, HasHead, HeadEnds
  <2>2. ~GoodHead(head) => MessageIn(l, tokens) = Malformed(<<>>)
    BY <2>1 DEF MessageIn, HeadOf
  <2> QED BY <2>2 DEF Malformed
<1> HIDE DEF head
<1>4. HeadAccepted(l, head) =>
        Begun(tokens, Select(l, FieldLines(head))) /\ Select(l, FieldLines(head)) # Blank
  BY <1>2 DEF Begun, head
<1> QED BY <1>2, <1>3, <1>4 DEF HeadJudged, head

LEMMA NoHeadYet ==
  ASSUME NEW l, NEW tokens, ~HasHead(tokens)
  PROVE  MessageIn(l, tokens).state = "incomplete"
<1>1. EmptyLines(tokens) = {}
  BY DEF EmptyLines, HasHead, HeadEnds
<1> QED BY <1>1 DEF MessageIn, Open

\* The three servers' own words for the same.
LEMMA InTheirWords ==
  /\ \A h : CHeadAccepted(h) <=> HeadAccepted("c", h)
  /\ \A h : GoHeadAccepted(h) <=> HeadAccepted("go", h)
  /\ \A h : RustHeadAccepted(h) <=> HeadAccepted("rust", h)
  /\ \A x : SelectFramingC(x) = Select("c", x)
  /\ \A x : SelectFramingGo(x) = Select("go", x)
  /\ \A x : SelectFramingRust(x) = Select("rust", x)
  /\ \A f, b : BodyC(f, b) = BodyIn("c", f, b)
  /\ \A f, b : BodyGo(f, b) = BodyIn("go", f, b)
  /\ \A f, b : BodyRust(f, b) = BodyIn("rust", f, b)
BY DEF CHeadAccepted, GoHeadAccepted, RustHeadAccepted, HeadAccepted, Select, BodyIn

-----------------------------------------------------------------------------
(* Control, and what is reported when.                                    *)

Reading == {"accept", "head", "body"}

\* Counters are numbers, and the program is at one of its control points.
Points ==
  /\ got \in Nat /\ written \in Nat
  /\ lang \in {"c", "go", "rust"}
  /\ pc \in {"accept", "head", "body", "write", "close", "report", "done"}

\* The response exists from the moment it is being written, the socket is
\* closed at the close and nothing is reported before the end.
Stages ==
  /\ pc \in Reading => response = NoResponse
  /\ pc = "write" => response # NoResponse
  /\ pc \in Reading \cup {"write", "close"} => serverEnd = "open"
  /\ pc = "report" => serverEnd = "open" \/ lang = "rust"
  /\ pc \in Reading \cup {"write", "report"} => reported = "none"
  /\ pc = "close" => reported = "none" \/ lang = "go"

\* The result is decided when writing ends, and is "ok" only after the last
\* byte of the response.
Results ==
  /\ pc \in Reading \cup {"write"} => result = "none"
  /\ pc \in {"close", "report"} => result \in {"ok", "error"}
  /\ result = "ok" => response # NoResponse /\ written = ResponseSize

\* What has been released, and published, at each control point.
NeverServed == fault /\ read = 0
Releases ==
  /\ pc = "accept" => read = 0
  /\ pc \notin {"accept", "done"} => ~listening
  /\ pc = "done" => ~listening \/ (NeverServed /\ lang # "rust")
  /\ lang = "rust" /\ pc \in {"report", "done"} => serverEnd # "open"
  /\ lang = "c" /\ pc = "done" => serverEnd # "open" \/ NeverServed
  /\ lang = "go" /\ pc \in {"write", "report", "close"} => channel = Received
  /\ lang = "go" /\ pc = "done" => channel = Received \/ NeverServed

Inv == Points /\ Stages /\ Results /\ Releases

-----------------------------------------------------------------------------
\* The invariant holds at the start, and no step of the client or of any of
\* the three servers breaks it.
LEMMA InitInv == Init => Inv
BY DEF Init, EchoInit, ConnectionInit, Inv, Points, Stages, Results, Releases,
       Reading, NoResponse, ResponseSize

USE DEF Inv, Reading

LEMMA ClientInv == Inv /\ Client(ClientNext) => Inv'
<1> SUFFICES ASSUME Inv, Client(ClientNext) PROVE Inv' OBVIOUS
<1> USE DEF Client, program, outcome, server
<1>1. CASE ClientSends
  BY <1>1 DEF ClientSends, Points, Stages, Results, Releases, NeverServed, Received, ResponseSize
<1>2. CASE ClientReads
  BY <1>2 DEF ClientReads, Points, Stages, Results, Releases, NeverServed, Received, ResponseSize
<1>3. CASE ClientCloses
  BY <1>3 DEF ClientCloses, Points, Stages, Results, Releases, NeverServed, Received, ResponseSize
<1>4. CASE ClientAborts
  BY <1>4 DEF ClientAborts, Points, Stages, Results, Releases, NeverServed, Received, ResponseSize
<1> QED BY <1>1, <1>2, <1>3, <1>4 DEF ClientNext

LEMMA CInv == Inv /\ CNext => Inv'
<1> SUFFICES ASSUME Inv, CNext PROVE Inv' OBVIOUS
<1> USE DEF At, Serving, Respond, Accept, Write, CloseSocket, ReadBytes, ReadsEnd, ReadFails,
            WriteBytes, WriteFails, CBodyEndsEarly,
            connection, client, server, outcome
<1>1. CASE CAccept
  BY <1>1, ConnectionAssumption DEF CAccept, Points, Stages, Results, Releases, NeverServed, Received, ResponseSize, NoResponse
<1>2. CASE CAcceptFails
  BY <1>2, ConnectionAssumption DEF CAcceptFails, Points, Stages, Results, Releases, NeverServed, Received, ResponseSize, NoResponse
<1>3. CASE CReadHead
  BY <1>3, ConnectionAssumption DEF CReadHead, Points, Stages, Results, Releases, NeverServed, Received, ResponseSize, NoResponse
<1>4. CASE CJudgeHead
  BY <1>4, ConnectionAssumption DEF CJudgeHead, Points, Stages, Results, Releases, NeverServed, Received, ResponseSize, NoResponse
<1>5. CASE CNoMemoryHead
  BY <1>5, ConnectionAssumption DEF CNoMemoryHead, Points, Stages, Results, Releases, NeverServed, Received, ResponseSize, NoResponse
<1>6. CASE CReadBody
  BY <1>6, ConnectionAssumption DEF CReadBody, Points, Stages, Results, Releases, NeverServed, Received, ResponseSize, NoResponse
<1>7. CASE CBodyDone
  BY <1>7, ConnectionAssumption DEF CBodyDone, Points, Stages, Results, Releases, NeverServed, Received, ResponseSize, NoResponse
<1>8. CASE CNoMemoryResponse
  BY <1>8, ConnectionAssumption DEF CNoMemoryResponse, Points, Stages, Results, Releases, NeverServed, Received, ResponseSize, NoResponse
<1>9. CASE CWrite
  BY <1>9, ConnectionAssumption DEF CWrite, Points, Stages, Results, Releases, NeverServed, Received, ResponseSize, NoResponse
<1>10. CASE CKilled
  BY <1>10, ConnectionAssumption DEF CKilled, Points, Stages, Results, Releases, NeverServed, Received, ResponseSize, NoResponse
<1>11. CASE CClose
  BY <1>11, ConnectionAssumption DEF CClose, Points, Stages, Results, Releases, NeverServed, Received, ResponseSize, NoResponse
<1> QED BY <1>1, <1>2, <1>3, <1>4, <1>5, <1>6, <1>7, <1>8, <1>9, <1>10, <1>11 DEF CNext

LEMMA GoInv == Inv /\ GoNext => Inv'
<1> SUFFICES ASSUME Inv, GoNext PROVE Inv' OBVIOUS
<1> USE DEF At, Serving, Respond, Accept, Write, CloseSocket, ReadBytes, ReadsEnd, ReadFails,
            WriteBytes, WriteFails, GoReject, GoGiveUp, Publish,
            connection, client, server, outcome
<1>1. CASE GoAccept
  BY <1>1, ConnectionAssumption DEF GoAccept, Points, Stages, Results, Releases, NeverServed, Received, ResponseSize, NoResponse
<1>2. CASE GoAcceptFails
  BY <1>2, ConnectionAssumption DEF GoAcceptFails, Points, Stages, Results, Releases, NeverServed, Received, ResponseSize, NoResponse
<1>3. CASE GoListenerCloseFails
  BY <1>3, ConnectionAssumption DEF GoListenerCloseFails, Points, Stages, Results, Releases, NeverServed, Received, ResponseSize, NoResponse
<1>4. CASE GoReadHead
  BY <1>4, ConnectionAssumption DEF GoReadHead, Points, Stages, Results, Releases, NeverServed, Received, ResponseSize, NoResponse
<1>5. CASE GoJudgeHead
  BY <1>5, ConnectionAssumption DEF GoJudgeHead, Points, Stages, Results, Releases, NeverServed, Received, ResponseSize, NoResponse
<1>6. CASE GoReadBody
  BY <1>6, ConnectionAssumption DEF GoReadBody, Points, Stages, Results, Releases, NeverServed, Received, ResponseSize, NoResponse
<1>7. CASE GoBodyDone
  BY <1>7, ConnectionAssumption DEF GoBodyDone, Points, Stages, Results, Releases, NeverServed, Received, ResponseSize, NoResponse
<1>8. CASE GoWrite
  BY <1>8, ConnectionAssumption DEF GoWrite, Points, Stages, Results, Releases, NeverServed, Received, ResponseSize, NoResponse
<1>9. CASE GoReport
  BY <1>9, ConnectionAssumption DEF GoReport, Points, Stages, Results, Releases, NeverServed, Received, ResponseSize, NoResponse
<1>10. CASE GoClose
  BY <1>10, ConnectionAssumption DEF GoClose, Points, Stages, Results, Releases, NeverServed, Received, ResponseSize, NoResponse
<1> QED BY <1>1, <1>2, <1>3, <1>4, <1>5, <1>6, <1>7, <1>8, <1>9, <1>10 DEF GoNext

LEMMA RustInv == Inv /\ RustNext => Inv'
<1> SUFFICES ASSUME Inv, RustNext PROVE Inv' OBVIOUS
<1> USE DEF At, Serving, Respond, Accept, Write, CloseSocket, ReadBytes, ReadsEnd, ReadFails,
            WriteBytes, WriteFails, RustGiveUp,
            connection, client, server, outcome
<1>1. CASE RustAccept
  BY <1>1, ConnectionAssumption DEF RustAccept, Points, Stages, Results, Releases, NeverServed, Received, ResponseSize, NoResponse
<1>2. CASE RustAcceptFails
  BY <1>2, ConnectionAssumption DEF RustAcceptFails, Points, Stages, Results, Releases, NeverServed, Received, ResponseSize, NoResponse
<1>3. CASE RustReadHead
  BY <1>3, ConnectionAssumption DEF RustReadHead, Points, Stages, Results, Releases, NeverServed, Received, ResponseSize, NoResponse
<1>4. CASE RustJudgeHead
  BY <1>4, ConnectionAssumption DEF RustJudgeHead, Points, Stages, Results, Releases, NeverServed, Received, ResponseSize, NoResponse
<1>5. CASE RustReadBody
  BY <1>5, ConnectionAssumption DEF RustReadBody, Points, Stages, Results, Releases, NeverServed, Received, ResponseSize, NoResponse
<1>6. CASE RustBodyDone
  BY <1>6, ConnectionAssumption DEF RustBodyDone, Points, Stages, Results, Releases, NeverServed, Received, ResponseSize, NoResponse
<1>7. CASE RustWrite
  BY <1>7, ConnectionAssumption DEF RustWrite, Points, Stages, Results, Releases, NeverServed, Received, ResponseSize, NoResponse
<1>8. CASE RustClose
  BY <1>8, ConnectionAssumption DEF RustClose, Points, Stages, Results, Releases, NeverServed, Received, ResponseSize, NoResponse
<1>9. CASE RustReport
  BY <1>9, ConnectionAssumption DEF RustReport, Points, Stages, Results, Releases, NeverServed, Received, ResponseSize, NoResponse
<1> QED BY <1>1, <1>2, <1>3, <1>4, <1>5, <1>6, <1>7, <1>8, <1>9 DEF RustNext

\* The invariant of the echo servers: control, response, result and resources
\* agree at every step, for every request, buffer size and word size.
THEOREM Invariance == Spec => []Inv
<1>1. Inv /\ UNCHANGED vars => Inv'
  BY DEF vars, connection, program, client, server, outcome, Points, Stages, Results,
         Releases, NeverServed, Received, ResponseSize
<1>2. Inv /\ [Next]_vars => Inv'
  BY <1>1, ClientInv, CInv, GoInv, RustInv DEF Next, ServerNext
<1> QED BY InitInv, <1>2, PTL DEF Spec

\* http_echo_server_serve_once returns, and Done gets its value, only when the
\* listener and (in C and Rust) the connection are closed; in Go, Received
\* already holds every byte read.
THEOREM ReportedWhenReleased == Spec => []ReportsWhenReleased
<1>1. Inv => ReportsWhenReleased
  BY DEF Points, Stages, Releases, NeverServed, ReportsWhenReleased
<1> QED BY <1>1, Invariance, PTL

-----------------------------------------------------------------------------
(* Each step of a server or of its client is a step of EchoExchange.       *)

observed == <<response, written, got, serverEnd, reported>>

LEMMA ClientStep ==
  Inv /\ Client(ClientNext) => Exchange!Next \/ UNCHANGED observed
<1> SUFFICES ASSUME Inv, Client(ClientNext) PROVE Exchange!Next \/ UNCHANGED observed
  OBVIOUS
<1> USE DEF Client, program, outcome, server, observed
<1>1. CASE ClientSends
  BY <1>1 DEF ClientSends, Exchange!Next, Exchange!End, Stages, Points
<1>2. CASE ClientReads
  BY <1>2 DEF ClientReads, Exchange!Next, Exchange!Deliver
<1>3. CASE ClientCloses
  BY <1>3 DEF ClientCloses
<1>4. CASE ClientAborts
  BY <1>4 DEF ClientAborts
<1> QED BY <1>1, <1>2, <1>3, <1>4 DEF ClientNext

LEMMA CStep ==
  Inv /\ CNext => Exchange!Next \/ UNCHANGED observed
<1> SUFFICES ASSUME Inv, CNext PROVE Exchange!Next \/ UNCHANGED observed
  OBVIOUS
<1> USE DEF At, Serving, Respond, Accept, Write, CloseSocket, WriteBytes, WriteFails,
            CBodyEndsEarly, connection, client, server, outcome, observed
<1>1. CASE CAccept
  BY <1>1, ConnectionAssumption
  DEF CAccept, Points, Stages, Results, ResponseSize, NoResponse,
      Exchange!Next, Exchange!Answer, Exchange!Transmit, Exchange!Report,
      Exchange!End, Exchange!Size
<1>2. CASE CAcceptFails
  BY <1>2, ConnectionAssumption
  DEF CAcceptFails, Points, Stages, Results, ResponseSize, NoResponse,
      Exchange!Next, Exchange!Answer, Exchange!Transmit, Exchange!Report,
      Exchange!End, Exchange!Size
<1>3. CASE CReadHead
  BY <1>3, ConnectionAssumption
  DEF CReadHead, Points, Stages, Results, ResponseSize, NoResponse,
      Exchange!Next, Exchange!Answer, Exchange!Transmit, Exchange!Report,
      Exchange!End, Exchange!Size
<1>4. CASE CJudgeHead
  BY <1>4, ConnectionAssumption
  DEF CJudgeHead, Points, Stages, Results, ResponseSize, NoResponse,
      Exchange!Next, Exchange!Answer, Exchange!Transmit, Exchange!Report,
      Exchange!End, Exchange!Size
<1>5. CASE CNoMemoryHead
  BY <1>5, ConnectionAssumption
  DEF CNoMemoryHead, Points, Stages, Results, ResponseSize, NoResponse,
      Exchange!Next, Exchange!Answer, Exchange!Transmit, Exchange!Report,
      Exchange!End, Exchange!Size
<1>6. CASE CReadBody
  BY <1>6, ConnectionAssumption
  DEF CReadBody, Points, Stages, Results, ResponseSize, NoResponse,
      Exchange!Next, Exchange!Answer, Exchange!Transmit, Exchange!Report,
      Exchange!End, Exchange!Size
<1>7. CASE CBodyDone
  BY <1>7, ConnectionAssumption
  DEF CBodyDone, Points, Stages, Results, ResponseSize, NoResponse,
      Exchange!Next, Exchange!Answer, Exchange!Transmit, Exchange!Report,
      Exchange!End, Exchange!Size
<1>8. CASE CNoMemoryResponse
  BY <1>8, ConnectionAssumption
  DEF CNoMemoryResponse, Points, Stages, Results, ResponseSize, NoResponse,
      Exchange!Next, Exchange!Answer, Exchange!Transmit, Exchange!Report,
      Exchange!End, Exchange!Size
<1>9. CASE CWrite
  BY <1>9, ConnectionAssumption
  DEF CWrite, Points, Stages, Results, ResponseSize, NoResponse,
      Exchange!Next, Exchange!Answer, Exchange!Transmit, Exchange!Report,
      Exchange!End, Exchange!Size
<1>10. CASE CKilled
  BY <1>10, ConnectionAssumption
  DEF CKilled, Points, Stages, Results, ResponseSize, NoResponse,
      Exchange!Next, Exchange!Answer, Exchange!Transmit, Exchange!Report,
      Exchange!End, Exchange!Size
<1>11. CASE CClose
  BY <1>11, ConnectionAssumption
  DEF CClose, Points, Stages, Results, ResponseSize, NoResponse,
      Exchange!Next, Exchange!Answer, Exchange!Transmit, Exchange!Report,
      Exchange!End, Exchange!Size
<1> QED BY <1>1, <1>2, <1>3, <1>4, <1>5, <1>6, <1>7, <1>8, <1>9, <1>10, <1>11 DEF CNext

LEMMA GoStep ==
  Inv /\ GoNext => Exchange!Next \/ UNCHANGED observed
<1> SUFFICES ASSUME Inv, GoNext PROVE Exchange!Next \/ UNCHANGED observed
  OBVIOUS
<1> USE DEF At, Serving, Respond, Accept, Write, CloseSocket, WriteBytes, WriteFails,
            GoReject, GoGiveUp, Publish, connection, client, server, outcome, observed
<1>1. CASE GoAccept
  BY <1>1, ConnectionAssumption
  DEF GoAccept, Points, Stages, Results, ResponseSize, NoResponse,
      Exchange!Next, Exchange!Answer, Exchange!Transmit, Exchange!Report,
      Exchange!End, Exchange!Size
<1>2. CASE GoAcceptFails
  BY <1>2, ConnectionAssumption
  DEF GoAcceptFails, Points, Stages, Results, ResponseSize, NoResponse,
      Exchange!Next, Exchange!Answer, Exchange!Transmit, Exchange!Report,
      Exchange!End, Exchange!Size
<1>3. CASE GoListenerCloseFails
  BY <1>3, ConnectionAssumption
  DEF GoListenerCloseFails, Points, Stages, Results, ResponseSize, NoResponse,
      Exchange!Next, Exchange!Answer, Exchange!Transmit, Exchange!Report,
      Exchange!End, Exchange!Size
<1>4. CASE GoReadHead
  BY <1>4, ConnectionAssumption
  DEF GoReadHead, Points, Stages, Results, ResponseSize, NoResponse,
      Exchange!Next, Exchange!Answer, Exchange!Transmit, Exchange!Report,
      Exchange!End, Exchange!Size
<1>5. CASE GoJudgeHead
  BY <1>5, ConnectionAssumption
  DEF GoJudgeHead, Points, Stages, Results, ResponseSize, NoResponse,
      Exchange!Next, Exchange!Answer, Exchange!Transmit, Exchange!Report,
      Exchange!End, Exchange!Size
<1>6. CASE GoReadBody
  BY <1>6, ConnectionAssumption
  DEF GoReadBody, Points, Stages, Results, ResponseSize, NoResponse,
      Exchange!Next, Exchange!Answer, Exchange!Transmit, Exchange!Report,
      Exchange!End, Exchange!Size
<1>7. CASE GoBodyDone
  BY <1>7, ConnectionAssumption
  DEF GoBodyDone, Points, Stages, Results, ResponseSize, NoResponse,
      Exchange!Next, Exchange!Answer, Exchange!Transmit, Exchange!Report,
      Exchange!End, Exchange!Size
<1>8. CASE GoWrite
  BY <1>8, ConnectionAssumption
  DEF GoWrite, Points, Stages, Results, ResponseSize, NoResponse,
      Exchange!Next, Exchange!Answer, Exchange!Transmit, Exchange!Report,
      Exchange!End, Exchange!Size
<1>9. CASE GoReport
  BY <1>9, ConnectionAssumption
  DEF GoReport, Points, Stages, Results, ResponseSize, NoResponse,
      Exchange!Next, Exchange!Answer, Exchange!Transmit, Exchange!Report,
      Exchange!End, Exchange!Size
<1>10. CASE GoClose
  BY <1>10, ConnectionAssumption
  DEF GoClose, Points, Stages, Results, ResponseSize, NoResponse,
      Exchange!Next, Exchange!Answer, Exchange!Transmit, Exchange!Report,
      Exchange!End, Exchange!Size
<1> QED BY <1>1, <1>2, <1>3, <1>4, <1>5, <1>6, <1>7, <1>8, <1>9, <1>10 DEF GoNext

LEMMA RustStep ==
  Inv /\ RustNext => Exchange!Next \/ UNCHANGED observed
<1> SUFFICES ASSUME Inv, RustNext PROVE Exchange!Next \/ UNCHANGED observed
  OBVIOUS
<1> USE DEF At, Serving, Respond, Accept, Write, CloseSocket, WriteBytes, WriteFails,
            RustGiveUp, connection, client, server, outcome, observed
<1>1. CASE RustAccept
  BY <1>1, ConnectionAssumption
  DEF RustAccept, Points, Stages, Results, ResponseSize, NoResponse,
      Exchange!Next, Exchange!Answer, Exchange!Transmit, Exchange!Report,
      Exchange!End, Exchange!Size
<1>2. CASE RustAcceptFails
  BY <1>2, ConnectionAssumption
  DEF RustAcceptFails, Points, Stages, Results, ResponseSize, NoResponse,
      Exchange!Next, Exchange!Answer, Exchange!Transmit, Exchange!Report,
      Exchange!End, Exchange!Size
<1>3. CASE RustReadHead
  BY <1>3, ConnectionAssumption
  DEF RustReadHead, Points, Stages, Results, ResponseSize, NoResponse,
      Exchange!Next, Exchange!Answer, Exchange!Transmit, Exchange!Report,
      Exchange!End, Exchange!Size
<1>4. CASE RustJudgeHead
  BY <1>4, ConnectionAssumption
  DEF RustJudgeHead, Points, Stages, Results, ResponseSize, NoResponse,
      Exchange!Next, Exchange!Answer, Exchange!Transmit, Exchange!Report,
      Exchange!End, Exchange!Size
<1>5. CASE RustReadBody
  BY <1>5, ConnectionAssumption
  DEF RustReadBody, Points, Stages, Results, ResponseSize, NoResponse,
      Exchange!Next, Exchange!Answer, Exchange!Transmit, Exchange!Report,
      Exchange!End, Exchange!Size
<1>6. CASE RustBodyDone
  BY <1>6, ConnectionAssumption
  DEF RustBodyDone, Points, Stages, Results, ResponseSize, NoResponse,
      Exchange!Next, Exchange!Answer, Exchange!Transmit, Exchange!Report,
      Exchange!End, Exchange!Size
<1>7. CASE RustWrite
  BY <1>7, ConnectionAssumption
  DEF RustWrite, Points, Stages, Results, ResponseSize, NoResponse,
      Exchange!Next, Exchange!Answer, Exchange!Transmit, Exchange!Report,
      Exchange!End, Exchange!Size
<1>8. CASE RustClose
  BY <1>8, ConnectionAssumption
  DEF RustClose, Points, Stages, Results, ResponseSize, NoResponse,
      Exchange!Next, Exchange!Answer, Exchange!Transmit, Exchange!Report,
      Exchange!End, Exchange!Size
<1>9. CASE RustReport
  BY <1>9, ConnectionAssumption
  DEF RustReport, Points, Stages, Results, ResponseSize, NoResponse,
      Exchange!Next, Exchange!Answer, Exchange!Transmit, Exchange!Report,
      Exchange!End, Exchange!Size
<1> QED BY <1>1, <1>2, <1>3, <1>4, <1>5, <1>6, <1>7, <1>8, <1>9 DEF RustNext

\* Every echo server implements the exchange its client may rely on: one
\* response, chosen once and delivered in order, one end of the connection,
\* and "ok" only for a response handed over to its last byte.
THEOREM EchoIsAnExchange == Spec => ServesOneExchange
<1>1. Init => Exchange!Init
  BY DEF Init, EchoInit, ConnectionInit, Exchange!Init
<1>2. Inv /\ [Next]_vars => [Exchange!Next]_observed
  <2>1. Inv /\ UNCHANGED vars => UNCHANGED observed
    BY DEF vars, connection, program, client, server, outcome, observed
  <2> QED BY <2>1, ClientStep, CStep, GoStep, RustStep DEF Next, ServerNext
<1> QED BY <1>1, <1>2, Invariance, PTL DEF Spec, ServesOneExchange, Exchange!Spec, observed

-----------------------------------------------------------------------------
(* Types, and what has been read and selected at each control point.       *)

Ends     == clientEnd \in {"fin", "gone"} => sent = Len(request)
Selected == pc = "body" => Begun(Received, framing)

LinkOK ==
  /\ request \in Requests /\ ending \in Endings
  /\ sent \in 0 .. Len(request) /\ read \in 0 .. sent
  /\ clientEnd \in {"open", "fin", "gone", "rst"}
  /\ serverEnd \in {"open", "fin", "rst"}
AnswerOK ==
  /\ response = NoResponse \/ response \in [status : {200, 400}, body : Seq(STRING)]
  /\ written \in 0 .. ResponseSize /\ got \in 0 .. written
ProgramOK ==
  /\ lang \in Languages
  /\ pc \in {"accept", "head", "body", "write", "close", "report", "done"}
  /\ framing \in {Blank} \cup Framings
  /\ result \in {"none", "ok", "error"}
  /\ reported \in {"none", "ok", "error", "killed"}
  /\ channel \in Seq(STRING)
  /\ listening \in BOOLEAN /\ fault \in BOOLEAN

LEMMA TypesInParts == TypeOK <=> LinkOK /\ AnswerOK /\ ProgramOK
BY DEF TypeOK, LinkOK, AnswerOK, ProgramOK, Languages, Framings

Types == LinkOK /\ AnswerOK /\ ProgramOK /\ Ends /\ Selected

\* What of a request a server can have read.
Windows(rq) ==
  /\ rq \in Seq(STRING) /\ Len(rq) \in Nat
  /\ \A i \in 0 .. Len(rq) : SubSeq(rq, 1, i) \in Seq(STRING)
  /\ SubSeq(rq, 1, 0) = <<>> /\ SubSeq(rq, 1, Len(rq)) = rq

LEMMA RequestWindows == \A rq \in Requests : Windows(rq)
<1> SUFFICES ASSUME NEW rq \in Requests PROVE Windows(rq)
  OBVIOUS
<1>1. rq \in Seq(STRING)
  BY ConnectionAssumption
<1>2. Len(rq) \in Nat
  BY <1>1, LenProperties
<1>3. \A i \in 0 .. Len(rq) : SubSeq(rq, 1, i) \in Seq(STRING)
  <2>1. 1 \in Nat \ {0}
    OBVIOUS
  <2> QED BY <1>1, <2>1, WindowType
<1>4. SubSeq(rq, 1, 0) = <<>>
  BY <1>1, SubSeqEmpty
<1>5. SubSeq(rq, 1, Len(rq)) = rq
  BY <1>1, PrefixOfConcat DEF IsPrefix
<1> QED BY <1>1, <1>2, <1>3, <1>4, <1>5 DEF Windows

LEMMA InitTypes == Init => Types
<1> SUFFICES ASSUME Init PROVE Types
  OBVIOUS
<1>1. /\ request \in Requests /\ Len(request) \in Nat /\ <<>> \in Seq(STRING)
  BY RequestWindows, EmptySeq DEF Init, EchoInit, ConnectionInit, Windows
<1>2. LinkOK
  BY <1>1 DEF Init, EchoInit, ConnectionInit, LinkOK
<1>3. AnswerOK
  BY DEF Init, EchoInit, ConnectionInit, AnswerOK, ResponseSize
<1>4. ProgramOK
  BY <1>1 DEF Init, EchoInit, ProgramOK, Languages
<1>5. Ends /\ Selected
  BY DEF Init, EchoInit, ConnectionInit, Ends, Selected
<1> QED BY <1>2, <1>3, <1>4, <1>5 DEF Types

LEMMA ClientTypes == Types /\ Client(ClientNext) => Types'
<1> SUFFICES ASSUME Types, Client(ClientNext) PROVE Types'
  OBVIOUS
<1> USE DEF Client, program, outcome, server, Types
<1>1. Len(request) \in Nat /\ ProgramOK' /\ request' = request /\ ending' = ending
  BY RequestWindows DEF ClientNext, ClientSends, ClientReads, ClientCloses, ClientAborts,
                        LinkOK, ProgramOK, Windows
<1>2. Received' = Received /\ (Selected')
  BY DEF ClientNext, ClientSends, ClientReads, ClientCloses, ClientAborts, Received, Selected
<1>3. CASE ClientSends
  <2>1. sent' \in 0 .. Len(request) /\ sent <= sent'
    <3>1. Min({Len(request), read + BUFFER}) <= Len(request)
      <4>1. read + BUFFER \in Nat
        BY <1>1, ConnectionAssumption DEF LinkOK
      <4> QED BY <1>1, <4>1, MinOfTwo
    <3>2. Min({Len(request), read + BUFFER}) \in Nat
      <4>1. read + BUFFER \in Nat
        BY <1>1, ConnectionAssumption DEF LinkOK
      <4> QED BY <1>1, <4>1, MinOfTwo
    <3> QED BY <1>1, <1>3, <3>1, <3>2 DEF ClientSends, LinkOK
  <2>2. LinkOK' /\ Ends'
    BY <1>1, <1>3, <2>1 DEF ClientSends, LinkOK, Ends
  <2>3. AnswerOK'
    BY <1>3 DEF ClientSends, AnswerOK, ResponseSize
  <2> QED BY <1>1, <1>2, <2>2, <2>3
<1>4. CASE ClientReads
  <2>1. LinkOK' /\ Ends'
    BY <1>1, <1>4 DEF ClientReads, LinkOK, Ends
  <2>2. ResponseSize \in Nat
    BY LenProperties DEF AnswerOK, ResponseSize
  <2>3. AnswerOK'
    BY <1>4, <2>2 DEF ClientReads, AnswerOK, ResponseSize
  <2> QED BY <1>1, <1>2, <2>1, <2>3
<1>5. CASE ClientCloses
  BY <1>1, <1>2, <1>5 DEF ClientCloses, LinkOK, Ends, AnswerOK, ResponseSize
<1>6. CASE ClientAborts
  BY <1>1, <1>2, <1>6 DEF ClientAborts, LinkOK, Ends, AnswerOK, ResponseSize
<1> QED BY <1>3, <1>4, <1>5, <1>6 DEF ClientNext

\* What a server's step may do to the connection and to the response.
Unanswered == response' = response /\ written' = written
Answered   == /\ response = NoResponse /\ written' = written
              /\ response' \in [status : {200, 400}, body : Seq(STRING)]
Sent       == response' = response /\ written' \in written .. ResponseSize

ServerTouches ==
  /\ UNCHANGED <<client, lang>>
  /\ read' \in read .. sent /\ serverEnd' \in {serverEnd, "fin", "rst"}
  /\ Unanswered \/ Answered \/ Sent

LEMMA TouchedTypes ==
  Types /\ ServerTouches => LinkOK' /\ AnswerOK' /\ Ends'
<1> SUFFICES ASSUME Types, ServerTouches PROVE LinkOK' /\ AnswerOK' /\ Ends'
  OBVIOUS
<1> USE DEF Types, ServerTouches, client
<1>1. LinkOK' /\ Ends'
  <2>1. Len(request) \in Nat
    BY RequestWindows DEF LinkOK, Windows
  <2> QED BY <2>1 DEF LinkOK, Ends
<1>2. ResponseSize \in Nat
  BY LenProperties DEF AnswerOK, ResponseSize
<1>3. got' = got /\ got \in 0 .. written /\ written \in 0 .. ResponseSize
  BY DEF AnswerOK
<1>4. CASE Unanswered \/ Sent
  <2>1. response' = response /\ ResponseSize' = ResponseSize
    BY <1>4 DEF Unanswered, Sent, ResponseSize
  <2>2. written' \in written .. ResponseSize
    BY <1>2, <1>3, <1>4 DEF Unanswered, Sent
  <2>3. written' \in 0 .. ResponseSize' /\ got' \in 0 .. written'
    BY <1>2, <1>3, <2>1, <2>2
  <2>4. response' = NoResponse \/ response' \in [status : {200, 400}, body : Seq(STRING)]
    BY <2>1 DEF AnswerOK
  <2> QED BY <1>1, <2>3, <2>4 DEF AnswerOK
<1>5. CASE Answered
  <2>1. ResponseSize = 0
    BY <1>5 DEF Answered, ResponseSize
  <2>2. written' = 0 /\ got' = 0
    BY <1>3, <1>5, <2>1 DEF Answered
  <2>3. PICK r \in [status : {200, 400}, body : Seq(STRING)] : r = response'
    BY <1>5 DEF Answered
  <2>4. Len(r.body) \in Nat
    BY LenProperties
  <2>5. ResponseSize' \in Nat
    BY <2>3, <2>4 DEF ResponseSize
  <2>6. written' \in 0 .. ResponseSize' /\ got' \in 0 .. written'
    BY <2>2, <2>5
  <2>7. response' = NoResponse \/ response' \in [status : {200, 400}, body : Seq(STRING)]
    BY <1>5 DEF Answered
  <2> QED BY <1>1, <2>6, <2>7 DEF AnswerOK
<1> QED BY <1>1, <1>4, <1>5

LEMMA TypedStep ==
  Types /\ ServerTouches /\ ProgramOK' /\ Selected' => Types'
BY TouchedTypes DEF Types

Known ==
  /\ request \in Seq(STRING) /\ Len(request) \in Nat /\ sent \in 0 .. Len(request)
  /\ read \in 0 .. sent /\ Received \in Seq(STRING) /\ channel \in Seq(STRING)
  /\ \A i \in 0 .. Len(request) : SubSeq(request, 1, i) \in Seq(STRING)
  /\ written \in Nat /\ ResponseSize \in Nat /\ <<>> \in Seq(STRING)

\* A server with no response yet that gives its verdict, or none.
Verdicts == \/ response' = response
            \/ Respond(400, <<>>)
            \/ \E b \in Seq(STRING) : Respond(200, b)

LEMMA EmptyVerdict == Respond(200, <<>>) => Verdicts
<1>1. PICK e \in Seq(STRING) : e = <<>>
  BY EmptySeq
<1>2. Respond(200, <<>>) => Respond(200, e)
  BY <1>1 DEF Respond
<1> QED BY <1>2 DEF Verdicts

LEMMA Responded ==
  ASSUME response = NoResponse, written' = written, Verdicts
  PROVE  Unanswered \/ Answered
<1>1. <<>> \in Seq(STRING)
  BY EmptySeq
<1>2. ASSUME NEW s \in {200, 400}, NEW b \in Seq(STRING), Respond(s, b)
      PROVE  Answered
  <2>1. [status |-> s, body |-> b] \in [status : {200, 400}, body : Seq(STRING)]
    OBVIOUS
  <2> QED BY <1>2, <2>1 DEF Respond, Answered
<1>3. CASE response' = response
  BY <1>3 DEF Unanswered
<1>4. CASE Respond(400, <<>>)
  <2>1. response' = [status |-> 400, body |-> <<>>]
    BY <1>4 DEF Respond
  <2>2. [status |-> 400, body |-> <<>>] \in [status : {200, 400}, body : Seq(STRING)]
    BY <1>1
  <2> QED BY <2>1, <2>2 DEF Answered
<1>5. ASSUME NEW b \in Seq(STRING), Respond(200, b) PROVE Answered
  <2>1. 200 \in {200, 400}
    OBVIOUS
  <2> QED BY <1>2, <1>5, <2>1
<1> QED BY <1>3, <1>4, <1>5 DEF Verdicts

LEMMA ReadingTouches ==
  ASSUME response = NoResponse, written' = written, Verdicts,
         UNCHANGED <<client, lang, serverEnd>>, read' \in read .. sent
  PROVE  ServerTouches
BY Responded DEF ServerTouches

LEMMA KnownFacts == Types => Known
<1> SUFFICES ASSUME Types PROVE Known
  OBVIOUS
<1>1. Windows(request) /\ sent \in 0 .. Len(request) /\ read \in 0 .. sent
  BY RequestWindows DEF Types, LinkOK
<1>2. request \in Seq(STRING) /\ Len(request) \in Nat
  BY <1>1 DEF Windows
<1>3. \A i \in 0 .. Len(request) : SubSeq(request, 1, i) \in Seq(STRING)
  BY <1>1 DEF Windows
<1>4. Received \in Seq(STRING)
  BY <1>1, <1>2, <1>3 DEF Received
<1>5. ResponseSize \in Nat /\ written \in Nat
  BY LenProperties DEF Types, AnswerOK, ResponseSize
<1>6. <<>> \in Seq(STRING) /\ channel \in Seq(STRING)
  BY EmptySeq DEF Types, ProgramOK
<1> QED BY <1>1, <1>2, <1>3, <1>4, <1>5, <1>6 DEF Known

LEMMA KeepsSelected ==
  Types /\ Selected /\ pc = "body" /\ UNCHANGED <<request, framing>> /\ read' \in read .. sent
  => Selected'
<1> SUFFICES ASSUME Types, pc = "body", UNCHANGED <<request, framing>>, read' \in read .. sent
             PROVE  Selected'
  OBVIOUS
<1>1. Known /\ Begun(SubSeq(request, 1, read), framing)
  BY KnownFacts DEF Types, Selected, Received
<1>2. read' \in 0 .. Len(request) /\ read \in 0 .. read'
  BY <1>1 DEF Known
<1>3. Begun(SubSeq(request, 1, read'), framing)
  BY <1>1, <1>2, BegunLonger DEF Known
<1> QED BY <1>3 DEF Selected, Received

LEMMA CTypes == Types /\ Inv /\ CNext => Types'
<1> SUFFICES ASSUME Types, Inv, CNext PROVE Types'
  OBVIOUS
<1>a. Known
  BY KnownFacts
<1>b. pc \in Reading => response = NoResponse
  BY DEF Stages
<1>c. ProgramOK
  BY DEF Types
<1> USE DEF At, Serving, Accept, Write, CloseSocket, ReadBytes, ReadsEnd, ReadFails,
            WriteBytes, WriteFails, connection, client, server, outcome
<1>1. CASE CAccept
  <2>1. ServerTouches
    BY <1>1, <1>a, <1>b DEF CAccept, ServerTouches, Unanswered, Answered, Sent, Known
  <2>2. ProgramOK' /\ Selected'
    BY <1>1, <1>a, <1>c DEF CAccept, ProgramOK, Selected, Known
  <2> QED BY <2>1, <2>2, TypedStep
<1>2. CASE CAcceptFails
  <2>1. ServerTouches
    BY <1>2, <1>a, <1>b DEF CAcceptFails, ServerTouches, Unanswered, Answered, Sent, Known
  <2>2. ProgramOK' /\ Selected'
    BY <1>2, <1>a, <1>c DEF CAcceptFails, ProgramOK, Selected, Known
  <2> QED BY <2>1, <2>2, TypedStep
<1>3. CASE CReadHead
  <2>1. ServerTouches
    BY <1>3, <1>a, <1>b DEF CReadHead, ServerTouches, Unanswered, Answered, Sent, Known
  <2>2. ProgramOK' /\ Selected'
    BY <1>3, <1>a, <1>c DEF CReadHead, ProgramOK, Selected, Known
  <2> QED BY <2>1, <2>2, TypedStep
<1>4. CASE CJudgeHead
  <2>a. /\ response = NoResponse /\ written' = written
        /\ UNCHANGED <<client, lang, serverEnd>> /\ read' \in read .. sent
    BY <1>4, <1>a, <1>b DEF CJudgeHead, Known
  <2>b. Verdicts
    BY <1>4, <1>a DEF CJudgeHead, Verdicts, Known
  <2>1. ServerTouches
    BY <2>a, <2>b, ReadingTouches
  <2>2. CHeadAccepted(HeadOf(Received)) =>
          Begun(Received, SelectFramingC(FieldLines(HeadOf(Received))))
    BY <1>4, <1>a, HeadJudgement, InTheirWords DEF CJudgeHead, Known, HeadJudged
  <2>3. CASE CHeadAccepted(HeadOf(Received)) /\ pc' = "body"
    <3>1. framing' = SelectFramingC(FieldLines(HeadOf(Received))) /\ Received' = Received
      BY <1>4, <2>3 DEF CJudgeHead, Received
    <3>2. Selected' /\ framing' \in Framings
      BY <2>2, <2>3, <3>1 DEF Selected, Begun
    <3>3. ProgramOK'
      BY <1>4, <1>a, <1>c, <2>3, <3>2 DEF CJudgeHead, ProgramOK, Known
    <3> QED BY <2>1, <3>2, <3>3, TypedStep
  <2>4. CASE ~(CHeadAccepted(HeadOf(Received)) /\ pc' = "body")
    <3>1. Selected' /\ ProgramOK'
      BY <1>4, <1>a, <1>c, <2>4 DEF CJudgeHead, ProgramOK, Respond, Known, Selected
    <3> QED BY <2>1, <3>1, TypedStep
  <2> QED BY <2>3, <2>4
<1>5. CASE CNoMemoryHead
  <2>a. /\ response = NoResponse /\ written' = written
        /\ UNCHANGED <<client, lang, serverEnd>> /\ read' \in read .. sent
    BY <1>5, <1>a, <1>b DEF CNoMemoryHead, Known
  <2>b. Verdicts
    <3>1. Respond(200, <<>>) => Verdicts
      BY EmptyVerdict
    <3> QED BY <1>5, <3>1 DEF CNoMemoryHead, Verdicts
  <2>1. ServerTouches
    BY <2>a, <2>b, ReadingTouches
  <2>2. CHeadAccepted(HeadOf(Received)) =>
          Begun(Received, SelectFramingC(FieldLines(HeadOf(Received))))
    BY <1>5, <1>a, HeadJudgement, InTheirWords DEF CNoMemoryHead, Known, HeadJudged
  <2>3. framing' \in {Blank} \cup Framings
    BY <1>5, <1>c, <2>2 DEF CNoMemoryHead, ProgramOK, Begun
  <2>4. Selected' /\ ProgramOK'
    BY <1>5, <1>a, <1>c, <2>3 DEF CNoMemoryHead, ProgramOK, Respond, Selected
  <2> QED BY <2>1, <2>4, TypedStep
<1>6. CASE CReadBody
  <2>a. /\ response = NoResponse /\ written' = written
        /\ UNCHANGED <<client, lang, serverEnd>> /\ read' \in read .. sent
    BY <1>6, <1>a, <1>b DEF CReadBody, Known
  <2>c. CBodyEndsEarly => Verdicts
    <3>1. Respond(200, <<>>) => Verdicts
      BY EmptyVerdict
    <3>2. CBodyEndsEarly => Respond(200, <<>>) \/ Respond(400, <<>>)
      BY DEF CBodyEndsEarly
    <3> QED BY <3>1, <3>2 DEF Verdicts
  <2>b. Verdicts
    BY <1>6, <1>a, <2>c DEF CReadBody, Verdicts, Known
  <2>1. ServerTouches
    BY <2>a, <2>b, ReadingTouches
  <2>2. ProgramOK'
    BY <1>6, <1>a, <1>c, <2>a DEF CReadBody, CBodyEndsEarly, ProgramOK, Respond, Known
  <2>3. pc = "body" /\ UNCHANGED <<request, framing>> /\ read' \in read .. sent
    BY <1>6, <1>a DEF CReadBody, Known
  <2> QED BY <2>1, <2>2, <2>3, KeepsSelected, TypedStep DEF Types
<1>7. CASE CBodyDone
  <2>1. PICK b : b = BodyC(framing, BodyOf(Received))
    OBVIOUS
  <2>2. b.body \in Seq(STRING)
    <3>1. Begun(Received, framing)
      BY <1>7 DEF CBodyDone, Types, Selected
    <3>2. Verdict("c", Received, b)
      BY <2>1, <3>1, BodyVerdict, InTheirWords DEF Languages
    <3> QED BY <3>2 DEF Verdict
  <2>a. /\ response = NoResponse /\ written' = written
        /\ UNCHANGED <<client, lang, serverEnd>> /\ read' \in read .. sent
    BY <1>7, <1>a, <1>b DEF CBodyDone, Known
  <2>b. Verdicts
    BY <1>7, <1>a, <2>1, <2>2 DEF CBodyDone, Verdicts, Known
  <2>3. ServerTouches
    BY <2>a, <2>b, ReadingTouches
  <2>4. Selected' /\ ProgramOK'
    BY <1>7, <1>a, <1>c DEF CBodyDone, ProgramOK, Respond, Known, Selected
  <2> QED BY <2>3, <2>4, TypedStep
<1>8. CASE CNoMemoryResponse
  <2>1. ServerTouches
    BY <1>8, <1>a, <1>b DEF CNoMemoryResponse, ServerTouches, Unanswered, Answered, Sent, Known
  <2>2. ProgramOK' /\ Selected'
    BY <1>8, <1>a, <1>c DEF CNoMemoryResponse, ProgramOK, Selected, Known
  <2> QED BY <2>1, <2>2, TypedStep
<1>9. CASE CWrite
  <2>1. ServerTouches
    BY <1>9, <1>a, <1>b DEF CWrite, ServerTouches, Unanswered, Answered, Sent, Known
  <2>2. ProgramOK' /\ Selected'
    BY <1>9, <1>a, <1>c DEF CWrite, ProgramOK, Selected, Known
  <2> QED BY <2>1, <2>2, TypedStep
<1>10. CASE CKilled
  <2>1. ServerTouches
    BY <1>10, <1>a, <1>b DEF CKilled, ServerTouches, Unanswered, Answered, Sent, Known
  <2>2. ProgramOK' /\ Selected'
    BY <1>10, <1>a, <1>c DEF CKilled, ProgramOK, Selected, Known
  <2> QED BY <2>1, <2>2, TypedStep
<1>11. CASE CClose
  <2>1. ServerTouches
    BY <1>11, <1>a, <1>b DEF CClose, ServerTouches, Unanswered, Answered, Sent, Known
  <2>2. ProgramOK' /\ Selected'
    BY <1>11, <1>a, <1>c DEF CClose, ProgramOK, Selected, Known
  <2> QED BY <2>1, <2>2, TypedStep
<1> QED BY <1>1, <1>2, <1>3, <1>4, <1>5, <1>6, <1>7, <1>8, <1>9, <1>10, <1>11 DEF CNext

LEMMA GoTypes == Types /\ Inv /\ GoNext => Types'
<1> SUFFICES ASSUME Types, Inv, GoNext PROVE Types'
  OBVIOUS
<1>a. Known
  BY KnownFacts
<1>b. pc \in Reading => response = NoResponse
  BY DEF Stages
<1>c. ProgramOK
  BY DEF Types
<1> USE DEF At, Serving, Accept, Write, CloseSocket, ReadBytes, ReadsEnd, ReadFails,
            WriteBytes, WriteFails, GoReject, GoGiveUp, Publish, connection, client, server, outcome
<1>1. CASE GoAccept
  <2>1. ServerTouches
    BY <1>1, <1>a, <1>b DEF GoAccept, ServerTouches, Unanswered, Answered, Sent, Known
  <2>2. ProgramOK' /\ Selected'
    BY <1>1, <1>a, <1>c DEF GoAccept, ProgramOK, Selected, Known
  <2> QED BY <2>1, <2>2, TypedStep
<1>2. CASE GoAcceptFails
  <2>1. ServerTouches
    BY <1>2, <1>a, <1>b DEF GoAcceptFails, ServerTouches, Unanswered, Answered, Sent, Known
  <2>2. ProgramOK' /\ Selected'
    BY <1>2, <1>a, <1>c DEF GoAcceptFails, ProgramOK, Selected, Known
  <2> QED BY <2>1, <2>2, TypedStep
<1>3. CASE GoListenerCloseFails
  <2>1. ServerTouches
    BY <1>3, <1>a, <1>b DEF GoListenerCloseFails, ServerTouches, Unanswered, Answered, Sent, Known
  <2>2. ProgramOK' /\ Selected'
    BY <1>3, <1>a, <1>c DEF GoListenerCloseFails, ProgramOK, Selected, Known
  <2> QED BY <2>1, <2>2, TypedStep
<1>4. CASE GoReadHead
  <2>a. /\ response = NoResponse /\ written' = written
        /\ UNCHANGED <<client, lang, serverEnd>> /\ read' \in read .. sent
    BY <1>4, <1>a, <1>b DEF GoReadHead, Known
  <2>b. Verdicts
    BY <1>4, <1>a DEF GoReadHead, Verdicts, Known
  <2>1. ServerTouches
    BY <2>a, <2>b, ReadingTouches
  <2>2. channel' \in Seq(STRING)
    <3>1. read' \in 0 .. Len(request)
      BY <1>a, <2>a DEF Known
    <3>2. SubSeq(request, 1, read') \in Seq(STRING)
      BY <1>a, <3>1 DEF Known
    <3> QED BY <1>4, <1>a, <3>2 DEF GoReadHead, Known
  <2>3. ProgramOK' /\ Selected'
    BY <1>4, <1>c, <2>2 DEF GoReadHead, ProgramOK, Respond, Selected
  <2> QED BY <2>1, <2>3, TypedStep
<1>5. CASE GoJudgeHead
  <2>a. /\ response = NoResponse /\ written' = written
        /\ UNCHANGED <<client, lang, serverEnd>> /\ read' \in read .. sent
    BY <1>5, <1>a, <1>b DEF GoJudgeHead, Known
  <2>b. Verdicts
    BY <1>5, <1>a DEF GoJudgeHead, Verdicts, Known
  <2>1. ServerTouches
    BY <2>a, <2>b, ReadingTouches
  <2>2. GoHeadAccepted(HeadOf(Received)) =>
          Begun(Received, SelectFramingGo(FieldLines(HeadOf(Received))))
    BY <1>5, <1>a, HeadJudgement, InTheirWords DEF GoJudgeHead, Known, HeadJudged
  <2>3. CASE GoHeadAccepted(HeadOf(Received)) /\ pc' = "body"
    <3>1. framing' = SelectFramingGo(FieldLines(HeadOf(Received))) /\ Received' = Received
      BY <1>5, <2>3 DEF GoJudgeHead, Received
    <3>2. Selected' /\ framing' \in Framings
      BY <2>2, <2>3, <3>1 DEF Selected, Begun
    <3>3. ProgramOK'
      BY <1>5, <1>a, <1>c, <2>3, <3>2 DEF GoJudgeHead, ProgramOK, Known
    <3> QED BY <2>1, <3>2, <3>3, TypedStep
  <2>4. CASE ~(GoHeadAccepted(HeadOf(Received)) /\ pc' = "body")
    <3>1. Selected' /\ ProgramOK'
      BY <1>5, <1>a, <1>c, <2>4 DEF GoJudgeHead, ProgramOK, Respond, Known, Selected
    <3> QED BY <2>1, <3>1, TypedStep
  <2> QED BY <2>3, <2>4
<1>6. CASE GoReadBody
  <2>a. /\ response = NoResponse /\ written' = written
        /\ UNCHANGED <<client, lang, serverEnd>> /\ read' \in read .. sent
    BY <1>6, <1>a, <1>b DEF GoReadBody, Known
  <2>b. Verdicts
    BY <1>6, <1>a DEF GoReadBody, Verdicts, Known
  <2>1. ServerTouches
    BY <2>a, <2>b, ReadingTouches
  <2>2. ProgramOK'
    BY <1>6, <1>a, <1>c, <2>a DEF GoReadBody, ProgramOK, Respond, Known
  <2>3. pc = "body" /\ UNCHANGED <<request, framing>> /\ read' \in read .. sent
    BY <1>6, <1>a DEF GoReadBody, Known
  <2> QED BY <2>1, <2>2, <2>3, KeepsSelected, TypedStep DEF Types
<1>7. CASE GoBodyDone
  <2>1. PICK b : b = BodyGo(framing, BodyOf(Received))
    OBVIOUS
  <2>2. b.body \in Seq(STRING)
    <3>1. Begun(Received, framing)
      BY <1>7 DEF GoBodyDone, Types, Selected
    <3>2. Verdict("go", Received, b)
      BY <2>1, <3>1, BodyVerdict, InTheirWords DEF Languages
    <3> QED BY <3>2 DEF Verdict
  <2>a. /\ response = NoResponse /\ written' = written
        /\ UNCHANGED <<client, lang, serverEnd>> /\ read' \in read .. sent
    BY <1>7, <1>a, <1>b DEF GoBodyDone, Known
  <2>b. Verdicts
    BY <1>7, <1>a, <2>1, <2>2 DEF GoBodyDone, Verdicts, Known
  <2>3. ServerTouches
    BY <2>a, <2>b, ReadingTouches
  <2>4. Selected' /\ ProgramOK'
    BY <1>7, <1>a, <1>c DEF GoBodyDone, ProgramOK, Respond, Known, Selected
  <2> QED BY <2>3, <2>4, TypedStep
<1>8. CASE GoWrite
  <2>1. ServerTouches
    BY <1>8, <1>a, <1>b DEF GoWrite, ServerTouches, Unanswered, Answered, Sent, Known
  <2>2. ProgramOK' /\ Selected'
    BY <1>8, <1>a, <1>c DEF GoWrite, ProgramOK, Selected, Known
  <2> QED BY <2>1, <2>2, TypedStep
<1>9. CASE GoReport
  <2>1. ServerTouches
    BY <1>9, <1>a, <1>b DEF GoReport, ServerTouches, Unanswered, Answered, Sent, Known
  <2>2. ProgramOK' /\ Selected'
    BY <1>9, <1>a, <1>c DEF GoReport, ProgramOK, Selected, Known
  <2> QED BY <2>1, <2>2, TypedStep
<1>10. CASE GoClose
  <2>1. ServerTouches
    BY <1>10, <1>a, <1>b DEF GoClose, ServerTouches, Unanswered, Answered, Sent, Known
  <2>2. ProgramOK' /\ Selected'
    BY <1>10, <1>a, <1>c DEF GoClose, ProgramOK, Selected, Known
  <2> QED BY <2>1, <2>2, TypedStep
<1> QED BY <1>1, <1>2, <1>3, <1>4, <1>5, <1>6, <1>7, <1>8, <1>9, <1>10 DEF GoNext

LEMMA RustTypes == Types /\ Inv /\ RustNext => Types'
<1> SUFFICES ASSUME Types, Inv, RustNext PROVE Types'
  OBVIOUS
<1>a. Known
  BY KnownFacts
<1>b. pc \in Reading => response = NoResponse
  BY DEF Stages
<1>c. ProgramOK
  BY DEF Types
<1> USE DEF At, Serving, Accept, Write, CloseSocket, ReadBytes, ReadsEnd, ReadFails,
            WriteBytes, WriteFails, RustGiveUp, connection, client, server, outcome
<1>1. CASE RustAccept
  <2>1. ServerTouches
    BY <1>1, <1>a, <1>b DEF RustAccept, ServerTouches, Unanswered, Answered, Sent, Known
  <2>2. ProgramOK' /\ Selected'
    BY <1>1, <1>a, <1>c DEF RustAccept, ProgramOK, Selected, Known
  <2> QED BY <2>1, <2>2, TypedStep
<1>2. CASE RustAcceptFails
  <2>1. ServerTouches
    BY <1>2, <1>a, <1>b DEF RustAcceptFails, ServerTouches, Unanswered, Answered, Sent, Known
  <2>2. ProgramOK' /\ Selected'
    BY <1>2, <1>a, <1>c DEF RustAcceptFails, ProgramOK, Selected, Known
  <2> QED BY <2>1, <2>2, TypedStep
<1>3. CASE RustReadHead
  <2>a. /\ response = NoResponse /\ written' = written
        /\ UNCHANGED <<client, lang, serverEnd>> /\ read' \in read .. sent
    BY <1>3, <1>a, <1>b DEF RustReadHead, Known
  <2>b. Verdicts
    BY <1>3, <1>a DEF RustReadHead, Verdicts, Known
  <2>1. ServerTouches
    BY <2>a, <2>b, ReadingTouches
  <2>2. ProgramOK' /\ Selected'
    BY <1>3, <1>a, <1>c, <2>a DEF RustReadHead, ProgramOK, Respond, Selected, Known
  <2> QED BY <2>1, <2>2, TypedStep
<1>4. CASE RustJudgeHead
  <2>a. /\ response = NoResponse /\ written' = written
        /\ UNCHANGED <<client, lang, serverEnd>> /\ read' \in read .. sent
    BY <1>4, <1>a, <1>b DEF RustJudgeHead, Known
  <2>b. Verdicts
    BY <1>4, <1>a DEF RustJudgeHead, Verdicts, Known
  <2>1. ServerTouches
    BY <2>a, <2>b, ReadingTouches
  <2>2. RustHeadAccepted(HeadOf(Received)) =>
          Begun(Received, SelectFramingRust(FieldLines(HeadOf(Received))))
    BY <1>4, <1>a, HeadJudgement, InTheirWords DEF RustJudgeHead, Known, HeadJudged
  <2>3. CASE RustHeadAccepted(HeadOf(Received)) /\ pc' = "body"
    <3>1. framing' = SelectFramingRust(FieldLines(HeadOf(Received))) /\ Received' = Received
      BY <1>4, <2>3 DEF RustJudgeHead, Received
    <3>2. Selected' /\ framing' \in Framings
      BY <2>2, <2>3, <3>1 DEF Selected, Begun
    <3>3. ProgramOK'
      BY <1>4, <1>a, <1>c, <2>3, <3>2 DEF RustJudgeHead, ProgramOK, Known
    <3> QED BY <2>1, <3>2, <3>3, TypedStep
  <2>4. CASE ~(RustHeadAccepted(HeadOf(Received)) /\ pc' = "body")
    <3>1. Selected' /\ ProgramOK'
      BY <1>4, <1>a, <1>c, <2>4 DEF RustJudgeHead, ProgramOK, Respond, Known, Selected
    <3> QED BY <2>1, <3>1, TypedStep
  <2> QED BY <2>3, <2>4
<1>5. CASE RustReadBody
  <2>a. /\ response = NoResponse /\ written' = written
        /\ UNCHANGED <<client, lang, serverEnd>> /\ read' \in read .. sent
    BY <1>5, <1>a, <1>b DEF RustReadBody, Known
  <2>b. Verdicts
    BY <1>5, <1>a DEF RustReadBody, Verdicts, Known
  <2>1. ServerTouches
    BY <2>a, <2>b, ReadingTouches
  <2>2. ProgramOK'
    BY <1>5, <1>a, <1>c, <2>a DEF RustReadBody, ProgramOK, Respond, Known
  <2>3. pc = "body" /\ UNCHANGED <<request, framing>> /\ read' \in read .. sent
    BY <1>5, <1>a DEF RustReadBody, Known
  <2> QED BY <2>1, <2>2, <2>3, KeepsSelected, TypedStep DEF Types
<1>6. CASE RustBodyDone
  <2>1. PICK b : b = BodyRust(framing, BodyOf(Received))
    OBVIOUS
  <2>2. b.body \in Seq(STRING)
    <3>1. Begun(Received, framing)
      BY <1>6 DEF RustBodyDone, Types, Selected
    <3>2. Verdict("rust", Received, b)
      BY <2>1, <3>1, BodyVerdict, InTheirWords DEF Languages
    <3> QED BY <3>2 DEF Verdict
  <2>a. /\ response = NoResponse /\ written' = written
        /\ UNCHANGED <<client, lang, serverEnd>> /\ read' \in read .. sent
    BY <1>6, <1>a, <1>b DEF RustBodyDone, Known
  <2>b. Verdicts
    BY <1>6, <1>a, <2>1, <2>2 DEF RustBodyDone, Verdicts, Known
  <2>3. ServerTouches
    BY <2>a, <2>b, ReadingTouches
  <2>4. Selected' /\ ProgramOK'
    BY <1>6, <1>a, <1>c DEF RustBodyDone, ProgramOK, Respond, Known, Selected
  <2> QED BY <2>3, <2>4, TypedStep
<1>7. CASE RustWrite
  <2>1. ServerTouches
    BY <1>7, <1>a, <1>b DEF RustWrite, ServerTouches, Unanswered, Answered, Sent, Known
  <2>2. ProgramOK' /\ Selected'
    BY <1>7, <1>a, <1>c DEF RustWrite, ProgramOK, Selected, Known
  <2> QED BY <2>1, <2>2, TypedStep
<1>8. CASE RustClose
  <2>1. ServerTouches
    BY <1>8, <1>a, <1>b DEF RustClose, ServerTouches, Unanswered, Answered, Sent, Known
  <2>2. ProgramOK' /\ Selected'
    BY <1>8, <1>a, <1>c DEF RustClose, ProgramOK, Selected, Known
  <2> QED BY <2>1, <2>2, TypedStep
<1>9. CASE RustReport
  <2>1. ServerTouches
    BY <1>9, <1>a, <1>b DEF RustReport, ServerTouches, Unanswered, Answered, Sent, Known
  <2>2. ProgramOK' /\ Selected'
    BY <1>9, <1>a, <1>c DEF RustReport, ProgramOK, Selected, Known
  <2> QED BY <2>1, <2>2, TypedStep
<1> QED BY <1>1, <1>2, <1>3, <1>4, <1>5, <1>6, <1>7, <1>8, <1>9 DEF RustNext

LEMMA TypesInductive == Types /\ Inv /\ [Next]_vars => Types'
<1>1. Types /\ UNCHANGED vars => Types'
  BY DEF vars, connection, program, client, server, outcome, Types, LinkOK, AnswerOK, ProgramOK,
         Ends, Selected, Received, ResponseSize
<1> QED BY <1>1, ClientTypes, CTypes, GoTypes, RustTypes DEF Next, ServerNext

\* What is read, selected and answered is of its type, and a body is parsed
\* only behind a good head, under the framing that head selects.
THEOREM TypesInvariance == Spec => []Types
BY InitTypes, TypesInductive, Invariance, PTL DEF Spec

\* Every variable of the three echo servers and their connection keeps its
\* type: in particular what is decoded, echoed and published are bytes.
THEOREM TypeCorrectness == Spec => []TypeOK
<1>1. Types => TypeOK
  BY TypesInParts DEF Types
<1> QED BY <1>1, TypesInvariance, PTL

-----------------------------------------------------------------------------
(* The verdict of a server, and what it says of the request.               *)

Judged == EchoesTheBody /\ RejectsOnlyTheBad

\* No verdict yet; or one that was given and that nothing since has touched.
LEMMA Unjudged == response' = NoResponse => Judged'
BY DEF Judged, EchoesTheBody, RejectsOnlyTheBad, NoResponse

Settled ==
  /\ UNCHANGED <<request, read, response, lang, framing>>
  /\ fault => fault'
  /\ clientEnd # "open" => clientEnd' = clientEnd

LEMMA StaysJudged == Judged /\ Settled => Judged'
<1> SUFFICES ASSUME Judged, Settled PROVE Judged'
  OBVIOUS
<1>1. EchoesTheBody'
  BY DEF Judged, Settled, EchoesTheBody, CSaysOkAnyway, Message, Received
<1>2. RejectsOnlyTheBad'
  BY DEF Judged, Settled, RejectsOnlyTheBad, Message, Received
<1> QED BY <1>1, <1>2 DEF Judged

\* What a 400 may be given for, in the state before it.
Refuse == response'.status = 400 /\ UNCHANGED <<request, lang>>

LEMMA RefusesTheMalformed ==
  ASSUME Refuse, UNCHANGED read,
         \/ MessageIn(lang, Received).state = "invalid"
         \/ lang = "rust" /\ MessageIn(lang, Append(Received, LF)).state = "invalid"
  PROVE  Judged'
BY DEF Refuse, Judged, EchoesTheBody, RejectsOnlyTheBad, Message, Received

LEMMA RefusesTheUnfinished ==
  ASSUME Types, Refuse, ReadsEnd, UNCHANGED client, MessageIn(lang, Received).state = "incomplete"
  PROVE  Judged'
<1>1. Windows(request) /\ read = Len(request) /\ clientEnd' # "open"
  <2>1. Windows(request)
    BY RequestWindows DEF Types, LinkOK
  <2> QED BY <2>1 DEF Types, Ends, ReadsEnd, client
<1>2. Received = request
  BY <1>1 DEF Windows, Received
<1> QED BY <1>1, <1>2 DEF Refuse, Judged, EchoesTheBody, RejectsOnlyTheBad, Message

LEMMA RefusesTheReset ==
  ASSUME Refuse, clientEnd' = "rst" PROVE Judged'
BY DEF Refuse, Judged, EchoesTheBody, RejectsOnlyTheBad

\* What a 200 may be given for.
LEMMA EchoesTheComplete ==
  ASSUME response'.status = 200, UNCHANGED <<request, read, lang>>,
         MessageIn(lang, Received).state = "complete",
         response'.body = MessageIn(lang, Received).body
  PROVE  Judged'
BY DEF Judged, EchoesTheBody, RejectsOnlyTheBad, Message, Received

\* C without memory, and C at the end of a chunked body.
LEMMA CExcused ==
  ASSUME lang' = "c", response'.body = <<>>, response'.status \in {200, 400},
         \/ fault'
         \/ framing' \in ChunkedFields /\ clientEnd' # "open" /\ response'.status = 200
  PROVE  Judged'
BY DEF Judged, EchoesTheBody, RejectsOnlyTheBad, CSaysOkAnyway

\* The verdicts on a head and on a body, whatever the language.
LEMMA JudgesHeads ==
  ASSUME Types, HasHead(Received), ~HeadAccepted(lang, HeadOf(Received)),
         Refuse, UNCHANGED read
  PROVE  Judged'
<1>1. Received \in Seq(STRING)
  BY KnownFacts DEF Known
<1>2. HeadJudged(lang, Received)
  BY <1>1, HeadJudgement
<1>3. MessageIn(lang, Received).state = "invalid"
  BY <1>2 DEF HeadJudged
<1> QED BY <1>3, RefusesTheMalformed

LEMMA JudgesBodies ==
  ASSUME Types, pc = "body", UNCHANGED <<request, read, lang>>,
         NEW b, b = BodyIn(lang, framing, BodyOf(Received)),
         \/ b.state = "complete" /\ Respond(200, b.body)
         \/ b.state = "invalid" /\ Respond(400, <<>>)
  PROVE  Judged'
<1>1. Verdict(lang, Received, b)
  BY BodyVerdict DEF Types, Selected, ProgramOK
<1>2. CASE b.state = "complete" /\ Respond(200, b.body)
  <2>1. response'.status = 200 /\ response'.body = b.body
    BY <1>2 DEF Respond
  <2> QED BY <1>1, <1>2, <2>1, EchoesTheComplete DEF Verdict
<1>3. CASE b.state = "invalid" /\ Respond(400, <<>>)
  <2>1. Refuse
    BY <1>3 DEF Respond, Refuse
  <2> QED BY <1>1, <1>3, <2>1, RefusesTheMalformed DEF Verdict
<1> QED BY <1>2, <1>3

LEMMA UnfinishedBody ==
  ASSUME Types, pc = "body", BodyIn(lang, framing, BodyOf(Received)).state = "incomplete"
  PROVE  MessageIn(lang, Received).state = "incomplete"
<1>1. Verdict(lang, Received, BodyIn(lang, framing, BodyOf(Received)))
  BY BodyVerdict DEF Types, Selected, ProgramOK
<1> QED BY <1>1 DEF Verdict

LEMMA CJudges == Types /\ Inv /\ Judged /\ CNext => Judged'
<1> SUFFICES ASSUME Types, Inv, Judged, CNext PROVE Judged'
  OBVIOUS
<1>a. pc \in Reading => response = NoResponse
  BY DEF Stages
<1>1. CASE CAccept \/ CAcceptFails \/ CNoMemoryResponse \/ CWrite \/ CKilled \/ CClose
  <2>1. Settled
    BY <1>1 DEF CAccept, CAcceptFails, CNoMemoryResponse, CWrite, CKilled, CClose, At, Serving, Accept, Write, WriteBytes, WriteFails,
                CloseSocket, Settled, connection, client, server, outcome
  <2> QED BY <2>1, StaysJudged
<1>2. CASE CReadHead
  BY <1>2, <1>a, Unjudged DEF CReadHead, At
<1>3. CASE CJudgeHead
  <2>1. HasHead(Received) /\ pc = "head" /\ lang = "c" /\ UNCHANGED <<request, read, lang>>
    BY <1>3 DEF CJudgeHead, At, Serving, client
  <2>2. CASE response' = response
    BY <1>a, <2>1, <2>2, Unjudged
  <2>3. CASE ~HeadAccepted(lang, HeadOf(Received)) /\ Respond(400, <<>>)
    <3>1. Refuse
      BY <2>1, <2>3 DEF Respond, Refuse
    <3> QED BY <2>1, <2>3, <3>1, JudgesHeads
  <2> QED BY <1>3, <2>1, <2>2, <2>3, InTheirWords DEF CJudgeHead
<1>4. CASE CNoMemoryHead
  BY <1>4, CExcused DEF CNoMemoryHead, Respond, At, Serving
<1>5. CASE CReadBody
  <2>1. /\ pc = "body" /\ lang = "c" /\ UNCHANGED <<client, lang>>
        /\ BodyIn(lang, framing, BodyOf(Received)).state = "incomplete"
    BY <1>5, InTheirWords DEF CReadBody, At, Serving
  <2>2. CASE response' = response
    BY <1>a, <2>1, <2>2, Unjudged
  <2>3. CASE ReadsEnd /\ Respond(400, <<>>)
    <3>1. Refuse
      BY <2>1, <2>3 DEF Respond, Refuse, client
    <3>2. MessageIn(lang, Received).state = "incomplete"
      BY <2>1, UnfinishedBody
    <3> QED BY <2>1, <2>3, <3>1, <3>2, RefusesTheUnfinished
  <2>4. CASE ReadFails /\ Respond(400, <<>>)
    <3>1. Refuse /\ clientEnd' = "rst"
      BY <2>1, <2>4 DEF ReadFails, Respond, Refuse, client
    <3> QED BY <3>1, RefusesTheReset
  <2>5. CASE (ReadsEnd \/ ReadFails) /\ framing \in ChunkedFields /\ Respond(200, <<>>)
    <3>1. clientEnd' # "open" /\ framing' \in ChunkedFields /\ lang' = "c"
      BY <1>5, <2>1, <2>5 DEF CReadBody, ReadsEnd, ReadFails, client
    <3>2. response'.status = 200 /\ response'.body = <<>>
      BY <2>5 DEF Respond
    <3> QED BY <3>1, <3>2, CExcused
  <2>6. CASE (Respond(200, <<>>) \/ Respond(400, <<>>)) /\ fault'
    <3>1. response'.status \in {200, 400} /\ response'.body = <<>>
      BY <2>6 DEF Respond
    <3> QED BY <2>1, <2>6, <3>1, CExcused
  <2>7. CBodyEndsEarly => \/ framing \in ChunkedFields /\ Respond(200, <<>>)
                          \/ framing \notin ChunkedFields /\ Respond(400, <<>>)
    BY DEF CBodyEndsEarly
  <2> QED BY <1>5, <2>2, <2>3, <2>4, <2>5, <2>6, <2>7 DEF CReadBody
<1>6. CASE CBodyDone
  <2>1. pc = "body" /\ lang = "c" /\ UNCHANGED <<request, read, lang>>
    BY <1>6 DEF CBodyDone, At, Serving, client
  <2>2. PICK b : b = BodyIn(lang, framing, BodyOf(Received))
    OBVIOUS
  <2>3. \/ b.state = "complete" /\ Respond(200, b.body)
        \/ b.state = "invalid" /\ Respond(400, <<>>)
    BY <1>6, <2>1, <2>2, InTheirWords DEF CBodyDone
  <2> QED BY <2>1, <2>2, <2>3, JudgesBodies
<1> QED BY <1>1, <1>2, <1>3, <1>4, <1>5, <1>6 DEF CNext

LEMMA GoJudges == Types /\ Inv /\ Judged /\ GoNext => Judged'
<1> SUFFICES ASSUME Types, Inv, Judged, GoNext PROVE Judged'
  OBVIOUS
<1>a. pc \in Reading => response = NoResponse
  BY DEF Stages
<1>1. CASE GoAccept \/ GoAcceptFails \/ GoListenerCloseFails \/ GoWrite \/ GoReport \/ GoClose
  <2>1. Settled
    BY <1>1 DEF GoAccept, GoAcceptFails, GoListenerCloseFails, GoWrite, GoReport, GoClose, At, Serving, Accept, Write, WriteBytes, WriteFails,
                CloseSocket, Settled, connection, client, server, outcome
  <2> QED BY <2>1, StaysJudged
<1>2. CASE GoReadHead
  <2>1. ~HasHead(Received) /\ pc = "head" /\ UNCHANGED <<client, lang>>
    BY <1>2 DEF GoReadHead, At, Serving
  <2>2. CASE response' = response
    BY <1>a, <2>1, <2>2, Unjudged
  <2>3. CASE ReadsEnd /\ Respond(400, <<>>)
    <3>1. Refuse
      BY <2>1, <2>3 DEF Respond, Refuse, client
    <3>2. MessageIn(lang, Received).state = "incomplete"
      BY <2>1, NoHeadYet
    <3> QED BY <2>1, <2>3, <3>1, <3>2, RefusesTheUnfinished
  <2> QED BY <1>2, <2>2, <2>3 DEF GoReadHead, GoReject, GoGiveUp
<1>3. CASE GoJudgeHead
  <2>1. HasHead(Received) /\ pc = "head" /\ lang = "go" /\ UNCHANGED <<request, read, lang>>
    BY <1>3 DEF GoJudgeHead, At, Serving, client
  <2>2. CASE response' = response
    BY <1>a, <2>1, <2>2, Unjudged
  <2>3. CASE ~HeadAccepted(lang, HeadOf(Received)) /\ Respond(400, <<>>)
    <3>1. Refuse
      BY <2>1, <2>3 DEF Respond, Refuse
    <3> QED BY <2>1, <2>3, <3>1, JudgesHeads
  <2> QED BY <1>3, <2>1, <2>2, <2>3, InTheirWords DEF GoJudgeHead, GoReject
<1>4. CASE GoReadBody
  <2>1. /\ pc = "body" /\ lang = "go" /\ UNCHANGED <<client, lang>>
        /\ BodyIn(lang, framing, BodyOf(Received)).state = "incomplete"
    BY <1>4, InTheirWords DEF GoReadBody, At, Serving
  <2>2. CASE response' = response
    BY <1>a, <2>1, <2>2, Unjudged
  <2>3. CASE ReadsEnd /\ Respond(400, <<>>)
    <3>1. Refuse
      BY <2>1, <2>3 DEF Respond, Refuse, client
    <3>2. MessageIn(lang, Received).state = "incomplete"
      BY <2>1, UnfinishedBody
    <3> QED BY <2>1, <2>3, <3>1, <3>2, RefusesTheUnfinished
  <2> QED BY <1>4, <2>2, <2>3 DEF GoReadBody, GoReject, GoGiveUp
<1>5. CASE GoBodyDone
  <2>1. pc = "body" /\ lang = "go" /\ UNCHANGED <<request, read, lang>>
    BY <1>5 DEF GoBodyDone, At, Serving, client
  <2>2. PICK b : b = BodyIn(lang, framing, BodyOf(Received))
    OBVIOUS
  <2>3. \/ b.state = "complete" /\ Respond(200, b.body)
        \/ b.state = "invalid" /\ Respond(400, <<>>)
    BY <1>5, <2>1, <2>2, InTheirWords DEF GoBodyDone, GoReject
  <2> QED BY <2>1, <2>2, <2>3, JudgesBodies
<1> QED BY <1>1, <1>2, <1>3, <1>4, <1>5 DEF GoNext

LEMMA RustJudges == Types /\ Inv /\ Judged /\ RustNext => Judged'
<1> SUFFICES ASSUME Types, Inv, Judged, RustNext PROVE Judged'
  OBVIOUS
<1>a. pc \in Reading => response = NoResponse
  BY DEF Stages
<1>1. CASE RustAccept \/ RustAcceptFails \/ RustWrite \/ RustClose \/ RustReport
  <2>1. Settled
    BY <1>1 DEF RustAccept, RustAcceptFails, RustWrite, RustClose, RustReport, At, Serving, Accept, Write, WriteBytes, WriteFails,
                CloseSocket, Settled, connection, client, server, outcome
  <2> QED BY <2>1, StaysJudged
<1>2. CASE RustReadHead
  <2>1. ~HasHead(Received) /\ pc = "head" /\ UNCHANGED <<client, lang>>
    BY <1>2 DEF RustReadHead, At, Serving
  <2>2. CASE response' = response
    BY <1>a, <2>1, <2>2, Unjudged
  <2>3. CASE ReadsEnd /\ Respond(400, <<>>)
    <3>1. Refuse
      BY <2>1, <2>3 DEF Respond, Refuse, client
    <3>2. MessageIn(lang, Received).state = "incomplete"
      BY <2>1, NoHeadYet
    <3> QED BY <2>1, <2>3, <3>1, <3>2, RefusesTheUnfinished
  <2> QED BY <1>2, <2>2, <2>3 DEF RustReadHead, RustGiveUp
<1>3. CASE RustJudgeHead
  <2>1. HasHead(Received) /\ pc = "head" /\ lang = "rust" /\ UNCHANGED <<request, read, lang>>
    BY <1>3 DEF RustJudgeHead, At, Serving, client
  <2>2. CASE response' = response
    BY <1>a, <2>1, <2>2, Unjudged
  <2>3. CASE ~HeadAccepted(lang, HeadOf(Received)) /\ Respond(400, <<>>)
    <3>1. Refuse
      BY <2>1, <2>3 DEF Respond, Refuse
    <3> QED BY <2>1, <2>3, <3>1, JudgesHeads
  <2> QED BY <1>3, <2>1, <2>2, <2>3, InTheirWords DEF RustJudgeHead
<1>4. CASE RustReadBody
  <2>1. /\ pc = "body" /\ lang = "rust" /\ UNCHANGED <<client, lang>>
        /\ BodyIn(lang, framing, BodyOf(Received)).state = "incomplete"
    BY <1>4, InTheirWords DEF RustReadBody, At, Serving
  <2>2. CASE response' = response
    BY <1>a, <2>1, <2>2, Unjudged
  <2>3. CASE ReadsEnd /\ Respond(400, <<>>)
    <3>1. Refuse
      BY <2>1, <2>3 DEF Respond, Refuse, client
    <3>2. MessageIn(lang, Received).state = "incomplete"
      BY <2>1, UnfinishedBody
    <3> QED BY <2>1, <2>3, <3>1, <3>2, RefusesTheUnfinished
  <2> QED BY <1>4, <2>2, <2>3 DEF RustReadBody, RustGiveUp
<1>5. CASE RustBodyDone
  <2>1. pc = "body" /\ lang = "rust" /\ UNCHANGED <<request, read, lang>>
    BY <1>5 DEF RustBodyDone, At, Serving, client
  <2>2. PICK b : b = BodyIn(lang, framing, BodyOf(Received))
    OBVIOUS
  <2>3. \/ b.state = "complete" /\ Respond(200, b.body)
        \/ b.state = "invalid" /\ Respond(400, <<>>)
    BY <1>5, <2>1, <2>2, InTheirWords DEF RustBodyDone
  <2> QED BY <2>1, <2>2, <2>3, JudgesBodies
<1> QED BY <1>1, <1>2, <1>3, <1>4, <1>5 DEF RustNext

LEMMA ClientJudges == Judged /\ Client(ClientNext) => Judged'
<1> SUFFICES ASSUME Judged, Client(ClientNext) PROVE Judged'
  OBVIOUS
<1>1. Settled
  BY DEF Client, ClientNext, ClientSends, ClientReads, ClientCloses, ClientAborts, Settled,
         program, server
<1> QED BY <1>1, StaysJudged

LEMMA JudgedInductive == Types /\ Inv /\ Judged /\ [Next]_vars => Judged'
<1>1. Judged /\ UNCHANGED vars => Judged'
  <2>1. UNCHANGED vars => Settled
    BY DEF vars, connection, program, client, server, Settled
  <2> QED BY <2>1, StaysJudged
<1> QED BY <1>1, ClientJudges, CJudges, GoJudges, RustJudges DEF Next, ServerNext

LEMMA JudgedInvariance == Spec => []Judged
<1>1. Init => Judged
  BY DEF Init, EchoInit, ConnectionInit, NoResponse, Judged, EchoesTheBody, RejectsOnlyTheBad
<1> QED BY <1>1, JudgedInductive, TypesInvariance, Invariance, PTL DEF Spec

\* A 200 carries the body of a request that arrived in full, whatever the
\* request and however it was cut up on the way; C's two exceptions apart.
THEOREM EchoesWhatArrived == Spec => []EchoesTheBody
<1>1. Judged => EchoesTheBody
  BY DEF Judged
<1> QED BY <1>1, JudgedInvariance, PTL

\* No server answers 400 to a request that was good or could still become so,
\* unless its client had given up on it or C had no memory.
THEOREM RejectsWhatIsBad == Spec => []RejectsOnlyTheBad
<1>1. Judged => RejectsOnlyTheBad
  BY DEF Judged
<1> QED BY <1>1, JudgedInvariance, PTL
=============================================================================
