---------------------------- MODULE StreamLemmas ----------------------------
(***************************************************************************)
(* Facts about a stream consumed in order, used by the decoder proofs, and *)
(* induction: that a recursive function exists, and what a fold computes.  *)
(***************************************************************************)
EXTENDS Integers, SequencesExt, SequenceTheorems, WellFoundedInduction, TLAPS

\* A window of the stream that takes in the next byte.
LEMMA WindowGrows ==
  ASSUME NEW S, NEW s \in Seq(S), NEW n \in 0 .. Len(s) - 1, NEW a \in 1 .. n + 1
  PROVE  Append(SubSeq(s, a, n), s[n + 1]) = SubSeq(s, a, n + 1)
<1>1. /\ a \in 1 .. Len(s) /\ n + 1 \in a .. Len(s) /\ s[n + 1] \in S
      /\ n = (n + 1) - 1 /\ a \in Int /\ n \in Int
  BY ElementOfSeq, LenProperties
<1>2. SubSeq(s, a, n + 1) = SubSeq(s, a, n) \o <<s[n + 1]>>
  BY <1>1, SubSeqRecursiveSecond
<1>3. SubSeq(s, a, n) \in Seq(S)
  <2>1. \A i \in a .. n : s[i] \in S
    BY ElementOfSeq, LenProperties
  <2> QED BY <2>1, <1>1, SubSeqProperties
<1> QED BY <1>1, <1>2, <1>3, AppendIsConcat

\* A window of a stream is a sequence of stream elements, as long as its bounds say.
LEMMA WindowType ==
  ASSUME NEW S, NEW s \in Seq(S), NEW a \in Nat \ {0}, NEW n \in 0 .. Len(s)
  PROVE  /\ SubSeq(s, a, n) \in Seq(S)
         /\ Len(SubSeq(s, a, n)) = IF a <= n THEN n - a + 1 ELSE 0
<1>1. \A i \in a .. n : s[i] \in S
  BY ElementOfSeq, LenProperties
<1> QED BY <1>1, SubSeqProperties, LenProperties

\* Two adjacent windows are one.
LEMMA WindowsJoin ==
  ASSUME NEW S, NEW s \in Seq(S), NEW n \in 0 .. Len(s), NEW k \in 0 .. n,
         NEW a \in 1 .. k + 1
  PROVE  SubSeq(s, a, k) \o SubSeq(s, k + 1, n) = SubSeq(s, a, n)
BY ConcatAdjacentSubSeq, LenProperties

\* Every sequence is a prefix of itself and of whatever extends it.

LEMMA PrefixOfConcat ==
  ASSUME NEW S, NEW s \in Seq(S), NEW t \in Seq(S)
  PROVE  IsPrefix(s, s \o t) /\ IsPrefix(s, s)
<1>1. /\ Len(s \o t) = Len(s) + Len(t) /\ s \o t \in Seq(S)
      /\ \A i \in 1 .. Len(s) : (s \o t)[i] = s[i]
      /\ Len(s) \in Nat /\ Len(t) \in Nat
  BY ConcatProperties, LenProperties
<1>2. \A i \in 1 .. Len(s) : s[i] \in S
  BY ElementOfSeq
<1>3. \A i \in 1 .. Len(s) : (s \o t)[i] \in S
  BY <1>1, <1>2
<1>4. SubSeq(s \o t, 1, Len(s)) = s
  <2>1. /\ SubSeq(s \o t, 1, Len(s)) \in Seq(S)
        /\ Len(SubSeq(s \o t, 1, Len(s))) = Len(s)
        /\ \A i \in 1 .. Len(s) : SubSeq(s \o t, 1, Len(s))[i] = (s \o t)[i]
    BY <1>1, <1>3, SubSeqProperties
  <2> QED BY <2>1, <1>1, SeqEqual
<1>5. SubSeq(s, 1, Len(s)) = s
  BY SubSeqFull
<1> QED BY <1>1, <1>4, <1>5 DEF IsPrefix

LEMMA PrefixOfAppend ==
  ASSUME NEW S, NEW s \in Seq(S), NEW e \in S
  PROVE  IsPrefix(s, Append(s, e))
<1>1. <<e>> \in Seq(S) /\ Append(s, e) = s \o <<e>>
  BY AppendIsConcat
<1> QED BY <1>1, PrefixOfConcat

\* A window of a window, with positions counted from its start.
LEMMA WindowOfWindow ==
  ASSUME NEW S, NEW s \in Seq(S), NEW c \in Nat, NEW n \in c .. Len(s),
         NEW a \in 1 .. n - c + 1, NEW b \in 0 .. n - c
  PROVE  SubSeq(SubSeq(s, c + 1, n), a, b) = SubSeq(s, c + a, c + b)
<1>0. /\ Len(s) \in Nat /\ a \in Int /\ b \in Int /\ n \in 0 .. Len(s) /\ c + 1 \in Nat \ {0}
      /\ c + a \in Int /\ c + b \in Int
  BY LenProperties
<1>1. CASE a > b
  <2>1. SubSeq(SubSeq(s, c + 1, n), a, b) = <<>>
    BY <1>0, <1>1, SubSeqEmpty
  <2>2. SubSeq(s, c + a, c + b) = <<>>
    BY <1>0, <1>1, SubSeqEmpty
  <2> QED BY <2>1, <2>2
<1>2. CASE a <= b
  <2>1. /\ c + 1 \in 1 .. Len(s) /\ n \in 1 .. Len(s)
        /\ a \in 1 .. n - (c + 1) + 1 /\ b \in 1 .. n - (c + 1) + 1
        /\ (c + 1) + a - 1 = c + a /\ (c + 1) + b - 1 = c + b
    BY <1>0, <1>2
  <2> QED BY <2>1, SubSeqOfSubSeq
<1> QED BY <1>0, <1>1, <1>2

\* The elements of a window.
LEMMA WindowElement ==
  ASSUME NEW S, NEW s \in Seq(S), NEW c \in Nat, NEW n \in c .. Len(s),
         NEW i \in 1 .. n - c
  PROVE  SubSeq(s, c + 1, n)[i] = s[c + i]
<1>1. /\ \A j \in c + 1 .. n : s[j] \in S
      /\ c + 1 \in Int /\ n \in Int /\ i \in 1 .. n - (c + 1) + 1 /\ (c + 1) + i - 1 = c + i
  BY ElementOfSeq, LenProperties
<1> QED BY <1>1, SubSeqProperties

\* One element more.
Longer(S, s, e, t) ==
  /\ t \in Seq(S) /\ t # <<>>
  /\ Len(s) \in Nat /\ Len(t) = Len(s) + 1
  /\ t[Len(s) + 1] = e /\ \A i \in 1 .. Len(s) : t[i] = s[i]

LEMMA AppendParts ==
  ASSUME NEW S, NEW s \in Seq(S), NEW e \in S
  PROVE  Longer(S, s, e, Append(s, e))
<1>1. /\ Append(s, e) \in Seq(S) /\ Append(s, e) # <<>>
      /\ Len(Append(s, e)) = Len(s) + 1
  BY AppendProperties
<1>2. Append(s, e)[Len(s) + 1] = e /\ \A i \in 1 .. Len(s) : Append(s, e)[i] = s[i]
  BY AppendProperties
<1>3. Len(s) \in Nat
  BY LenProperties
<1> QED BY <1>1, <1>2, <1>3, Zenon DEF Longer

LEMMA OneElement ==
  ASSUME NEW S, NEW e \in S
  PROVE  <<e>> \in Seq(S) /\ Len(<<e>>) = 1
OBVIOUS

\* Appending behind a concatenation.
LEMMA AppendToConcat ==
  ASSUME NEW S, NEW s \in Seq(S), NEW t \in Seq(S), NEW e \in S
  PROVE  s \o Append(t, e) = Append(s \o t, e)
<1>1. <<e>> \in Seq(S) /\ Append(t, e) = t \o <<e>> /\ s \o t \in Seq(S)
  BY AppendIsConcat, ConcatProperties
<1>2. Append(s \o t, e) = (s \o t) \o <<e>>
  BY <1>1, AppendIsConcat
<1>3. (s \o t) \o <<e>> = s \o (t \o <<e>>)
  BY ONLY <1>1, ConcatAssociative
<1> QED BY <1>1, <1>2, <1>3

LEMMA ConcatParts ==
  ASSUME NEW S, NEW s \in Seq(S), NEW t \in Seq(S)
  PROVE  /\ s \o t \in Seq(S) /\ Len(s \o t) = Len(s) + Len(t)
         /\ \A i \in 1 .. Len(s) : (s \o t)[i] = s[i]
         /\ \A i \in 1 .. Len(t) : (s \o t)[Len(s) + i] = t[i]
<1>1. Len(s) \in Nat /\ Len(t) \in Nat
  BY LenProperties
<1>2. /\ s \o t \in Seq(S) /\ Len(s \o t) = Len(s) + Len(t)
      /\ \A i \in 1 .. Len(s) + Len(t) : (s \o t)[i] =
              IF i <= Len(s) THEN s[i] ELSE t[i - Len(s)]
  BY ConcatProperties
<1>3. \A i \in 1 .. Len(s) : i \in 1 .. Len(s) + Len(t) /\ i <= Len(s)
  BY <1>1
<1>4. \A i \in 1 .. Len(t) : /\ Len(s) + i \in 1 .. Len(s) + Len(t) /\ ~(Len(s) + i <= Len(s))
                             /\ (Len(s) + i) - Len(s) = i
  BY <1>1
<1> QED BY ONLY <1>2, <1>3, <1>4

\* The two parts of a concatenation, as windows of it.
LEMMA ConcatWindows ==
  ASSUME NEW S, NEW s \in Seq(S), NEW t \in Seq(S)
  PROVE  /\ SubSeq(s \o t, 1, Len(s)) = s
         /\ SubSeq(s \o t, Len(s) + 1, Len(s \o t)) = t
<1>1. /\ s \o t \in Seq(S) /\ Len(s \o t) = Len(s) + Len(t)
      /\ \A i \in 1 .. Len(s) : (s \o t)[i] = s[i]
      /\ \A i \in 1 .. Len(t) : (s \o t)[Len(s) + i] = t[i]
  BY ConcatParts
<1>2. Len(s) \in Nat /\ Len(t) \in Nat
  BY LenProperties
<1> DEFINE c == s \o t
<1> HIDE DEF c
<1>3. SubSeq(c, 1, Len(s)) = s
  <2>1. /\ Len(s) \in 0 .. Len(c) /\ 0 \in Nat /\ Len(s) - 0 = Len(s) /\ Len(s) \in 0 .. Len(c)
        /\ 0 + 1 = 1 /\ \A i \in 1 .. Len(s) : 0 + i = i
    BY <1>1, <1>2 DEF c
  <2>2. SubSeq(c, 1, Len(s)) \in Seq(S) /\ Len(SubSeq(c, 1, Len(s))) = Len(s)
    BY <1>1, <1>2, <2>1, WindowType DEF c
  <2>3. \A i \in 1 .. Len(s) : SubSeq(c, 1, Len(s))[i] = c[i]
    BY <1>1, <1>2, <2>1, WindowElement DEF c
  <2> QED BY <1>1, <2>2, <2>3, SeqEqual DEF c
<1>4. SubSeq(c, Len(s) + 1, Len(c)) = t
  <2>1. /\ Len(c) \in Len(s) .. Len(c) /\ Len(c) - Len(s) = Len(t)
        /\ Len(s) + 1 \in Nat \ {0} /\ Len(c) \in 0 .. Len(c)
        /\ (IF Len(s) + 1 <= Len(c) THEN Len(c) - (Len(s) + 1) + 1 ELSE 0) = Len(t)
    BY <1>1, <1>2 DEF c
  <2>2. SubSeq(c, Len(s) + 1, Len(c)) \in Seq(S) /\ Len(SubSeq(c, Len(s) + 1, Len(c))) = Len(t)
    BY <1>1, <2>1, WindowType DEF c
  <2>3. \A i \in 1 .. Len(t) : SubSeq(c, Len(s) + 1, Len(c))[i] = c[Len(s) + i]
    BY <1>1, <1>2, <2>1, WindowElement DEF c
  <2> QED BY <1>1, <2>2, <2>3, SeqEqual DEF c
<1> QED BY <1>3, <1>4 DEF c

\* An element between two sequences.
Splice(S, l, b, w, t) ==
  /\ t = Append(l, b) \o w /\ t \in Seq(S)
  /\ <<b>> \o w \in Seq(S) /\ Len(<<b>> \o w) = Len(w) + 1
  /\ Len(l) \in Nat /\ Len(w) \in Nat /\ Len(t) = Len(l) + 1 + Len(w)
  /\ \A i \in 1 .. Len(l) : t[i] = l[i]
  /\ t[Len(l) + 1] = b
  /\ SubSeq(t, 1, Len(l)) = l
  /\ SubSeq(t, Len(l) + 2, Len(t)) = w

LEMMA Between ==
  ASSUME NEW S, NEW l \in Seq(S), NEW b \in S, NEW w \in Seq(S)
  PROVE  Splice(S, l, b, w, l \o (<<b>> \o w))
<1>1. <<b>> \in Seq(S) /\ Append(l, b) = l \o <<b>>
  BY AppendIsConcat
<1>2. /\ Append(l, b) \in Seq(S) /\ Len(Append(l, b)) = Len(l) + 1
      /\ Append(l, b)[Len(l) + 1] = b
      /\ Len(l) \in Nat /\ Len(w) \in Nat
  BY AppendProperties, LenProperties
<1>3. /\ <<b>> \o w \in Seq(S) /\ Len(<<b>> \o w) = Len(w) + 1
  <2>1. Len(<<b>>) = 1
    OBVIOUS
  <2>2. <<b>> \o w \in Seq(S) /\ Len(<<b>> \o w) = Len(<<b>>) + Len(w)
    BY ONLY <1>1, w \in Seq(S), ConcatProperties
  <2> QED BY ONLY <1>2, <2>1, <2>2
<1>4. l \o (<<b>> \o w) = Append(l, b) \o w
  BY <1>1, ConcatAssociative
<1> DEFINE r == <<b>> \o w
           a == Append(l, b)
           t == l \o r
<1> HIDE DEF r, a, t
<1>5. /\ t \in Seq(S) /\ Len(t) = Len(l) + Len(r)
      /\ \A i \in 1 .. Len(l) : t[i] = l[i]
      /\ SubSeq(t, 1, Len(l)) = l
  BY <1>3, ConcatParts, ConcatWindows DEF r, t
<1>6. t = a \o w /\ a \in Seq(S) /\ Len(a) = Len(l) + 1 /\ a[Len(l) + 1] = b
  BY <1>2, <1>4 DEF r, a, t
<1>7. /\ \A i \in 1 .. Len(a) : t[i] = a[i]
      /\ SubSeq(t, Len(a) + 1, Len(t)) = w
  BY <1>6, ConcatParts, ConcatWindows
<1>8. Len(l) + 1 \in 1 .. Len(a) /\ Len(a) + 1 = Len(l) + 2
      /\ Len(l) + Len(r) = Len(l) + 1 + Len(w)
  BY <1>2, <1>3, <1>6 DEF r
<1>9. t \in Seq(S) /\ \A i \in 1 .. Len(l) : t[i] = l[i]
  BY <1>5
<1>10. Len(t) = Len(l) + 1 + Len(w) /\ t[Len(l) + 1] = b /\ SubSeq(t, Len(l) + 2, Len(t)) = w
  BY <1>5, <1>6, <1>7, <1>8
<1>11. t = Append(l, b) \o w /\ <<b>> \o w \in Seq(S) /\ Len(<<b>> \o w) = Len(w) + 1
  BY <1>3, <1>4 DEF t, r
<1>12. t = l \o (<<b>> \o w)
  BY DEF t, r
<1>13. Splice(S, l, b, w, t)
  BY <1>2, <1>5, <1>9, <1>10, <1>11 DEF Splice
<1> QED BY <1>12, <1>13

\* An element in front of a sequence, and the windows it moves.
Headed(S, b, w, d) ==
  /\ d \in Seq(S) /\ Len(w) \in Nat /\ Len(d) = Len(w) + 1
  /\ d[1] = b /\ \A i \in 1 .. Len(w) : d[i + 1] = w[i]
  /\ \A n \in 0 .. Len(w) : SubSeq(d, 1, n + 1) = <<b>> \o SubSeq(w, 1, n)
  /\ \A k \in Nat \ {0} : SubSeq(d, k + 1, Len(d)) = SubSeq(w, k, Len(w))

LEMMA InFront ==
  ASSUME NEW S, NEW b \in S, NEW w \in Seq(S)
  PROVE  Headed(S, b, w, <<b>> \o w)
<1> DEFINE e == <<b>>
           d == e \o w
<1>1. e \in Seq(S) /\ Len(e) = 1 /\ e[1] = b /\ Len(w) \in Nat
  BY LenProperties
<1> HIDE DEF e
<1>2. /\ d \in Seq(S) /\ Len(d) = Len(e) + Len(w)
      /\ \A i \in 1 .. Len(e) : d[i] = e[i]
      /\ \A i \in 1 .. Len(w) : d[Len(e) + i] = w[i]
      /\ SubSeq(d, 1, Len(e)) = e
      /\ SubSeq(d, Len(e) + 1, Len(d)) = w
  BY <1>1, ConcatParts, ConcatWindows
<1> HIDE DEF d
<1>3. /\ d \in Seq(S) /\ Len(d) = Len(w) + 1 /\ d[1] = b
      /\ \A i \in 1 .. Len(w) : d[i + 1] = w[i]
      /\ SubSeq(d, 1, 1) = e /\ SubSeq(d, 2, Len(d)) = w
  <2>1. 1 \in 1 .. 1 /\ 1 + 1 = 2 /\ \A i \in 1 .. Len(w) : 1 + i = i + 1
    BY <1>1
  <2> QED BY <1>1, <1>2, <2>1
<1>4. ASSUME NEW k \in 1 .. Len(w) + 1, NEW n \in 0 .. Len(w)
      PROVE  SubSeq(w, k, n) = SubSeq(d, k + 1, n + 1)
  <2>1. /\ Len(d) \in 1 .. Len(d) /\ k \in 1 .. Len(d) - 1 + 1 /\ n \in 0 .. Len(d) - 1
        /\ 1 \in Nat /\ 1 + 1 = 2 /\ 1 + k = k + 1 /\ 1 + n = n + 1
    BY <1>1, <1>3
  <2>2. SubSeq(SubSeq(d, 1 + 1, Len(d)), k, n) = SubSeq(d, 1 + k, 1 + n)
    BY <1>3, <2>1, WindowOfWindow
  <2> QED BY <1>3, <2>1, <2>2
<1>5. ASSUME NEW n \in 0 .. Len(w) PROVE SubSeq(d, 1, n + 1) = e \o SubSeq(w, 1, n)
  <2>1. n + 1 \in 0 .. Len(d) /\ 1 \in 0 .. n + 1 /\ 1 \in 1 .. 1 + 1 /\ 1 + 1 = 2
        /\ 1 \in 1 .. Len(w) + 1
    BY <1>1, <1>3
  <2>2. SubSeq(d, 1, 1) \o SubSeq(d, 1 + 1, n + 1) = SubSeq(d, 1, n + 1)
    BY <1>3, <2>1, WindowsJoin
  <2> QED BY <1>3, <1>4, <2>1, <2>2
<1>6. ASSUME NEW k \in Nat \ {0} PROVE SubSeq(d, k + 1, Len(d)) = SubSeq(w, k, Len(w))
  <2>1. CASE k <= Len(w) + 1
    <3>1. k \in 1 .. Len(w) + 1 /\ Len(w) \in 0 .. Len(w) /\ Len(w) + 1 = Len(d)
      BY <1>1, <1>3, <2>1
    <3> QED BY <1>4, <3>1
  <2>2. CASE k > Len(w) + 1
    <3>1. k \in Int /\ k + 1 \in Int /\ Len(d) \in Int /\ Len(w) \in Int
          /\ k + 1 > Len(d) /\ k > Len(w)
      BY <1>1, <1>3, <2>2
    <3> QED BY <3>1, SubSeqEmpty
  <2> QED BY <2>1, <2>2, <1>1
<1>7. Headed(S, b, w, d)
  BY <1>1, <1>3, <1>5, <1>6 DEF Headed, e
<1> QED BY <1>7 DEF d, e

LEMMA MinOfTwo ==
  ASSUME NEW a \in Nat, NEW b \in Nat
  PROVE  Min({a, b}) = IF a <= b THEN a ELSE b
<1> DEFINE m == IF a <= b THEN a ELSE b
<1>1. m \in {a, b} /\ \A y \in {a, b} : m =< y
  OBVIOUS
<1>2. \A x \in {a, b} : (\A y \in {a, b} : x =< y) => x = m
  OBVIOUS
<1> QED BY <1>1, <1>2 DEF Min

-----------------------------------------------------------------------------
(* Induction.  The library's induction theorems have a predicate as their  *)
(* parameter; with a set in its place they can be cited.                   *)

LEMMA LeastNatural ==
  ASSUME NEW S \in SUBSET Nat, S # {}
  PROVE  \E n \in S : \A m \in S : n <= m
<1> DEFINE R == OpToRel(<, Nat)
<1>1. IsWellFoundedOn(R, Nat) BY NatLessThanWellFounded, Zenon
<1>2. PICK x \in S : \A y \in S : <<y, x>> \notin R
  <2> HIDE DEF R
  <2> QED BY <1>1, WFMin
<1>3. \A y \in S : ~(y < x)
  BY <1>2 DEF OpToRel
<1> QED BY <1>3

LEMMA Induction ==
  ASSUME NEW S, 0 \in S, \A n \in Nat : n \in S => n + 1 \in S
  PROVE  \A n \in Nat : n \in S
<1> SUFFICES ASSUME Nat \ S # {} PROVE FALSE OBVIOUS
<1>1. PICK n \in Nat \ S : \A m \in Nat \ S : n <= m BY LeastNatural
<1>2. n # 0 /\ n-1 \in Nat /\ n - 1 \notin Nat \ S BY <1>1
<1>3. n-1 \in S /\ (n-1)+1 = n BY <1>2
<1> QED BY <1>1, <1>2, <1>3

\* A recursion that gets shorter: f[d] follows from f[next[d]], or d is at a stop.
Recursion(D, T, mu, stop, next, base, g) ==
  /\ mu \in [D -> Nat] /\ stop \in SUBSET D
  /\ next \in [D -> D] /\ \A d \in D \ stop : mu[next[d]] < mu[d]
  /\ base \in [D -> T] /\ g \in [D \X T -> T]

LEMMA RecursiveFunction ==
  ASSUME NEW D, NEW T, NEW mu, NEW stop, NEW next, NEW base, NEW g,
         Recursion(D, T, mu, stop, next, base, g)
  PROVE  \E f \in [D -> T] :
           \A d \in D : f[d] = IF d \in stop THEN base[d] ELSE g[<<d, f[next[d]]>>]
<1> USE DEF Recursion
<1> DEFINE One(f, d) == IF d \in stop THEN base[d] ELSE g[<<d, f[next[d]]>>]
           Upto(f, n) == \A d \in D : mu[d] < n => f[d] = One(f, d)
<1>0. \A f \in [D -> T], d \in D : One(f, d) \in T
  OBVIOUS
<1>1. \A n \in Nat : \E f \in [D -> T] : Upto(f, n)
  <2> DEFINE G == {n \in Nat : \E f \in [D -> T] : Upto(f, n)}
  <2>1. 0 \in G
    OBVIOUS
  <2>2. ASSUME NEW n \in Nat, n \in G PROVE n + 1 \in G
    <3>1. PICK f \in [D -> T] : Upto(f, n)
      BY <2>2
    <3> DEFINE h == [d \in D |-> One(f, d)]
    <3>2. h \in [D -> T]
      BY <1>0
    <3>3. ASSUME NEW d \in D, mu[d] < n + 1 PROVE h[d] = One(h, d)
      <4>1. CASE d \in stop
        BY <4>1
      <4>2. CASE d \notin stop
        <5>1. next[d] \in D /\ mu[next[d]] < n
          BY <4>2, <3>3
        <5>2. f[next[d]] = h[next[d]]
          BY <5>1, <3>1
        <5> QED BY <4>2, <5>2
      <4> QED BY <4>1, <4>2
    <3> HIDE DEF One, h
    <3> QED BY <3>2, <3>3
  <2> HIDE DEF G
  <2>3. \A n \in Nat : n \in G
    BY <2>1, <2>2, Induction
  <2> QED BY <2>3 DEF G
<1>2. ASSUME NEW f \in [D -> T], NEW h \in [D -> T], NEW n \in Nat, Upto(f, n), Upto(h, n)
      PROVE  \A d \in D : mu[d] < n => f[d] = h[d]
  <2> DEFINE G == {k \in Nat : \A d \in D : mu[d] < k /\ mu[d] < n => f[d] = h[d]}
  <2>1. 0 \in G
    OBVIOUS
  <2>2. ASSUME NEW k \in Nat, k \in G PROVE k + 1 \in G
    <3> SUFFICES ASSUME NEW d \in D, mu[d] < k + 1, mu[d] < n PROVE f[d] = h[d]
      OBVIOUS
    <3>1. f[d] = One(f, d) /\ h[d] = One(h, d)
      BY <1>2
    <3>2. CASE d \in stop
      BY <3>1, <3>2
    <3>3. CASE d \notin stop
      <4>1. next[d] \in D /\ mu[next[d]] < k /\ mu[next[d]] < n
        BY <3>3
      <4>2. f[next[d]] = h[next[d]]
        BY <4>1, <2>2
      <4> QED BY <3>1, <3>3, <4>2
    <3> QED BY <3>2, <3>3
  <2> HIDE DEF G
  <2>3. \A k \in Nat : k \in G
    BY <2>1, <2>2, Induction
  <2> QED BY <2>3 DEF G
<1> DEFINE F(n) == CHOOSE f : f \in [D -> T] /\ Upto(f, n)
           f == [d \in D |-> F(mu[d] + 1)[d]]
<1>3. ASSUME NEW n \in Nat PROVE F(n) \in [D -> T] /\ Upto(F(n), n)
  <2> HIDE DEF Upto
  <2> QED BY <1>1
<1> HIDE DEF F
<1>4. f \in [D -> T]
  BY <1>3
<1>5. ASSUME NEW n \in Nat, NEW d \in D, mu[d] < n PROVE F(n)[d] = f[d]
  <2>1. mu[d] + 1 \in Nat /\ Upto(F(n), mu[d] + 1) /\ Upto(F(mu[d] + 1), mu[d] + 1)
    BY <1>3, <1>5
  <2> HIDE DEF Upto
  <2>2. /\ F(n) \in [D -> T] /\ F(mu[d] + 1) \in [D -> T]
        /\ mu[d] < mu[d] + 1
    BY <1>3, <2>1
  <2>3. F(n)[d] = F(mu[d] + 1)[d]
    BY ONLY <1>2, <2>1, <2>2, d \in D
  <2> QED BY <2>3
<1>6. ASSUME NEW d \in D PROVE f[d] = One(f, d)
  <2>1. mu[d] + 1 \in Nat /\ mu[d] < mu[d] + 1
    OBVIOUS
  <2>2. F(mu[d] + 1)[d] = One(F(mu[d] + 1), d) /\ F(mu[d] + 1)[d] = f[d]
    BY <1>3, <1>5, <2>1
  <2>3. CASE d \in stop
    BY <2>2, <2>3
  <2>4. CASE d \notin stop
    <3>1. next[d] \in D /\ mu[next[d]] < mu[d] + 1
      BY <2>4
    <3>2. F(mu[d] + 1)[next[d]] = f[next[d]]
      BY <2>1, <3>1, <1>5
    <3> HIDE DEF f
    <3> QED BY <2>2, <2>4, <3>2
  <2> QED BY <2>3, <2>4
<1> HIDE DEF f
<1> QED BY <1>4, <1>6
\* And a definition that obeys such a recursion has its values in T.
Recurs(h, D, T, stop, next, base, g) ==
  \A d \in D : /\ d \in stop => h[d] = base[d]
               /\ d \notin stop /\ h[next[d]] \in T => h[d] = g[<<d, h[next[d]]>>]

LEMMA RecursionType ==
  ASSUME NEW D, NEW T, NEW mu, NEW stop, NEW next, NEW base, NEW g,
         Recursion(D, T, mu, stop, next, base, g),
         NEW h, Recurs(h, D, T, stop, next, base, g)
  PROVE  \A d \in D : h[d] \in T
<1> USE DEF Recursion, Recurs
<1> DEFINE G == {n \in Nat : \A d \in D : mu[d] < n => h[d] \in T}
<1>1. 0 \in G
  OBVIOUS
<1>2. ASSUME NEW n \in Nat, n \in G PROVE n + 1 \in G
  <2> SUFFICES ASSUME NEW d \in D, mu[d] < n + 1 PROVE h[d] \in T
    OBVIOUS
  <2>1. CASE d \in stop
    BY <2>1
  <2>2. CASE d \notin stop
    <3>1. next[d] \in D /\ mu[next[d]] < n
      BY <2>2
    <3>2. h[next[d]] \in T
      BY <1>2, <3>1
    <3> QED BY <2>2, <3>2
  <2> QED BY <2>1, <2>2
<1>3. \A n \in Nat : n \in G
  <2> HIDE DEF G
  <2> QED BY <1>1, <1>2, Induction
<1> SUFFICES ASSUME NEW d \in D PROVE h[d] \in T
  OBVIOUS
<1>4. mu[d] + 1 \in Nat /\ mu[d] < mu[d] + 1
  OBVIOUS
<1> QED BY <1>3, <1>4

LEMMA MaxFacts ==
  ASSUME NEW n \in Nat, NEW s \in SUBSET (1 .. n), s # {}
  PROVE  Max(s) \in s /\ \A i \in s : i <= Max(s)
<1> DEFINE S == {k \in Nat : \E i \in s : k = n - i}
<1>1. PICK k \in S : \A m \in S : k <= m
  <2>1. S # {} /\ S \in SUBSET Nat
     <3>1. PICK i \in s : TRUE OBVIOUS
     <3>2. n - i \in S BY <3>1
     <3> QED BY <3>2
  <2> HIDE DEF S
  <2> QED BY <2>1, LeastNatural
<1>2. PICK i \in s : k = n - i BY <1>1
<1>3. \A j \in s : n - j \in S OBVIOUS
<1>4. \A j \in s : i >= j BY <1>1, <1>2, <1>3
<1> QED BY <1>2, <1>4 DEF Max

LEMMA MinFacts ==
  ASSUME NEW s \in SUBSET Nat, s # {}
  PROVE  Min(s) \in s /\ \A i \in s : Min(s) <= i
<1>1. \E n \in s : \A m \in s : n <= m
  BY LeastNatural
<1> QED BY <1>1 DEF Min

\* A fold over the positions 1 .. n, with values in T.
Folding(n, T, base, g) == n \in Nat /\ base \in T /\ g \in [(1 .. n) \X T -> T]
Folded(f, n, base, g) ==
  \A s \in SUBSET (1 .. n) :
    f[s] = IF s = {} THEN base ELSE g[<<Max(s), f[s \ {Max(s)}]>>]

\* The function on sets of positions by which the community modules define the
\* folds: it takes the last position off, again and again.
LEMMA FoldingFunction ==
  ASSUME NEW n, NEW T, NEW base, NEW g, Folding(n, T, base, g)
  PROVE  \E f \in [SUBSET (1 .. n) -> T] : Folded(f, n, base, g)
<1> USE DEF Folding, Folded
<1> DEFINE D == SUBSET (1 .. n)
           mu == [s \in D |-> IF s = {} THEN 0 ELSE Max(s)]
           stop == {{}}
           nx == [s \in D |-> s \ {Max(s)}]
           bs == [s \in D |-> base]
           h == [p \in D \X T |-> IF p[1] = {} THEN base ELSE g[<<Max(p[1]), p[2]>>]]
<1>0. \A s \in D : s # {} => Max(s) \in 1 .. n /\ Max(s) \in s /\ \A i \in s : i <= Max(s)
  BY MaxFacts
<1>1. /\ mu \in [D -> Nat] /\ stop \in SUBSET D
      /\ bs \in [D -> T] /\ \A s \in D \ stop : nx[s] = s \ {Max(s)} /\ nx[s] \in D
  <2>1. mu \in [D -> Nat]
    BY <1>0
  <2> QED BY <2>1
<1>a. nx \in [D -> D]
  <2>1. \A s \in D : s \ {Max(s)} \in D
    OBVIOUS
  <2> QED BY <2>1
<1>b. h \in [D \X T -> T]
  <2> SUFFICES ASSUME NEW p \in D \X T PROVE (IF p[1] = {} THEN base ELSE g[<<Max(p[1]), p[2]>>]) \in T
    OBVIOUS
  <2>1. p[1] \in D /\ p[2] \in T
    OBVIOUS
  <2> HIDE DEF D
  <2> QED BY <2>1, <1>0
<1>2. \A d \in D \ stop : mu[nx[d]] < mu[d]
  <2> SUFFICES ASSUME NEW d \in D, d # {} PROVE mu[nx[d]] < mu[d]
    OBVIOUS
  <2>1. Max(d) \in 1 .. n /\ d \ {Max(d)} \in D /\ mu[d] = Max(d) /\ nx[d] = d \ {Max(d)}
    BY <1>0
  <2>2. CASE d \ {Max(d)} = {}
    BY <2>1, <2>2
  <2>3. CASE d \ {Max(d)} # {}
    <3>1. Max(d \ {Max(d)}) \in d \ {Max(d)}
      BY <2>1, <2>3, <1>0
    <3>2. \A i \in d : i <= Max(d) /\ i \in Int
      BY <1>0
    <3> QED BY <2>1, <2>3, <3>1, <3>2
  <2> QED BY <2>2, <2>3
<1>3. \E f \in [D -> T] : \A d \in D : f[d] = IF d \in stop THEN bs[d] ELSE h[<<d, f[nx[d]]>>]
  <2> HIDE DEF D, mu, stop, nx, bs, h
  <2>1. Recursion(D, T, mu, stop, nx, bs, h)
    BY <1>1, <1>a, <1>b, <1>2 DEF Recursion
  <2> QED BY <2>1, RecursiveFunction
<1>4. PICK f \in [D -> T] : \A d \in D : f[d] = IF d \in stop THEN bs[d] ELSE h[<<d, f[nx[d]]>>]
  BY <1>3
<1>5. \A s \in D : f[s] = IF s = {} THEN base ELSE g[<<Max(s), f[s \ {Max(s)}]>>]
  <2> SUFFICES ASSUME NEW s \in D PROVE f[s] = IF s = {} THEN base ELSE g[<<Max(s), f[s \ {Max(s)}]>>]
    OBVIOUS
  <2>1. f[s] = IF s \in stop THEN bs[s] ELSE h[<<s, f[nx[s]]>>]
    BY <1>4
  <2>2. f[nx[s]] \in T BY <1>a
  <2> QED BY <2>1, <2>2
<1> QED BY <1>5

\* Along the positions 1 .. i such a function computes the fold step by step.
Folds(iter, n, T, base, g) ==
  /\ iter[{}] = base
  /\ \A s \in SUBSET (1 .. n) : s # {} /\ iter[s \ {Max(s)}] \in T =>
       iter[s] = g[<<Max(s), iter[s \ {Max(s)}]>>]

LEMMA FoldSteps ==
  ASSUME NEW n, NEW T, NEW base, NEW g, Folding(n, T, base, g),
         NEW iter, Folds(iter, n, T, base, g)
  PROVE  \E w \in [0 .. n -> T] :
           /\ w[0] = base /\ w[n] = iter[1 .. n]
           /\ \A i \in 1 .. n : w[i] = g[<<i, w[i - 1]>>]
<1> USE DEF Folding, Folds
<1>1. ASSUME NEW i \in 1 .. n, iter[1 .. i - 1] \in T
      PROVE  iter[1 .. i] = g[<<i, iter[1 .. i - 1]>>] /\ iter[1 .. i] \in T
  <2>1. 1 .. i \in SUBSET (1 .. n) /\ 1 .. i # {} /\ i \in 1 .. i
    OBVIOUS
  <2>2. Max(1 .. i) = i
    <3>1. Max(1 .. i) \in 1 .. i /\ \A j \in 1 .. i : j <= Max(1 .. i)
      BY ONLY <2>1, n \in Nat, MaxFacts
    <3> QED BY <3>1, <2>1
  <2>3. (1 .. i) \ {i} = 1 .. i - 1
    OBVIOUS
  <2> QED BY <1>1, <2>1, <2>2, <2>3
<1> DEFINE G == {i \in Nat : i <= n => iter[1 .. i] \in T}
<1>2. 0 \in G
  <2>1. 1 .. 0 = {}
    OBVIOUS
  <2> QED BY <2>1
<1>3. ASSUME NEW i \in Nat, i \in G PROVE i + 1 \in G
  <2> SUFFICES ASSUME i + 1 <= n PROVE iter[1 .. i + 1] \in T
    OBVIOUS
  <2>1. i + 1 \in 1 .. n /\ (i + 1) - 1 = i /\ iter[1 .. i] \in T
    BY <1>3
  <2> QED BY <1>1, <2>1
<1>4. \A i \in Nat : i \in G
  <2> HIDE DEF G
  <2> QED BY <1>2, <1>3, Induction
<1> DEFINE w == [i \in 0 .. n |-> iter[1 .. i]]
<1>5. w \in [0 .. n -> T] /\ w[n] = iter[1 .. n]
  BY <1>4
<1>6. w[0] = base
  <2>1. 1 .. 0 = {}
    OBVIOUS
  <2> QED BY <2>1
<1>7. \A i \in 1 .. n : w[i] = g[<<i, w[i - 1]>>]
  BY <1>1, <1>4
<1> HIDE DEF w
<1> QED BY <1>5, <1>6, <1>7

\* A sequence that is not empty has a first element and a rest.
LEMMA FirstAndRest ==
  ASSUME NEW S, NEW w \in Seq(S), w # <<>>
  PROVE  \E b \in S, v \in Seq(S) : w = <<b>> \o v
<1> DEFINE n == Len(w)
           b == w[1]
           v == SubSeq(w, 2, n)
           e == SubSeq(w, 1, 0)
<1>1. n \in Nat /\ n # 0
  BY EmptySeq, LenProperties
<1> HIDE DEF n
<1>2. b \in S
  BY <1>1, ElementOfSeq DEF n
<1>3. /\ n \in 0 .. n /\ 1 \in 1 .. 1 + 1 /\ 1 \in 0 .. n /\ 0 \in Nat /\ 0 + 1 = 1
      /\ 0 \in 0 .. n - 1 /\ 1 \in 1 .. 0 + 1 /\ 1 + 1 = 2 /\ 2 \in Nat \ {0}
  BY <1>1
<1>4. SubSeq(w, 1, 1) \o SubSeq(w, 1 + 1, n) = SubSeq(w, 1, n)
  BY <1>3, WindowsJoin DEF n
<1>5. SubSeq(w, 1, n) = w
  BY SubSeqFull DEF n
<1>6. Append(e, w[0 + 1]) = SubSeq(w, 1, 0 + 1)
  BY <1>3, WindowGrows DEF n
<1>7. e = <<>>
  BY <1>3, SubSeqEmpty
<1> HIDE DEF e
<1>8. SubSeq(w, 1, 1) = <<b>>
  <2>1. Append(<<>>, w[0 + 1]) = <<w[0 + 1]>>
    OBVIOUS
  <2> QED BY <1>3, <1>6, <1>7, <2>1, Zenon
<1>9. v \in Seq(S)
  BY <1>3, WindowType DEF n
<1>10. w = <<b>> \o v
  BY <1>3, <1>4, <1>5, <1>8
<1> QED BY <1>2, <1>9, <1>10

=============================================================================
