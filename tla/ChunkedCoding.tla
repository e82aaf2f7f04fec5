---------------------------- MODULE ChunkedCoding ----------------------------
(***************************************************************************)
(* The course's chunked transfer coding as a grammar: what a byte sequence *)
(* means, read as a whole and not byte by byte.  The reference against     *)
(* which the three incremental decoders are compared.                      *)
(***************************************************************************)
EXTENDS Octets

Open(b)        == [state |-> "incomplete", body |-> b, surplus |-> <<>>]
Malformed(b)   == [state |-> "invalid",    body |-> b, surplus |-> <<>>]
Finished(b, t) == [state |-> "complete",   body |-> b, surplus |-> t]

\* Where the first line of t ends: at its first CR or LF.
LineEnd(t) ==
  LET ends == {j \in DOMAIN t : t[j] \in {CR, LF}}
  IN  IF ends = {} THEN Len(t) + 1 ELSE Min(ends)
Line(t) == SubSeq(t, 1, LineEnd(t) - 1)

LineOpen(t)   == LineEnd(t) > Len(t) \/ (LineEnd(t) = Len(t) /\ t[LineEnd(t)] = CR)
LineBroken(t) == t[LineEnd(t)] = LF \/ t[LineEnd(t) + 1] # LF
From(t, i)    == SubSeq(t, i, Len(t))
NextLine(t)   == From(t, LineEnd(t) + 2)

\* name ":" value, the name not empty and free of blanks and controls.
FieldLine(l) ==
  \E c \in 2 .. Len(l) :
    l[c] = ":" /\ \A i \in 1 .. c - 1 : l[i] \notin Control \cup {":"}

Trailers[t \in Seq(STRING)] ==
  IF LineOpen(t) THEN Open(<<>>)
  ELSE IF LineBroken(t) THEN Malformed(<<>>)
  ELSE IF Line(t) = <<>> THEN Finished(<<>>, NextLine(t))
  ELSE IF FieldLine(Line(t)) THEN Trailers[NextLine(t)] ELSE Malformed(<<>>)

\* A chunk of n bytes with its CR LF, and `after` for what follows them.
Chunk(n, d, after) ==
  LET data == SubSeq(d, 1, n) IN
  IF Len(d) <= n THEN Open(d)
  ELSE IF d[n + 1] # CR THEN Malformed(data)
  ELSE IF Len(d) = n + 1 THEN Open(data)
  ELSE IF d[n + 2] # LF THEN Malformed(data)
  ELSE [after EXCEPT !.body = data \o @]

\* A message; sizeOf gives the value of a size line, BAD if it has none.
Decode(s, sizeOf) ==
  LET Chunks[t \in Seq(STRING)] ==
        LET n == sizeOf[Line(t)]
            d == NextLine(t)
        IN  IF LineOpen(t) THEN Open(<<>>)
            ELSE IF LineBroken(t) \/ n = BAD THEN Malformed(<<>>)
            ELSE IF n = 0 THEN Trailers[d]
            ELSE Chunk(n, d, Chunks[From(d, n + 3)])
  IN  Chunks[s]

\* A chunk size is a non-empty string of hexadecimal digits within the limit.
HexSize(l, limit) ==
  IF AllIn(l, HexDigit) /\ Number(l, 16) <= limit THEN Number(l, 16) ELSE BAD
=============================================================================
