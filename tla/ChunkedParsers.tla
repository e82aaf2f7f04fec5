--------------------------- MODULE ChunkedParsers ---------------------------
(***************************************************************************)
(* The three chunked decoders, each fed an arbitrary stream in arbitrary   *)
(* pieces, and what they have in common.                                   *)
(***************************************************************************)
EXTENDS ChunkedC, ChunkedGo, ChunkedRust, ChunkedCoding

Promise == INSTANCE BodyDecoding

Init == ChunkedInit /\ lang \in {"c", "go", "rust"} /\ phase = "SIZE"
Next == Feed \/ CNext \/ GoNext \/ RustNext
Spec == Init /\ [][Next]_vars

-----------------------------------------------------------------------------
SizeLimit == IF lang = "go" THEN SIZE_MAX \div 2 ELSE SIZE_MAX

\* Every variable holds a value of the C, Go or Rust type that declares it.
ValuesOK ==
  /\ lang \in {"c", "go", "rust"}
  /\ input \in Streams
  /\ pos \in Nat /\ lim \in Nat /\ pos <= lim /\ lim <= Len(input)
  /\ rc \in {0, -1}
  /\ state \in {"incomplete", "complete", "invalid"}
  /\ body \in Seq(STRING) /\ surplus \in Seq(STRING)
  /\ phase \in {"SIZE", "SIZE_LF", "DATA", "DATA_CR", "DATA_LF", "TRAILERS"}
  /\ line \in Seq(STRING) /\ hline \in Seq(STRING)
  /\ rem \in Size
  /\ hstate \in {"incomplete", "complete", "invalid"}
FlagsOK == pendingCR \in BOOLEAN /\ hpending \in BOOLEAN
TypeOK  == ValuesOK /\ FlagsOK

\* The unsigned subtraction in the data phase never wraps: while data bytes
\* are being copied at least one is still due, no more than the largest size
\* the language admits, and outside a chunk the counter is zero again
\* (between size line and LF, Rust already holds the size).
NoUnderflow ==
  /\ state = "incomplete" /\ phase = "DATA" => rem \in 1 .. SizeLimit
  /\ phase \in {"SIZE", "DATA_CR", "DATA_LF", "TRAILERS"} => rem = 0

\* The embedded trailer parser and the decoder reach their verdicts together:
\* the "already finished" branches of feed_trailer_byte are never taken.
TrailersInStep ==
  lang # "go" =>
    /\ phase = "TRAILERS" => hstate = state
    /\ phase # "TRAILERS" => hstate = "incomplete"

\* Fragmentation independence, and the meaning of the coding: after any
\* sequence of calls, verdict, payload and surplus are those of the grammar
\* for the bytes consumed.  Go stops at the largest int, Rust lets a size
\* start with '+' and judges it one byte early, at the CR.
UnsignedPart(l) ==
  IF lang = "rust" /\ Len(l) > 1 /\ l[1] = "+" THEN Tail(l) ELSE l
SizeInLang == [l \in Seq(STRING) |-> HexSize(UnsignedPart(l), SizeLimit)]
DecodesTheCoding ==
  LET r == Decode(Consumed, SizeInLang)
      early == Decode(Append(Consumed, LF), SizeInLang)
  IN  /\ \/ state = r.state
         \/ lang = "rust" /\ state = "invalid" /\ early.state = "invalid"
      /\ body = r.body /\ surplus = r.surplus

\* Bytes behind the message are neither lost, repeated nor mixed into it: the
\* surplus starts right behind the first byte at which the grammar has the
\* message complete, in the completing call as in any later one, and nothing
\* is kept before there is such a byte.
SurplusBehindTheMessage ==
  LET end     == pos - Len(surplus)
      Upto(n) == Decode(SubSeq(input, 1, n), SizeInLang)
  IN  IF state = "complete"
      THEN /\ surplus = SubSeq(input, end + 1, pos)
           /\ Upto(end) = Finished(body, <<>>)
           /\ Upto(end - 1).state = "incomplete"
      ELSE surplus = <<>>

\* The decoder is a body decoder: the body only grows, a verdict is final.
DecodesABody == Promise!Spec

\* spec.md: "it SHALL reject malformed chunk framing", where sizes are
\* hexadecimal: a completed message must be one of the strict grammar.
StrictSize == [l \in Seq(STRING) |-> HexSize(l, SIZE_MAX)]
OnlyStrictSizes ==
  state = "complete" => Decode(Consumed, StrictSize).state = "complete"
=============================================================================
