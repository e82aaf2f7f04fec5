------------------------------ MODULE MCChunked ------------------------------
(***************************************************************************)
(* Streams for TLC: messages that reach every phase (an empty body, two    *)
(* chunks, CR LF inside chunk data, trailers, a pipelined second message,  *)
(* sizes around the limits of a 5-bit word), four of them with any one     *)
(* byte replaced.  A stream need not be delivered to its end, so every     *)
(* truncation is covered too.                                              *)
(***************************************************************************)
EXTENDS ChunkedParsers

Eol == <<CR, LF>>
ZeroChunk == <<"0">> \o Eol

Mutated ==
  { <<"1">> \o Eol \o <<"x">> \o Eol \o ZeroChunk \o Eol \o <<"y">>,
    ZeroChunk \o <<"H", ":", " ">> \o Eol \o Eol \o <<"y", "y">>,
    <<"1", "f">> \o Eol \o <<"x", "y">>,
    <<"+", "1">> \o Eol \o <<"x">> }

Verbatim ==
  { <<"2">> \o Eol \o <<CR, LF>> \o Eol \o <<"0", "1">> \o Eol \o <<"y">> \o Eol
      \o ZeroChunk \o Eol,
    ZeroChunk \o <<"h", ":">> \o Eol \o <<"A", ":", ":">> \o Eol \o Eol,
    <<"F">> \o Eol \o <<"x", "y">>, <<"1", "0">> \o Eol \o <<"x">>,
    <<"2", "0">> \o Eol \o <<"x">>, <<"1", ";">> \o Eol \o <<"x">>,
    <<"+", "1">> \o Eol \o <<"x">> \o Eol \o ZeroChunk \o Eol,
    Eol \o <<"x">> }

Replacements == {CR, LF, "0", "1", ":", " "}

Mutations(m) == {[m EXCEPT ![i] = b] : i \in DOMAIN m, b \in Replacements}
MCStreams == Verbatim \cup UNION {Mutations(m) : m \in Mutated}
=============================================================================
