----------------------------- MODULE EchoMessage -----------------------------
(***************************************************************************)
(* What a request says, as the echo servers read it.  A request is a       *)
(* sequence of tokens: a line of its head with the CR LF that ends it is   *)
(* one token, a byte of its body another.  The body parsers appear as what *)
(* they compute for all the bytes of a body so far: DecodesTheCoding and   *)
(* VerdictAsDeclared show that to be independent of how they are fed.      *)
(***************************************************************************)
EXTENDS ChunkedCoding

CONSTANTS EchoLine,        \* the line "POST /echo HTTP/1.1"
          Blank,           \* the empty line
          BareLines,       \* lines with a CR or an LF inside
          PlainFields,     \* fields the framing does not look at
          LengthFields,    \* Content-Length fields, with the value of each
          ChunkedFields,   \* "Transfer-Encoding: chunked", in any case
          TransferFields   \* all Transfer-Encoding fields

Fields == PlainFields \cup DOMAIN LengthFields \cup TransferFields

\* A field line has a colon in it and no line end; a field has one name.
ASSUME FieldAssumption ==
  /\ EchoLine # Blank /\ {EchoLine, Blank} \cap (BareLines \cup Fields) = {}
  /\ BareLines \cap Fields = {}
  /\ ChunkedFields \subseteq TransferFields /\ DOMAIN LengthFields \cap TransferFields = {}
  /\ \A f \in DOMAIN LengthFields : LengthFields[f] \in Seq(STRING)

\* The first CR LF CR LF ends the head: an empty line after another line.
HeadEnds(tokens) == {i \in 2 .. Len(tokens) : tokens[i] = Blank}
\* Mutation: the head counts only once the first byte of the body is there.
HasHeadAndMore(tokens) ==
  HeadEnds(tokens) # {} /\ Min(HeadEnds(tokens)) < Len(tokens)

HasHead(tokens) == HeadEnds(tokens) # {}
HeadOf(tokens)  == SubSeq(tokens, 1, Min(HeadEnds(tokens)))
BodyOf(tokens)  == SubSeq(tokens, Min(HeadEnds(tokens)) + 1, Len(tokens))

\* request_parser_feed, Parser.Feed and RequestParser::feed on a whole head:
\* strict line ends and a first line that is not empty.
RequestComplete(head) ==
  head[1] # Blank /\ \A i \in DOMAIN head : head[i] \notin BareLines

\* The request line names the fixed handler, and every field line parses.
EchoRequest(head)   == head[1] = EchoLine
FieldLines(head)    == SubSeq(head, 2, Len(head) - 1)
HeadersParsed(head) == ToSet(FieldLines(head)) \subseteq Fields

-----------------------------------------------------------------------------
(* Framing selection: the selected field, or Blank for a bad request.      *)

\* One turn of the loop of select_framing.
SelectStep(seen, f) ==
  IF ~seen.ok THEN seen
  ELSE IF f \in DOMAIN LengthFields THEN
    IF seen.length # Blank THEN [seen EXCEPT !.ok = FALSE]
    ELSE [seen EXCEPT !.length = f]
  ELSE IF f \in TransferFields THEN
    IF seen.transfer # Blank \/ f \notin ChunkedFields
    THEN [seen EXCEPT !.ok = FALSE]
    ELSE [seen EXCEPT !.transfer = f]
  ELSE seen

\* select_framing: gives up at the first field it does not like.
SelectFramingC(lines) ==
  LET start == [ok |-> TRUE, length |-> Blank, transfer |-> Blank]
      seen  == FoldLeft(SelectStep, start, lines)
  IN  IF ~seen.ok THEN Blank
      ELSE IF seen.transfer = Blank THEN seen.length
      ELSE IF seen.length = Blank THEN seen.transfer ELSE Blank

LengthLines(lines)   == {i \in DOMAIN lines : lines[i] \in DOMAIN LengthFields}
TransferLines(lines) == {i \in DOMAIN lines : lines[i] \in TransferFields}

\* selectRequestFraming: counts the transfer codings and keeps the last one.
SelectFramingGo(lines) ==
  LET lengths   == LengthLines(lines)
      transfers == TransferLines(lines)
  IN  IF Cardinality(lengths) > 1 \/ (lengths # {} /\ transfers # {}) THEN Blank
      ELSE IF lengths # {} THEN lines[Min(lengths)]
      ELSE IF Cardinality(transfers) = 1 /\ lines[Max(transfers)] \in ChunkedFields
      THEN lines[Max(transfers)] ELSE Blank

\* select_echo_framing: a repeated field of either kind is an error at once.
SelectFramingRust(lines) ==
  LET lengths   == LengthLines(lines)
      transfers == TransferLines(lines)
  IN  IF Cardinality(lengths) > 1 \/ Cardinality(transfers) > 1 THEN Blank
      ELSE IF lengths # {} /\ transfers = {} THEN lines[Min(lengths)]
      ELSE IF transfers # {} /\ lengths = {} /\ lines[Min(transfers)] \in ChunkedFields
      THEN lines[Min(transfers)] ELSE Blank

-----------------------------------------------------------------------------
(* The body parsers: verdict and body for the bytes behind the head.       *)

\* Mutation: complete with the last byte still missing.
DeclaredTooEarly(n, bytes) ==
  IF n = BAD THEN [state |-> "invalid", body |-> <<>>]
  ELSE [state |-> IF Len(bytes) < n - 1 THEN "incomplete" ELSE "complete",
        body  |-> SubSeq(bytes, 1, Min({n, Len(bytes)}))]

\* Mutation: a declared length of zero is taken for a missing one.
DeclaredNotZero(n, bytes) ==
  IF n = BAD \/ n = 0 THEN [state |-> "invalid", body |-> <<>>]
  ELSE [state |-> IF Len(bytes) < n THEN "incomplete" ELSE "complete",
        body  |-> SubSeq(bytes, 1, Min({n, Len(bytes)}))]

Declared(n, bytes) ==
  IF n = BAD THEN [state |-> "invalid", body |-> <<>>]
  ELSE [state |-> IF Len(bytes) < n THEN "incomplete" ELSE "complete",
        body  |-> SubSeq(bytes, 1, Min({n, Len(bytes)}))]

Decoded(r) == [state |-> r.state, body |-> r.body]

SizesC    == [l \in Seq(STRING) |-> ParseChunkSizeC(l)]
SizesGo   == [l \in Seq(STRING) |-> FinishChunkSizeGo(l)]
SizesRust == [l \in Seq(STRING) |-> ParseChunkSizeRust(l)]

BodyC(framing, bytes) ==
  IF framing \in ChunkedFields THEN Decoded(Decode(bytes, SizesC))
  ELSE Declared(ParseContentLengthC(LengthFields[framing]), bytes)

BodyGo(framing, bytes) ==
  IF framing \in ChunkedFields THEN Decoded(Decode(bytes, SizesGo))
  ELSE Declared(ParseContentLengthGo(LengthFields[framing]), bytes)

\* Rust rejects a bad chunk size at the CR of its line already: then the line
\* end makes the message malformed, and a good size would not.
BadSizeLine(bytes) ==
  LET anySize == [l \in Seq(STRING) |-> Max({0, SizesRust[l]})]
      ended   == Append(bytes, LF)
  IN  /\ Decode(ended, SizesRust).state = "invalid"
      /\ Decode(ended, anySize).state # "invalid"

BodyRust(framing, bytes) ==
  IF framing \in ChunkedFields
  THEN LET r == Decoded(Decode(bytes, SizesRust))
       IN  IF r.state = "incomplete" /\ BadSizeLine(bytes)
           THEN [r EXCEPT !.state = "invalid"] ELSE r
  ELSE Declared(ParseContentLengthRust(LengthFields[framing]), bytes)
=============================================================================
