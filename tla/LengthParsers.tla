---------------------------- MODULE LengthParsers ----------------------------
(***************************************************************************)
(* The Content-Length body parsers: c/body_parser.c,                       *)
(* go/internal/httprequest/body.go and rust/src/body.rs.  A feed call has  *)
(* no loop, so a call is one action; the stream is cut into calls at       *)
(* arbitrary places.                                                       *)
(***************************************************************************)
EXTENDS Octets

CONSTANTS Streams,     \* the byte streams that may follow a request head
          Values       \* the Content-Length values a request may declare
ASSUME InputAssumption == /\ Streams \subseteq Seq(STRING)
                          /\ Values \subseteq Seq(STRING)

VARIABLES lang,        \* whose parser runs: "c", "go" or "rust"
          value,       \* {} for an absent header, else {its value}
          input, pos,  \* the stream, and how much of it calls have taken
          rc,          \* C only: -1 once a call has failed to allocate
          state, body, surplus, expected

vars == <<lang, value, input, pos, rc, state, body, surplus, expected>>

Promise == INSTANCE BodyDecoding

\* body_parser_init, NewBodyParser and BodyParser::new differ in the parse.
ParseC    == {ParseContentLengthC(v) : v \in value}
ParseGo   == {ParseContentLengthGo(v) : v \in value}
ParseRust == {ParseContentLengthRust(v) : v \in value}

\* Mutation: a number that did not parse is stored like any other.
InitUnchecked(parsed, limit) ==
  \/ parsed = {} /\ state = "complete" /\ expected = 0
  \/ \E n \in parsed :
       expected = n /\ state = IF n = 0 THEN "complete" ELSE "incomplete"

InitParser(parsed, limit) ==
  \/ parsed = {} /\ state = "complete" /\ expected = 0
  \/ \E n \in parsed :
       IF n \in limit
       THEN expected = n /\ state = IF n = 0 THEN "complete" ELSE "incomplete"
       ELSE expected = 0 /\ state = "invalid"

InitC    == lang = "c"    /\ InitParser(ParseC, Size)
InitGo   == lang = "go"   /\ InitParser(ParseGo, GoInt)
InitRust == lang = "rust" /\ InitParser(ParseRust, Size)

Init == /\ input \in Streams /\ pos = 0 /\ rc = 0
        /\ value \in {{}} \cup {{v} : v \in Values}
        /\ body = <<>> /\ surplus = <<>>
        /\ InitC \/ InitGo \/ InitRust

-----------------------------------------------------------------------------
NeededFromStart == expected   \* Mutation: the bytes already there are forgotten.

Bytes(from, to) == SubSeq(input, pos + from, pos + to)
Calls  == 0 .. Len(input) - pos
Needed == expected - Len(body)
Same   == UNCHANGED <<lang, value, input, expected>>

\* Mutation: the surplus starts at the beginning of the buffer.
SplitKeepsBuffer(k, taken) ==
  /\ body' = body \o Bytes(1, taken)
  /\ surplus' = surplus \o Bytes(1, k)
  /\ state' = IF Len(body') = expected THEN "complete" ELSE "incomplete"

\* The call takes its first `taken` bytes for the body and keeps the others.
Split(k, taken) ==
  /\ body' = body \o Bytes(1, taken)
  /\ surplus' = surplus \o Bytes(taken + 1, k)
  /\ state' = IF Len(body') = expected THEN "complete" ELSE "incomplete"

\* Mutation: a call overwrites what earlier calls kept.
KeepLast(k) ==
  /\ surplus' = Bytes(1, k)
  /\ UNCHANGED <<state, body>>

KeepAll(k) ==
  /\ surplus' = surplus \o Bytes(1, k)
  /\ UNCHANGED <<state, body>>

FeedC(k) ==
  /\ lang = "c" /\ rc = 0
  /\ \/ state # "incomplete" /\ KeepAll(k)
     \/ state = "incomplete" /\ Split(k, IF k < Needed THEN k ELSE Needed)
  /\ pos' = pos + k
  /\ UNCHANGED rc /\ Same

FeedGo(k) ==
  /\ lang = "go"
  /\ \/ state \in {"invalid", "complete"} /\ KeepAll(k)
     \/ state = "incomplete" /\ Split(k, IF k > Needed THEN Needed ELSE k)
  /\ pos' = pos + k
  /\ UNCHANGED rc /\ Same

\* Rust keeps the rest of the buffer only when it has completed the body.
FeedRust(k) ==
  /\ lang = "rust"
  /\ \/ state \in {"invalid", "complete"} /\ KeepAll(k)
     \/ /\ state = "incomplete"
        /\ LET consumed == Min({Needed, k}) IN
           /\ body' = body \o Bytes(1, consumed)
           /\ \/ /\ Len(body') = expected
                 /\ state' = "complete"
                 /\ surplus' = surplus \o Bytes(consumed + 1, k)
              \/ /\ Len(body') # expected
                 /\ UNCHANGED <<state, surplus>>
  /\ pos' = pos + k
  /\ UNCHANGED rc /\ Same

\* Mutation: the second append failing leaves the bytes behind the body in it.
NoMemoryCGrows(k) ==
  /\ lang = "c" /\ rc = 0 /\ k > 0
  /\ rc' = -1
  /\ \/ UNCHANGED body
     \/ /\ state = "incomplete" /\ Needed < k
        /\ body' = body \o Bytes(1, k)
  /\ UNCHANGED <<pos, state, surplus>> /\ Same

\* An append of the C parser fails and the call returns -1: the first append
\* leaves everything as it was; the second one comes after the body has
\* already grown, and skips the update of the state.
NoMemoryC(k) ==
  /\ lang = "c" /\ rc = 0 /\ k > 0
  /\ rc' = -1
  /\ \/ UNCHANGED body
     \/ /\ state = "incomplete" /\ Needed < k
        /\ body' = body \o Bytes(1, Needed)
  /\ UNCHANGED <<pos, state, surplus>> /\ Same

Next == \E k \in Calls : FeedC(k) \/ FeedGo(k) \/ FeedRust(k) \/ NoMemoryC(k)
Spec == Init /\ [][Next]_vars

-----------------------------------------------------------------------------
\* Every variable holds a value of the type that declares it.
TypeOK ==
  /\ lang \in {"c", "go", "rust"}
  /\ rc = 0 \/ (rc = -1 /\ lang = "c")
  /\ input \in Streams /\ pos \in 0 .. Len(input)
  /\ state \in {"incomplete", "complete", "invalid"}
  /\ body \in Seq(STRING) /\ surplus \in Seq(STRING)
  /\ expected \in Size

\* The subtraction that says how much is missing never wraps, even after a
\* failed allocation left the body full and the state incomplete.
NeverBeyondTheBody ==
  /\ Len(body) <= expected
  /\ state = "incomplete" /\ rc = 0 => Len(body) < expected

\* However the stream was cut, body and surplus are the bytes handed in, in
\* order, cut where the declared length says.  A call of the C parser that
\* fails takes nothing, or exactly the bytes the body lacked: these are then
\* kept once, and what followed them in that call is lost.
Kept == Len(body) + Len(surplus)
SplitExact ==
  /\ body \o surplus = SubSeq(input, 1, Kept)
  /\ state = "incomplete" => surplus = <<>>
  /\ state = "complete" => Len(body) = expected
  /\ \/ Kept = pos
     \/ rc = -1 /\ Kept > pos /\ state = "incomplete" /\ Len(body) = expected

\* The verdict is that of the declared number: absent or zero needs no byte,
\* text that is no number of the language's range is rejected from the start,
\* and any other is complete as soon as that many bytes were handed in.
Limit == IF lang = "go" THEN SIZE_MAX \div 2 ELSE SIZE_MAX
Declared(n) ==
  /\ state = IF pos < n THEN "incomplete" ELSE "complete"
  /\ Len(body) = Min({pos, n})
VerdictAsDeclared ==
  rc = 0 =>
    IF value = {} THEN Declared(0)
    ELSE \A v \in value :
           IF AllIn(v, DecDigit) /\ Number(v, 10) <= Limit
           THEN Declared(Number(v, 10))
           ELSE state = "invalid" /\ body = <<>>

\* The parser is a body decoder: the body only grows, a verdict is final.
DecodesABody == Promise!Spec
=============================================================================
