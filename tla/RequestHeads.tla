---------------------------- MODULE RequestHeads ----------------------------
(***************************************************************************)
(* How an echo server judges the head of a request, byte by byte: the      *)
(* request head parser looks for its end and for strict line ends, then    *)
(* the first line is parsed as a request line, then the header parser runs *)
(* over the bytes behind that line.  No loop keeps a state of its own      *)
(* between two bytes, so it is of no consequence how a head is cut.        *)
(*                                                                         *)
(* A token of the input is a byte or a word whose bytes are all alike to   *)
(* these parsers.                                                          *)
(***************************************************************************)
EXTENDS HeaderParsers

CONSTANTS Streams,                        \* what clients may send
          Post, EchoPath, HttpVersion     \* "POST", "/echo", "HTTP/1.1"
ASSUME HeadAssumption ==
  /\ Streams \subseteq Seq(STRING)
  /\ {Post, EchoPath, HttpVersion} \subseteq STRING \ {CR, LF, " ", "\t"}

VARIABLES lang, input,
          part,          \* "request", "headers", "accepted" or "refused"
          pos,           \* bytes the request head parser has consumed
          rstate, sawFirstLine, lineHasBytes, pendingCR,
          hpos,          \* where the header parser is in the input
          noMemory       \* C: an allocation of the header parser failed

rvars == <<rstate, sawFirstLine, lineHasBytes, pendingCR>>
vars == <<lang, input, part, pos, rvars, hpos, noMemory, hvars>>

Init == /\ lang \in {"c", "go", "rust"} /\ input \in Streams
        /\ part = "request" /\ pos = 0 /\ hpos = 0 /\ noMemory = FALSE
        /\ rstate = "incomplete"
        /\ sawFirstLine = FALSE /\ lineHasBytes = FALSE /\ pendingCR = FALSE
        /\ HeaderInit

-----------------------------------------------------------------------------
(* The request head parser, the same loop in all three languages.          *)

\* Mutation: an empty first line is skipped, as servers used to do.
FirstLineMayBeEmpty ==
  /\ ~sawFirstLine
  /\ sawFirstLine' = lineHasBytes /\ lineHasBytes' = FALSE
  /\ UNCHANGED rstate

FirstLineOver ==
  /\ ~sawFirstLine
  /\ \/ ~lineHasBytes /\ rstate' = "invalid" /\ UNCHANGED <<sawFirstLine, lineHasBytes>>
     \/ /\ lineHasBytes
        /\ sawFirstLine' = TRUE /\ lineHasBytes' = FALSE
        /\ UNCHANGED rstate

\* Mutation: the flag of the finished line is not reset.
FieldLineOverKeepsFlag ==
  /\ sawFirstLine
  /\ \/ ~lineHasBytes /\ rstate' = "complete" /\ UNCHANGED lineHasBytes
     \/ lineHasBytes /\ UNCHANGED <<rstate, lineHasBytes>>
  /\ UNCHANGED sawFirstLine

FieldLineOver ==
  /\ sawFirstLine
  /\ \/ ~lineHasBytes /\ rstate' = "complete" /\ UNCHANGED lineHasBytes
     \/ lineHasBytes /\ lineHasBytes' = FALSE /\ UNCHANGED rstate
  /\ UNCHANGED sawFirstLine

RequestByte(b) ==
  \/ /\ pendingCR /\ b # LF
     /\ rstate' = "invalid"
     /\ UNCHANGED <<sawFirstLine, lineHasBytes, pendingCR>>
  \/ /\ pendingCR /\ b = LF
     /\ pendingCR' = FALSE
     /\ FirstLineOver \/ FieldLineOver
  \/ /\ ~pendingCR /\ b = CR
     /\ pendingCR' = TRUE
     /\ UNCHANGED <<rstate, sawFirstLine, lineHasBytes>>
  \/ /\ ~pendingCR /\ b = LF
     /\ rstate' = "invalid"
     /\ UNCHANGED <<sawFirstLine, lineHasBytes, pendingCR>>
  \/ /\ ~pendingCR /\ b \notin {CR, LF}
     /\ lineHasBytes' = TRUE
     /\ UNCHANGED <<rstate, sawFirstLine, pendingCR>>

FeedRequest ==
  /\ part = "request" /\ rstate = "incomplete" /\ pos < Len(input)
  /\ pos' = pos + 1 /\ RequestByte(input[pos + 1])
  /\ UNCHANGED <<lang, input, part, hpos, noMemory, hvars>>

-----------------------------------------------------------------------------
(* The request line: method, target and version, or {} if it has none.     *)

\* The k-th smallest of a set of places.
Nth(places, k) == CHOOSE i \in places : Cardinality({j \in places : j <= i}) = k

Spaces(line) == {i \in DOMAIN line : line[i] = " "}

\* C remembers the places of two spaces and gives up at a third.
RequestLineC(line) ==
  LET first  == Nth(Spaces(line), 1)
      second == Nth(Spaces(line), 2)
  IN  IF ToSet(line) \cap {CR, LF, "\t"} # {} \/ Cardinality(Spaces(line)) # 2 THEN {}
      ELSE IF first = 1 \/ second = first + 1 \/ second = Len(line) THEN {}
      ELSE IF SubSeq(line, second + 1, Len(line)) # <<HttpVersion>> THEN {}
      ELSE {[method |-> SubSeq(line, 1, first - 1),
             target |-> SubSeq(line, first + 1, second - 1)]}

\* Go and Rust split the line at its spaces and look at the parts.
SplitAtSpaces(line) ==
  LET cuts == {0} \cup Spaces(line) \cup {Len(line) + 1}
  IN  [i \in 1 .. Cardinality(cuts) - 1 |-> SubSeq(line, Nth(cuts, i) + 1, Nth(cuts, i + 1) - 1)]

ParseRequestLine(line) ==
  LET parts == SplitAtSpaces(line) IN
  IF /\ ToSet(line) \cap {CR, LF, "\t"} = {}
     /\ Len(parts) = 3 /\ parts[1] # <<>> /\ parts[2] # <<>>
     /\ parts[3] = <<HttpVersion>>
  THEN {[method |-> parts[1], target |-> parts[2]]} ELSE {}

RequestLine(line) == IF lang = "c" THEN RequestLineC(line) ELSE ParseRequestLine(line)

\* find_bytes(head, "\r\n"): where the first CR LF is.
FirstCrlf == {i \in 1 .. pos - 1 :
                /\ input[i] = CR /\ input[i + 1] = LF
                /\ \A j \in 1 .. i - 1 : ~(input[j] = CR /\ input[j + 1] = LF)}

EchoRequest(end) ==
  RequestLine(SubSeq(input, 1, end - 1)) = {[method |-> <<Post>>, target |-> <<EchoPath>>]}

JudgeHead ==
  /\ part = "request"
  /\ \/ rstate = "invalid" /\ part' = "refused" /\ UNCHANGED hpos
     \/ /\ rstate = "complete"
        /\ \E end \in FirstCrlf :
             \/ EchoRequest(end) /\ part' = "headers" /\ hpos' = end + 1
             \/ ~EchoRequest(end) /\ part' = "refused" /\ UNCHANGED hpos
  /\ UNCHANGED <<lang, input, pos, rvars, noMemory, hvars>>

-----------------------------------------------------------------------------
(* The header parser runs up to the end the request head parser found.     *)

HeaderFeed(b) == \/ lang = "c"    /\ HeaderFeedC(b)
                 \/ lang = "go"   /\ HeaderFeedGo(b)
                 \/ lang = "rust" /\ HeaderFeedRust(b)

FeedHeaders ==
  /\ part = "headers" /\ hstate = "incomplete" /\ hpos < pos
  /\ hpos' = hpos + 1 /\ HeaderFeed(input[hpos + 1])
  /\ UNCHANGED <<lang, input, part, pos, rvars, noMemory>>

\* header_parser_feed returns -1, which the server answers like a bad head.
CNoMemory ==
  /\ part = "headers" /\ hstate = "incomplete" /\ hpos < pos
  /\ lang = "c" /\ HeaderNoMemoryC(input[hpos + 1])
  /\ part' = "refused" /\ noMemory' = TRUE
  /\ UNCHANGED <<lang, input, pos, rvars, hpos>>

JudgeHeaders ==
  /\ part = "headers" /\ (hstate # "incomplete" \/ hpos = pos)
  /\ part' = IF hstate = "complete" THEN "accepted" ELSE "refused"
  /\ UNCHANGED <<lang, input, pos, rvars, hpos, noMemory, hvars>>

Next == FeedRequest \/ JudgeHead \/ FeedHeaders \/ CNoMemory \/ JudgeHeaders

Spec == Init /\ [][Next]_vars

-----------------------------------------------------------------------------
\* Every variable holds a value of the type the code gives it; a collected
\* line never contains a line end, and names are in lower case.
Verdict == {"incomplete", "complete", "invalid"}
HeaderField == [name : Seq(STRING \ ToSet(Upper)), value : Seq(STRING)]
TypeOK ==
  /\ lang \in {"c", "go", "rust"} /\ input \in Streams
  /\ part \in {"request", "headers", "accepted", "refused"}
  /\ pos \in 0 .. Len(input) /\ hpos \in 0 .. pos
  /\ rstate \in Verdict /\ hstate \in Verdict
  /\ {sawFirstLine, lineHasBytes, pendingCR, hpending, noMemory} \subseteq BOOLEAN
  /\ hline \in Seq(STRING \ {CR, LF}) /\ fields \in Seq(HeaderField)

\* The contract of spec.md, Milestone 3, about the first n bytes: is there a
\* line end that is not CR LF, is the first line empty, does CR LF CR LF end it.
LooseEnd(n) ==
  \E i \in 1 .. n : \/ input[i] = LF /\ (i = 1 \/ input[i - 1] # CR)
                    \/ i < n /\ input[i] = CR /\ input[i + 1] # LF
NoFirstLine(n) == n >= 2 /\ input[1] = CR /\ input[2] = LF
HeadEndsAt(n) == /\ n >= 4
                 /\ input[n - 3] = CR /\ input[n - 2] = LF
                 /\ input[n - 1] = CR /\ input[n] = LF

\* After every byte the request head parser's verdict is the contract's.
DecidesTheHead ==
  rstate = IF LooseEnd(pos) \/ NoFirstLine(pos) THEN "invalid"
           ELSE IF HeadEndsAt(pos) THEN "complete" ELSE "incomplete"

\* Three parts of the code look for the end of the head on their own, and they
\* agree: the request head parser completes at the first CR LF CR LF, which is
\* where find_bytes lets it run to and never further, and the header parser
\* has its verdict when it gets there, not before it unless it is invalid.
EndsTogether ==
  /\ rstate = "complete" => HeadEndsAt(pos)
  /\ \A n \in 4 .. pos : HeadEndsAt(n) => n = pos /\ rstate # "incomplete"
  /\ hstate = "complete" => hpos = pos
  /\ part # "request" /\ hpos = pos => hstate # "incomplete"

\* A field line as spec.md, Milestone 5, has it: c is the place of its colon,
\* and f the field, lowered and trimmed, it then stands for.
ColonAt(line, c) ==
  c > 1 /\ line[c] = ":" /\ \A i \in 1 .. c - 1 : line[i] \notin Control \cup {":"}
IsFieldOf(line, f) ==
  \E c \in DOMAIN line : \E a, b \in c + 1 .. Len(line) + 1 :
    /\ ColonAt(line, c)
    /\ f.name = [i \in 1 .. c - 1 |-> AsciiLower(line[i])]
    /\ f.value = SubSeq(line, a, b - 1)
    /\ \A i \in c + 1 .. Len(line) : i < a \/ i >= b => line[i] \in OptionalWhitespace
    /\ a < b => {line[a], line[b - 1]} \cap OptionalWhitespace = {}

\* Where the lines of the head start, and what stands in them.
Ends == {i \in 1 .. pos : input[i] = LF}
LineAt(k) == SubSeq(input, IF k = 1 THEN 1 ELSE Nth(Ends, k - 1) + 1, Nth(Ends, k) - 2)
EchoLine == <<Post, " ", EchoPath, " ", HttpVersion>>

\* A head is accepted exactly if it is one of POST /echo HTTP/1.1 whose field
\* lines are all well formed, and then the fields are theirs, in their order.
JudgesTheHead ==
  /\ part = "accepted" =>
       /\ LineAt(1) = EchoLine
       /\ Len(fields) = Cardinality(Ends) - 2
       /\ \A k \in DOMAIN fields : IsFieldOf(LineAt(k + 1), fields[k])
  /\ part = "refused" /\ rstate = "complete" /\ ~noMemory =>
       \/ LineAt(1) # EchoLine
       \/ LET line == LineAt(Len(fields) + 2)
          IN  \A c \in DOMAIN line : ~ColonAt(line, c)
=============================================================================
