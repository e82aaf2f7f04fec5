----------------------------- MODULE EchoServers -----------------------------
(***************************************************************************)
(* The three echo servers, each with one client, and what they promise.    *)
(***************************************************************************)
EXTENDS EchoServerC, EchoServerGo, EchoServerRust

Exchange == INSTANCE EchoExchange

Init == EchoInit
ServerNext == CNext \/ GoNext \/ RustNext
Client(Step) == Step /\ UNCHANGED program
Next == Client(ClientNext) \/ ServerNext
Spec == Init /\ [][Next]_vars

\* The scheduler runs the server, the client's program runs on, and TCP
\* delivers: but nothing promises that a reset leaves the response readable.
Fairness == /\ WF_vars(ServerNext)
            /\ WF_vars(Client(ClientSends)) /\ WF_vars(Client(ClientCloses))
            /\ WF_vars(Client(ClientReads /\ serverEnd # "rst"))
            /\ WF_vars(Client(ClientAborts))
FairSpec == Spec /\ Fairness

-----------------------------------------------------------------------------
\* Every variable holds a value of the type the code gives it.
TypeOK ==
  /\ request \in Requests /\ ending \in Endings
  /\ sent \in 0 .. Len(request) /\ read \in 0 .. sent
  /\ written \in 0 .. ResponseSize /\ got \in 0 .. written
  /\ clientEnd \in {"open", "fin", "gone", "rst"}
  /\ serverEnd \in {"open", "fin", "rst"}
  /\ response = NoResponse \/ response \in [status : {200, 400}, body : Seq(STRING)]
  /\ lang \in {"c", "go", "rust"}
  /\ pc \in {"accept", "head", "body", "write", "close", "report", "done"}
  /\ framing \in {Blank} \cup DOMAIN LengthFields \cup ChunkedFields
  /\ result \in {"none", "ok", "error"}
  /\ reported \in {"none", "ok", "error", "killed"}
  /\ channel \in Seq(STRING)
  /\ listening \in BOOLEAN /\ fault \in BOOLEAN

-----------------------------------------------------------------------------
(* The contract of spec.md, Milestone 9, about a sequence of tokens: is it *)
(* one POST /echo request framed in exactly one way, and of what body.     *)
(* Numbers are those of the language l: Go stops at the largest int, Rust  *)
(* lets a chunk size start with "+" (OnlyStrictSizes of ChunkedParsers).   *)

Limit(l) == IF l = "go" THEN SIZE_MAX \div 2 ELSE SIZE_MAX
UnsignedPart(l, line) ==
  IF l = "rust" /\ Len(line) > 1 /\ line[1] = "+" THEN Tail(line) ELSE line
ChunkSize(l) == [line \in Seq(STRING) |-> HexSize(UnsignedPart(l, line), Limit(l))]
GoodHead(head) ==
  LET lines    == FieldLines(head)
      selected == {i \in DOMAIN lines :
                     lines[i] \in DOMAIN LengthFields \cup TransferFields}
  IN  /\ head[1] = EchoLine
      /\ \A i \in DOMAIN lines : lines[i] \in Fields
      /\ Cardinality(selected) = 1
      /\ \A i \in selected : lines[i] \in DOMAIN LengthFields \cup ChunkedFields

Counted(bytes, n) ==
  IF Len(bytes) < n THEN Open(bytes)
  ELSE Finished(SubSeq(bytes, 1, n), SubSeq(bytes, n + 1, Len(bytes)))
Framed(l, field, bytes) ==
  IF field \in ChunkedFields THEN Decode(bytes, ChunkSize(l))
  ELSE LET value == LengthFields[field] IN
       IF AllIn(value, DecDigit) /\ Number(value, 10) <= Limit(l)
       THEN Counted(bytes, Number(value, 10)) ELSE Malformed(<<>>)

\* The head is everything up to the first empty line that follows another line.
EmptyLines(tokens) == {i \in 2 .. Len(tokens) : tokens[i] = Blank}
MessageIn(l, tokens) ==
  IF EmptyLines(tokens) = {} THEN Open(<<>>)
  ELSE LET n    == Min(EmptyLines(tokens))
           head == SubSeq(tokens, 1, n)
       IN  IF GoodHead(head)
           THEN Framed(l, CHOOSE f \in ToSet(head) : f \in DOMAIN LengthFields \cup ChunkedFields,
                       SubSeq(tokens, n + 1, Len(tokens)))
           ELSE Malformed(<<>>)
Message(tokens) == MessageIn(lang, tokens)

-----------------------------------------------------------------------------
\* A 200 carries exactly the body of a request that arrived in full.  The C
\* server has two other ways to say 200, always with an empty body: a chunked
\* request cut short by the client, and no memory for a body parser.
CSaysOkAnyway == /\ lang = "c" /\ response.body = <<>>
                 /\ fault \/ (framing \in ChunkedFields /\ clientEnd # "open")
EchoesTheBody ==
  response.status = 200 =>
    \/ CSaysOkAnyway
    \/ /\ Message(Received).state = "complete"
       /\ response.body = Message(Received).body

\* A 400 is for a request that is malformed, or is at the line feed its last
\* CR calls for, or that the client has ended too early: never for one that
\* was, or could still become, a good one.  Lack of memory excuses C.
RejectsOnlyTheBad ==
  response.status = 400 =>
    \/ Message(Received).state = "invalid"
    \/ lang = "rust" /\ Message(Append(Received, LF)).state = "invalid"
    \/ Message(request).state = "incomplete" /\ clientEnd # "open"
    \/ clientEnd = "rst"
    \/ lang = "c" /\ fault

\* When the caller is told that serving is over, the listener is closed and,
\* in C and Rust, so is the connection; in Go, Received already holds every
\* byte read.  Where accepting failed C leaves its listener to the caller.
ReportsWhenReleased ==
  reported # "none" =>
    \/ fault /\ read = 0 /\ lang # "rust"
    \/ /\ ~listening
       /\ lang # "go" => serverEnd # "open"
       /\ lang = "go" => channel = Received

\* Each connection is one exchange: a single response in order, a single end,
\* and "ok" only for a response handed over to its last byte.
ServesOneExchange == Exchange!Spec

\* A client that sends one complete request gets its whole echo, even if it
\* holds its own side open, unless an allocation or the accept failed.
Good == /\ ending \in {"wait", "fin"}
        /\ Message(request).state = "complete" /\ Message(request).surplus = <<>>
Echoed == /\ response = [status |-> 200, body |-> Message(request).body]
          /\ got = ResponseSize /\ serverEnd = "fin"
GoodRequestsAreEchoed == Good ~> (Echoed \/ fault)

\* The server finishes with every client that aborts, and with every client
\* that leaves or has sent enough to be judged, as long as the kernels can take
\* either what it sends on behind its request or the whole response.  No
\* timeout protects the server from the others.
Fits == LET m == Message(request)
        IN  Len(m.surplus) <= BUFFER \/ 1 + Len(m.body) <= BUFFER
FinishesWhenItCan ==
  (ending = "rst" \/ ((ending # "wait" \/ Message(request).state # "incomplete") /\ Fits))
    ~> (pc = "done")

\* Server and client can wait for each other in two ways only: the client has
\* sent part of a request and holds its side open, or it goes on sending behind
\* its request before it reads, while the response is too long for its window
\* and nobody reads what it sends.
ClientHoldsBack == /\ pc \in {"head", "body"} /\ read = Len(request) /\ ending = "wait"
                   /\ Message(request).state = "incomplete"
WindowsFull     == /\ pc = "write" /\ written = got + BUFFER /\ written < ResponseSize
                   /\ sent = read + BUFFER /\ sent < Len(request)
                   /\ Message(Received).state = "complete"
StuckOnlyAsNamed ==
  pc # "done" /\ ~ENABLED Next => ClientHoldsBack \/ WindowsFull

-----------------------------------------------------------------------------
(* What the documents say and the code does not do.                        *)

\* http_echo_server.h: "write either its binary echo or a 400", and spec.md:
\* "malformed framing ... SHALL result in 400 Bad Request".
OkOnlyForAnEcho ==
  response.status = 200 /\ ~fault => Message(Received).state = "complete"

\* The same sentence: a client whose bytes have arrived, and that half-closes
\* to read the answer, gets one.
EveryClientIsAnswered ==
  reported # "none" /\ ~fault /\ ending = "fin" /\ Received # <<>> => response # NoResponse

\* spec.md: "the server returns 400 Bad Request, closes the connection".
MalformedRequest == ending \in {"wait", "fin"} /\ Message(request).state = "invalid"
RefusedInFull == response.status = 400 /\ got = ResponseSize
MalformedRequestsAreRefused == MalformedRequest ~> (RefusedInFull \/ fault)
=============================================================================
