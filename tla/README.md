# A TLA+ model of the three raw HTTP servers

The repository builds the same small HTTP/1.1 server three times, in C (`src/c`),
Go (`src/go`) and Rust (`src/rust`), from the TCP byte stream up. This directory
holds a TLA+ model of it: the line readers, the parsers of the head and the body
decoders, byte by byte, and the servers that compose these layers, step by step,
for each of the three languages side by side. TLC checks small instances; TLAPS
proves every safety property the runs check but one (see 4), and every refinement,
for all values of the constants.

## 1. The system

| Component | State it keeps | Operations | What makes it correct |
|---|---|---|---|
| Chunked decoder (`chunked_parser.c`, `chunked.go`, `chunked.rs`) | phase, size line, bytes of the chunk still due, body, surplus, an embedded trailer parser, verdict | `new`, `feed` | same message for every cut into calls; the unsigned counter never wraps; no byte lost at the end of the message; verdict of decoder and trailer parser agree |
| Content-Length body parser (`body_parser.c`, `body.go`, `body.rs`) | declared length, body, surplus, verdict | `init`, `feed` | overflow is rejected; takes exactly the declared bytes; keeps all others in order |
| Header parser (`header_parser.c`, `header.go`, `header.rs`) | line, pending CR, fields, verdict | `init`, `feed` | strict CR LF, names lowered, values trimmed, order kept |
| Request head parser (`request_parser.c`, `request.go`, `request.rs`) | four flags | `init`, `feed` | finds the end of the head, rejects bare CR and LF |
| Request line (`request_line.c`, ...) | none | `parse` | three fields, one space between |
| Line reader (`line_reader.c`, ...), used by no server | pending bytes | `feed` | every complete line once, in order, none held back; in C also when the callback refuses a line or memory runs out |
| Response (`http_response.c`, `response.go`, `response.rs`) | none | `build`/`Bytes`, `Write` | whole response written despite partial writes |
| Echo server (`http_echo_server.c`, `serveEchoOnce`, `serve_echo_once`) | listener, connection, bytes read, parsers, response, result; channels in Go and Rust | one call, or one goroutine or thread, that serves one connection | a 200 echoes the body of a complete request; a 400 is for bad ones; good requests are answered without end of stream; resources released before completion is reported |
| One-shot servers (`tcp_server.c`, `StartOnce`, `StartResponseOnce`, `start_once`, `start_response_once`) | listener, connection, bytes read | open, accept, read, answer, close, report | "ok" only for a whole request; resources released before completion is reported; a client that waits is answered |

How they interact. The echo server reads from the connection into a buffer until
the buffer holds CR LF CR LF; it then runs request head parser, request line
parser and header parser once over the head, selects one framing from the
fields, and feeds the bytes behind the head, then every further read, to the
body parser selected. A chunked decoder contains a header parser for its
trailers. There is no shared memory between connections: a server serves one
connection and stops. Concurrency is between the server's program, the client's
program and the two kernels' socket buffers and, in Go and Rust, between the
serving goroutine or thread and the caller that waits on its channels.

What is hard: fragmentation (any read may return any prefix), partial writes, a
client that half-closes, leaves or resets at any step, the reset that closing a
socket with unread bytes causes, allocation failures between two updates (C),
arithmetic at the limit of the word in three number parsers per language, and
the order in which resources are released and completion is reported.
`PROJECT.json` lists these hazards at their lines with the properties that
cover them.

## 2. The modules

| Module | Models |
|---|---|
| `LineStream` | abstract: a stream cut at its CR LF pairs |
| `LineReaders` | the three line readers; their properties |
| `Octets` | bytes, the word size, chunk sizes and Content-Length values as each language parses them |
| `HeaderParsers` | header parser, one byte per step; field-line syntax of each language |
| `RequestHeads` | request head parser, request line and header parser run over a head; their properties |
| `ChunkedState`, `ChunkedC`, `ChunkedGo`, `ChunkedRust` | the decoder's state; its loop in each language, one iteration per action |
| `ChunkedCoding` | the coding as a grammar over whole byte sequences: the reference |
| `BodyDecoding` | abstract: what a body decoder promises its caller |
| `ChunkedParsers` | the three decoders together; their properties |
| `LengthParsers` | the three Content-Length parsers; their properties |
| `EchoMessage` | what head, fields, framing and body of a request mean to each server |
| `Connection` | one TCP connection: the client's program and the socket buffers |
| `EchoState`, `EchoServerC`, `EchoServerGo`, `EchoServerRust` | the program of each echo server |
| `EchoExchange` | abstract: what a client that is answered may rely on |
| `EchoServers` | the three servers with a client; their properties |
| `OneShotServers` | the servers that only receive and those with a fixed response, in three languages; their properties |
| `StreamLemmas`, `CodingLemmas` | lemmas: windows of a stream, induction and folds; numbers and the grammar of the coding |
| `LineProofs`, `HeadProofs`, `ChunkedProofs`, `LengthProofs`, `EchoProofs`, `OnceProofs` | proofs about the components |
| `MCLines`, `MCHeads`, `MCChunked`, `MCLength`, `MCEcho`, `MCOnce` | instances for TLC |

The variable `lang` says whose code runs; it never changes, so one
specification holds three independent state machines with common properties.

**Line readers.** `Feed` takes over a piece, possibly an empty one; an iteration
that finds a line is `CEmit`, `GoTake` or `RustTake`, and `Return` ends the call.
C delivers each line at once and may fail before a call takes its piece
(`CNoMemory`) or in the callback (`CEmit(FALSE)`), both with -1; Go and Rust
return all lines at the end, and Rust keeps an offset (`consumed`) until then.
C's search is modelled as it is written: `index` walks through the buffer, `CScan`
is an iteration that finds no CR LF, `Further` the loop's condition, and a byte
behind the length (`Sees`) may be anything. Go and Rust call a library's search
for the first CR LF, which is an operator.

**Heads.** A state is the struct of the request head parser and that of the header
parser. `FeedRequest` is an iteration of the first loop (the three languages have
the same one), `JudgeHead` what the server does with its verdict (find the first
CR LF, parse the request line, start the header parser behind it), `FeedHeaders`
an iteration of the header parser, `JudgeHeaders` the use of its verdict. A word
of a head is one token where its bytes are all alike to these parsers.

**Decoders.** A state is the struct of the parser plus the caller's view: `input`
is the stream, the current `feed` call was given the bytes up to `lim`, and its
loop has consumed `pos`. `Feed` starts a call with any number of further bytes;
every other action is one iteration, the `case` of the `switch` or `match` on the
phase. C and Go parse the size at the LF, Rust at the CR; Go collects size and
trailer lines in one buffer and stores the rest of a call at once, the others
byte by byte; C can run out of memory in any iteration (`CNoMemory`), after
which its caller does not go on. `pendingCR` and `line` are Go's collector; in
C and Rust `hline`, `hpending` and `fields` are those of the embedded header
parser. `rem` is `chunk_remaining`; C and Rust subtract modulo `SIZE_MAX + 1`.

**Content-Length.** A call has no loop, so a call is one action. Its three
failure points in C (first append, second append, in state complete or invalid)
are in `NoMemoryC`.

**Echo servers.** An action is one system call with what the code does before the
next one: a `read` and its three outcomes, the judgement of a complete head, a
`write`. `pc` is the place in the function: `accept`, `head`, `body`, `write`,
`close`, `report` (the send on the channel), `done`. In C the jumps to `done`,
`response_headers`, `response_body` and `response` are the different outcomes of
`CReadHead`, `CReadBody` and `CNoMemoryHead`. A request is a sequence of tokens:
a head line with its CR LF is one token, a body byte another. A read may end
between any two tokens; a cut inside a head line changes nothing, because the
head is parsed only when complete. The parsers appear as functions of the bytes
so far (`BodyC`, `BodyGo`, `BodyRust`): the runs `chunked` and `length` show that
the result does not depend on the cuts.

**One-shot servers.** The variable `mode` says which of the two services runs;
`taken` is what the caller was handed, through the out-parameters in C and the
channel `Received` in Go and Rust. `pc` goes from `open` to `done` as in the echo
servers. C reads to the end of the stream in both services, Go and Rust respond
after a single read. `CReadError` is the short-circuit of `tcp_server_accept_once`
that skips `close(client)`.

**TCP** (`Connection`) is external, and is modelled by what the code relies on:
each direction holds at most `BUFFER` unread tokens; `read` returns any non-empty
prefix of what is there, end of stream after a half-close or close, an error after
a reset; `write` takes any non-empty prefix that fits, or fails once the peer is
gone; closing with unread bytes, or sending to a closed socket, resets the
connection, and after a reset it is open whether what was sent can still be read.

## 3. Checks

| Run | Shows |
|---|---|
| `lines` | `DeliversTheLines`: refinement of `LineStream`, through refused lines and failed allocations. `NothingHeldBack`: after a call that succeeds, as many lines have been delivered as there are CR LF pairs in all bytes accepted |
| `heads` | `DecidesTheHead`: after every byte the verdict the contract gives the bytes so far. `EndsTogether`: the server's search, the head parser and the header parser find the same end. `JudgesTheHead`: exactly the heads with the echo request line and well-formed field lines are accepted, with the fields of those lines |
| `chunked` | `DecodesTheCoding`: after any calls, verdict, body and surplus are those of the grammar. `NoUnderflow`: the counter is positive in the data phase and zero outside. `SurplusBehindTheMessage`: what is kept starts right behind the byte that completes the message. `TrailersInStep`, and refinement of `BodyDecoding` (`DecodesABody`) |
| `length` | `VerdictAsDeclared`: the verdict is that of the declared number. `SplitExact`: body and surplus are the bytes handed in, and a call that fails has taken nothing or just filled the body. `NeverBeyondTheBody`, `DecodesABody` |
| `echo` | `EchoesTheBody`: a 200 carries the body of a complete request (and the two exceptions of C, named). `RejectsOnlyTheBad`: no good request is refused. `ReportsWhenReleased`: order of release and report. `ServesOneExchange`: refinement of `EchoExchange`. `StuckOnlyAsNamed`: the two ways in which server and client can wait for each other for ever. `GoodRequestsAreEchoed` and `FinishesWhenItCan`: liveness |
| `once` | `OkMeansReceived`: "ok" means the whole request (or what the single read returned) and the caller holds it, and that Go's two channels agree. `ReportsWhenReleased`. `AnswersInOneExchange`: refinement of `EchoExchange`. `ResponsesAreDelivered` and `FinishesWhenItCan`: liveness |
| `once_leak` | violation: `tcp_server_accept_once` leaks the connection it failed to read |
| `once_waiting` | violation: `tcp_server_respond_once` never answers a client that waits with its side open |
| `strict_sizes` | violation: Rust accepts the chunk size `+1` |
| `echo_ok` | violation: C answers 200 to a truncated chunked request |
| `echo_answered` | violation: C answers nothing to a client that half-closes after part of a head |
| `echo_refused` | violation: a 400 can be lost to the reset that closing causes |

Bounds, and why they are enough.

- `SIZE_MAX = 31`, a word of five bits. The number parsers compare with the limit
  before multiplying; 31 makes every two-digit hexadecimal size from `20` and
  every decimal from `32` an overflow, in the multiplication (`40`) and in the
  addition (`32`), and puts Go's signed limit, 15, between `F` and `10`. In the
  code sizes of 2^63 and above play the part of 16 to 31.
- `chunked`: twelve messages, four with any one byte replaced by CR, LF, a digit,
  a colon or a space. They reach every phase and every branch that rejects, two
  chunks, chunk data made of CR LF, trailers, bytes behind the message. Calls are
  of any length, and a stream need not be delivered to its end, so every
  truncation and every cut is covered.
- `length`: sixteen values and an absent header, four streams up to six bytes.
- `echo`: the two good requests cut at every token; heads bad in each way the
  servers look for (both framings in either order, repeated fields of either kind, foreign
  codings, no framing, bad line, bad field, bare LF, another method, an empty
  first line); bad, oversized and missing bodies; a chunk size with a sign; behind
  a message, one, two and three tokens. `BUFFER = 2` makes most writes partial and the
  client wait for window: three tokens are more than a window takes, so with a response
  of three tokens both sides can be blocked, and with a shorter one they are not.
- `lines`: every stream of up to six bytes over CR, LF and one other, any cuts,
  any number of failures.
- `heads`: a good head with two fields, one of them with a colon and blanks in its
  value, and every head one change away from it: any byte replaced by, or followed
  by, one of the eight the parsers tell apart, or left out. Every short stream over
  CR, LF and another byte, for the line ends alone.
- `once`: requests of none, one and three segments, `BUFFER = 2`, a C response
  that fits the buffer and one that does not. The basic response of Go and Rust
  fits (`OneShotAssumption`): it has about a hundred bytes.
- One byte of a response head is as good as many: the head counts as one token.

Runs end when a stream or a connection has ended, hence `CHECK_DEADLOCK FALSE`;
only a line reader can always be called again.

Fairness (`FairSpec`, used by the liveness properties): weak fairness of the
server's next step (a blocked `read` or `write` that can proceed does), and of
the client's sending, closing, aborting and, unless the connection was reset,
reading: a client that waits for its response reads it. Nothing makes a
client with ending `wait` close. A client sends all it wants to send before it
reads. The servers have no timeout, so two kinds of client can hold them for
ever, and `StuckOnlyAsNamed` says that there is no third:

- `ClientHoldsBack`: it has sent part of a request and keeps its side open;
- `WindowsFull`: it sends on behind its request while the response is longer than
  its window. No server reads behind a complete message, so the client waits for the
  server to read, and the server for the client. `write_all` (`http_echo_server.c:52`)
  and its counterparts in Go and Rust have no way out of this.

`FinishesWhenItCan` of the run `echo` is conditional on neither being possible: the
client aborts, or it leaves or sends enough to be judged and, in addition, either
its surplus or the whole response fits the window (`Fits`). In `once` it leaves out
the client that stays connected to a server that reads to the end, or sends
nothing. `ResponsesAreDelivered` asks C's client to half-close, and Go's and Rust's
to send something; it names the one way in which their response may be lost: the
single read took part of the request, and closing with the rest unread resets
the connection (`LostToReset`).

Each property has a mutation of the modelled code in `PROJECT.json` under which
TLC finds it violated; the operators are marked `Mutation` in the modules and
belong to no specification.

## 4. Proofs

The theorems hold for all values of the constants that satisfy these assumptions:

- `SizeMaxAssumption`: `SIZE_MAX >= 15`, so a hexadecimal digit fits the word.
- `StreamsAssumption`, `InputAssumption`, `ConnectionAssumption`: streams and requests
  are sequences of tokens, and `BUFFER >= 1`.
- `HeadAssumption`: the words of the echo request line are no separators.
- `FieldAssumption`: the classes of head lines do not overlap (the request line, the
  empty line, fields, lines with a bare CR or LF), nor do the two kinds of framing
  fields; chunked is a transfer coding; a length has a value.
- `OneShotAssumption`: bodies are sequences of tokens, and the fixed response of the
  Go and Rust one-shot servers is shorter than the buffer.
- `LineEndAssumption`, `LowerAssumption`: CR, LF and the letters are strings. That is
  true of every literal; the provers have to be told. TLC evaluates all of these.

**Induction.** The library's induction theorems take a predicate as parameter, which
these provers cannot instantiate. `StreamLemmas` states them about sets instead:
`LeastNatural` from the well-foundedness of the natural numbers, from it `Induction`
(a set with 0 and with every successor holds them all), `RecursiveFunction` and
`RecursionType` (a recursion along a measure has a solution, and every solution has
its values in the expected set), and `FoldSteps` (a fold over a sequence goes through
one value per position). A predicate is proved by putting it in a set.

`CodingLemmas`. By `FoldSteps`, the digit loops compute the number a text denotes as
long as it fits the word and `BAD` as soon as it does not (`CheckedNumberIsNumber`):
the test before the multiplication fails exactly when the product and sum would
exceed the limit, and then every longer text exceeds it too. From this `SizeLines` and
`LengthValues` give each of the six number parsers its meaning. The grammar's
recursive functions are turned into equations (`TrailersEquation`, `DecodeEquation`),
and what one more byte does to them into lemmas (`LineByte`, `LineDone`, `DataByte`).

`LineProofs`. Invariant `TypeOK /\ Buffered /\ Locals /\ Scanned`: the buffer is the
tail of the bytes accepted, `index`, `found` and `consumed` are in use only inside a
call, and no CR LF starts before `index`. So the pair at which C's walk stops is the
first (`CFindsTheFirst`), and a walk that ends has met none (`EndedMeansNone`). It makes
a line found in the buffer the next line of the stream, which is the step of
`LineStream`; searching a rest of the buffer (Rust) or the buffer itself (C, Go)
gives the same line (`WindowOfWindow`). `Counted` adds that the lines delivered are
as many as the pairs before the cut (`CountsOne`), and `Quiet` that a call which
succeeded left none behind it; together they are `NothingHeldBack`.

`HeadProofs`. `Flags` says what each flag tells of the last two bytes, `Decided` what
each verdict tells of all of them; together they are inductive and give
`DecidesTheHead`. `Started`, `Ahead` and `Collected` place the header parser behind
the first line and say that its collected line is empty exactly behind a line end;
with `Decided` an empty line can then only be the one that ends the head, which
is `EndsTogether`. For `JudgesTheHead`, lemmas on counting (`NthIs`, `UpToNext`) say
which line end is the k-th. `EchoLineOnly`: exactly one line is a request for the
echo; `ParsersParse`: each header line parser returns the field of a well-formed line
and finds no field in another. Both come with the result that the languages do not
differ (`OneRequestLineSyntax`, `OneFieldLineSyntax`). The invariant `JInv` says that
the header parser stands in the line whose number is its stored fields plus two, has
collected that line from its start (`Reading`), and has stored the fields of the lines
before (`Behind`); strict line ends, known from `Decided`, are what makes the line
collected the line between two line feeds.

`ChunkedProofs`. The invariant of the counters is `TypeOK /\ NoUnderflow /\
TrailersInStep /\ SurplusIsTail`, the last being that the surplus is a tail of what
was consumed and empty before the message is complete. `rem \in Size` is not inductive alone, since
the data phase subtracts one: it needs `NoUnderflow`, which needs the types of
the number parsers (each returns a size in range or `BAD`). `NoUnderflow` is
preserved because a size of zero never enters the data phase and the phase is
left at the step that reaches zero. `TrailersInStep` is what makes the early
returns of `feed_trailer_byte` dead. `SurplusIsTail` is proved from three lemmas,
for steps that store nothing, one byte (C, Rust), or the rest of a call (Go).
`ChunkedIsABodyDecoder` maps every step to a step of `BodyDecoding` or a stutter.

`DecodesTheCoding` compares the decoder's state with what the grammar makes of the
bytes consumed. Alone it is not inductive: two states with equal verdicts may differ
in what they do next. `Tracks` is the strengthening: for every continuation `w`, the
grammar's meaning of the bytes consumed followed by `w` is the body so far followed by
`Resume(w)`, what the grammar makes of `w` when begun in the middle, in the current phase
with the current line and counter. `Collects` says which bytes each language's line
buffer holds, and when; one lemma per phase then shows that a byte moves from `w` to
the consumed ones without changing the meaning. Rust judges a size line at its CR and
Go and C at the LF, so Rust's verdict `invalid` may come where the grammar still says
incomplete; `Tracks` has this as its last disjunct, and it holds only until one more
byte is there. `SurplusBehindTheMessage` needs in addition where the message ends:
`EndFound` says that the grammar has it complete at the byte before the surplus and
open one byte earlier. It becomes true in the completing step, where `Tracks` gives the
meaning of the bytes before and after that byte (`CompletingByte`), and later
bytes move neither the end nor the first byte kept (`EndStep`).

`LengthProofs`. Invariant `TypeOK /\ NeverBeyondTheBody /\ SplitExact`. A call
that takes `t` of its `k` bytes splits the window of the stream in two
(`Pieces`), and `Needed` is a natural number because of `NeverBeyondTheBody`,
which holds also after `NoMemoryC` left the body full: then the bytes kept are those
up to the declared length, in one piece (`FilledStep`). With `LengthValues` the verdict
of `Init` and of every call is the declared one (`VerdictAsDeclared`).

`EchoProofs`. Invariant `Points /\ Stages /\ Results /\ Releases`: at each
control point, whether the response exists, whether the socket is open, what the
result may be, and what has been released. From it follow `ReportsWhenReleased`
and the refinement of `EchoExchange`, whatever verdict the parsers give. For the
verdict itself: C's loop with two flags, Go's and Rust's searches select a framing
exactly when one line is a framing field (`CSelects` by a fold, `GoSelects`,
`RustSelects`), so each server accepts exactly the heads of the contract
(`AcceptsGoodHeads`); for a body behind such a head, each server's parser answers
as `Message` does, or, in Rust, one byte before it (`BodyVerdict`). `Types` adds to the
type invariant that a body is parsed only behind a complete good head under the
framing selected there (`Selected`), and that a client that ended its side has sent
all (`Ends`). `EchoesTheBody` and `RejectsOnlyTheBad` are then shown together
(`Judged`): a step leaves the response and what it rests on alone (`Settled`), or gives
a response, by one of five lemmas according to the exit of the code taken.

The contract `Message` uses the word size of the language at hand, and in Rust the
leading plus sign that `from_str_radix` allows: the run `strict_sizes` shows that
disagreement with `spec.md`, and the theorems hold of each server with its own numbers.

`OnceProofs`. Invariant `Counters /\ Stages /\ Releases /\ Takes`, on the pattern of
`EchoProofs` with, in `Takes`, what has been read when a server turns to its
response or to its end: that a client which ended its side properly has sent
everything is what makes `OkMeansReceived` true; for Go's response server, that
`Received` holds a value exactly when something was read. `Types` adds the type invariant.

Only model-checked: `GoodRequestsAreEchoed`, `ResponsesAreDelivered` and
`FinishesWhenItCan`, since liveness under fairness is beyond the provers here, and
`StuckOnlyAsNamed`, which is about ENABLED. The
properties of the runs that expect a violation do not hold.

## 5. Not modelled

- Wording and layout of responses, error values, `String` and `Display`.
- Null arguments and other misuse of the C functions by a caller that does not exist.
- Capacity doubling of buffers: only that an allocation may fail.
- Signals: no handler is installed, so reads and writes are not interrupted;
  `SIGPIPE` is modelled (`CKilled`).
- In the echo servers, failure of `socket`, `bind` and `listen` (`Open` of
  `OneShotServers` has it).
- What `header_parser_feed` does when it is fed again after it returned -1: both its
  callers give up and free it.
- In Rust and Go, running out of memory ends the process.
- Test fixtures, empty main programs, build files.

## 6. Plan

1. *Done:* body decoders, their reference grammar, abstract decoder, proofs.
2. *Done:* echo servers over `Connection`, abstract exchange, liveness, proofs.
3. *Done:* line readers against the abstract stream, heads byte by byte, proofs.
4. *Done:* one-shot servers over `Connection`, proofs.
5. *Done:* every safety property and refinement of the runs as a theorem, but the
   one about deadlock.
6. Response serialisation (`http_response_build`, `Bytes`) as an operator, compared
   across the languages: that `Content-Length` is the length of the body and that no
   header of the caller can contradict it. Its layout is abstracted at present.
