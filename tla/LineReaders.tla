---------------------------- MODULE LineReaders ----------------------------
(***************************************************************************)
(* The line readers of the three implementations and a caller that feeds   *)
(* them a stream in pieces.  C hands each line to a callback that may fail *)
(* and so may an allocation; both are a -1, but only after the first has   *)
(* the reader taken the piece.  Go and Rust return all lines of a call.    *)
(* C looks for the CR LF byte by byte, Go and Rust ask a library search.   *)
(***************************************************************************)
EXTENDS Octets

CONSTANT Streams
ASSUME StreamsAssumption == Streams \subseteq Seq(STRING)

VARIABLES lang, input,
          pos,        \* bytes of the input the reader has accepted
          feeding,    \* inside a call of feed, in its loop
          pending,    \* the buffer of the reader
          index,      \* C: how far the loop of the call has got, counted from 0
          consumed,   \* Rust: bytes of the buffer behind the lines of this call
          found,      \* Go and Rust: the lines this call will return
          lines,      \* the lines the caller has got
          rc          \* what the last call returned, 0 in Go and Rust

vars == <<lang, input, pos, feeding, pending, index, consumed, found, lines, rc>>

\* bytes.Index(s, "\r\n") of Go and find_crlf of Rust, counted from 1.
Crlfs(s)     == {i \in 1 .. Len(s) - 1 : s[i] = CR /\ s[i + 1] = LF}
First(s)     == {i \in Crlfs(s) : \A j \in Crlfs(s) : i <= j}
Line(s, i)   == SubSeq(s, 1, i - 1)
Behind(s, i) == SubSeq(s, i + 2, Len(s))

Init == /\ lang \in {"c", "go", "rust"} /\ input \in Streams
        /\ pos = 0 /\ feeding = FALSE /\ rc = 0
        /\ pending = <<>> /\ index = 0 /\ consumed = 0 /\ found = <<>> /\ lines = <<>>

-----------------------------------------------------------------------------
\* A call takes over its piece, which may be empty, before it looks for lines.
Feed == /\ ~feeding
        /\ \E n \in pos .. Len(input) :
             /\ pending' = pending \o SubSeq(input, pos + 1, n)
             /\ pos' = n
        /\ feeding' = TRUE
        /\ UNCHANGED <<lang, input, index, consumed, found, lines, rc>>

\* line_reader_reserve fails, or the length would overflow: a call that
\* takes nothing, and its piece may come again, cut differently.
CNoMemory == /\ lang = "c" /\ ~feeding /\ pos < Len(input)
             /\ rc' = -1
             /\ UNCHANGED <<lang, input, pos, feeding, pending, index, consumed, found, lines>>

InLoop(l) == lang = l /\ feeding

\* Mutations: the loop stops one byte early, or looks one byte too far.
FurtherShort  == index + 2 < Len(pending)
FurtherTooFar == index < Len(pending)

\* The condition of C's loop: there are two bytes to look at.
Further == index + 1 < Len(pending)

\* What C may read at a place of its buffer; behind the length it is anything.
Sees(k) == IF k < Len(pending) THEN {pending[k + 1]} ELSE {CR, LF}

CScan ==
  /\ InLoop("c") /\ Further
  /\ Sees(index) # {CR} \/ Sees(index + 1) # {LF}
  /\ index' = index + 1
  /\ UNCHANGED <<lang, input, pos, feeding, pending, consumed, found, lines, rc>>

CrlfHere == Further /\ CR \in Sees(index) /\ LF \in Sees(index + 1)
CRest    == SubSeq(pending, index + 3, Len(pending))

\* Mutation: the line leaves the buffer before the callback is asked.
CEmitTooLate(ok) ==
  /\ InLoop("c") /\ CrlfHere
  /\ pending' = CRest
  /\ lines' = IF ok THEN Append(lines, SubSeq(pending, 1, index)) ELSE lines
  /\ rc' = (IF ok THEN rc ELSE -1) /\ feeding' = ok /\ index' = 0
  /\ UNCHANGED <<lang, input, pos, consumed, found>>

\* The callback gets the line while it is still in the buffer; behind it the
\* loop starts at the front again.
CEmit(ok) ==
  /\ InLoop("c") /\ CrlfHere
  /\ \/ ok /\ pending' = CRest /\ lines' = Append(lines, SubSeq(pending, 1, index))
     \/ ~ok /\ UNCHANGED <<pending, lines>>
  /\ rc' = (IF ok THEN rc ELSE -1) /\ feeding' = ok /\ index' = 0
  /\ UNCHANGED <<lang, input, pos, consumed, found>>

GoTake == /\ InLoop("go")
          /\ \E i \in First(pending) : /\ found' = Append(found, Line(pending, i))
                                       /\ pending' = Behind(pending, i)
          /\ UNCHANGED <<lang, input, pos, feeding, index, consumed, lines, rc>>

\* Rust searches behind `consumed` and drains the buffer at the end only.
Unseen == SubSeq(pending, consumed + 1, Len(pending))

\* Mutation: one byte too many is skipped behind the CR LF.
RustTakeSkips ==
  /\ InLoop("rust")
  /\ \E i \in First(Unseen) : /\ found' = Append(found, Line(Unseen, i))
                              /\ consumed' = consumed + i + 2
  /\ UNCHANGED <<lang, input, pos, feeding, pending, index, lines, rc>>

RustTake == /\ InLoop("rust")
            /\ \E i \in First(Unseen) : /\ found' = Append(found, Line(Unseen, i))
                                        /\ consumed' = consumed + i + 1
            /\ UNCHANGED <<lang, input, pos, feeding, pending, index, lines, rc>>

\* The loop has ended: the call returns the lines and, in Rust, drains.
Ended == IF lang = "c" THEN ~Further ELSE Crlfs(Unseen) = {}
Return ==
  /\ feeding /\ Ended
  /\ lines' = lines \o found /\ found' = <<>>
  /\ pending' = Unseen /\ index' = 0 /\ consumed' = 0
  /\ feeding' = FALSE /\ rc' = 0
  /\ UNCHANGED <<lang, input, pos>>

Next == \/ Feed \/ CNoMemory \/ CScan
        \/ \E ok \in BOOLEAN : CEmit(ok)
        \/ GoTake \/ RustTake \/ Return

Spec == Init /\ [][Next]_vars

-----------------------------------------------------------------------------
\* Every variable holds a value of the type the code gives it: `consumed` and
\* `index` never point behind the end of the buffer they index.
TypeOK ==
  /\ lang \in {"c", "go", "rust"} /\ input \in Streams
  /\ pos \in 0 .. Len(input) /\ feeding \in BOOLEAN /\ rc \in {0, -1}
  /\ pending \in Seq(STRING)
  /\ consumed \in 0 .. Len(pending) /\ index \in 0 .. Len(pending)
  /\ found \in Seq(Seq(STRING)) /\ lines \in Seq(Seq(STRING))

\* Whatever the cuts, failed allocations and refusing callbacks, the lines
\* delivered are those of the stream: a refused line is the next one offered,
\* none is skipped and none is delivered twice.
Stream == INSTANCE LineStream WITH
            source <- SubSeq(input, 1, pos),
            cut    <- pos - Len(pending) + consumed,
            lines  <- lines \o found
DeliversTheLines == Stream!Spec

\* When feed returns without an error the caller has as many lines as there
\* are CR LF pairs in all it has handed in, whatever the cuts, refusals and
\* failures before: the index of the C loop stops neither early, which would
\* hold a line back, nor behind the length, where it would find one too many.
NothingHeldBack ==
  ~feeding /\ rc = 0 =>
    Len(lines) = Cardinality({i \in 1 .. pos - 1 : input[i] = CR /\ input[i + 1] = LF})
=============================================================================
