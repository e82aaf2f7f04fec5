---------------------------- MODULE ChunkedState ----------------------------
(***************************************************************************)
(* The state of a chunked-transfer decoder and of the caller that feeds it *)
(* one buffer after another.  `lang` says whose decoder runs; `input` is   *)
(* the byte stream, cut into calls at arbitrary places: the current call   *)
(* was handed the bytes up to `lim` and its loop has consumed `pos`.       *)
(***************************************************************************)
EXTENDS HeaderParsers

CONSTANT Streams        \* the byte streams a client may send
ASSUME StreamsAssumption == Streams \subseteq Seq(STRING)

VARIABLES lang, input, pos, lim,
          rc,           \* C only: -1 once a call has failed to allocate
          state, body, surplus,
          phase, line, pendingCR, rem

caller == <<lang, input, lim>>
output == <<state, body, surplus>>
framing == <<phase, line, pendingCR, rem>>
vars == <<caller, pos, rc, output, framing, hvars>>

Consumed == SubSeq(input, 1, pos)
Byte == input[pos + 1]
RestOfCall(from) == SubSeq(input, from, lim)
InCall(l) == lang = l /\ rc = 0 /\ pos < lim

ChunkedInit ==
  /\ input \in Streams /\ pos = 0 /\ lim = 0 /\ rc = 0
  /\ state = "incomplete" /\ body = <<>> /\ surplus = <<>>
  /\ line = <<>> /\ pendingCR = FALSE /\ rem = 0
  /\ HeaderInit

\* Mutation: the caller passes one byte more than the read returned.
FeedOneTooMany ==
  /\ rc = 0 /\ pos = lim
  /\ lim' \in lim + 1 .. Len(input) + 1
  /\ UNCHANGED <<lang, input, pos, rc, output, framing, hvars>>

\* The caller hands in the next bytes, however many a read returned.  No
\* caller goes on after a call that returned -1.
Feed == /\ rc = 0 /\ pos = lim
        /\ lim' \in lim + 1 .. Len(input)
        /\ UNCHANGED <<lang, input, pos, rc, output, framing, hvars>>
=============================================================================
