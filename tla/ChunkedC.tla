------------------------------ MODULE ChunkedC ------------------------------
(***************************************************************************)
(* chunked_parser_feed of c/chunked_parser.c.  An action is one iteration  *)
(* of its loop over the bytes of a call.                                   *)
(***************************************************************************)
EXTENDS ChunkedState

InC(p) == InCall("c") /\ state = "incomplete" /\ phase = p
StepC  == pos' = pos + 1 /\ UNCHANGED <<caller, rc>>

CInvalidReturns ==
  /\ InCall("c") /\ state = "invalid"
  /\ pos' = lim
  /\ UNCHANGED <<caller, rc, output, framing, hvars>>

\* Mutation: bytes behind the message are appended to the body.
CSurplusIntoBody ==
  /\ InCall("c") /\ state = "complete"
  /\ body' = Append(body, Byte)
  /\ StepC
  /\ UNCHANGED <<state, surplus, framing, hvars>>

CKeepSurplus ==
  /\ InCall("c") /\ state = "complete"
  /\ surplus' = Append(surplus, Byte)
  /\ StepC
  /\ UNCHANGED <<state, body, framing, hvars>>

CSize ==
  /\ InC("SIZE")
  /\ \/ Byte = CR /\ phase' = "SIZE_LF" /\ UNCHANGED <<state, line>>
     \/ Byte = LF /\ state' = "invalid" /\ UNCHANGED <<phase, line>>
     \/ /\ Byte \notin {CR, LF}
        /\ line' = Append(line, Byte)
        /\ UNCHANGED <<state, phase>>
  /\ StepC
  /\ UNCHANGED <<body, surplus, pendingCR, rem, hvars>>

CSizeLf ==
  /\ InC("SIZE_LF")
  /\ LET size == ParseChunkSizeC(line) IN
     \/ /\ Byte # LF \/ size \notin Size
        /\ state' = "invalid"
        /\ UNCHANGED framing
     \/ /\ Byte = LF /\ size \in Size
        /\ line' = <<>>
        /\ rem' = size
        /\ phase' = IF size = 0 THEN "TRAILERS" ELSE "DATA"
        /\ UNCHANGED <<state, pendingCR>>
  /\ StepC
  /\ UNCHANGED <<body, surplus, hvars>>

\* Mutation: the counter is tested before it is decremented.
CDataTestsFirst ==
  /\ InC("DATA")
  /\ body' = Append(body, Byte)
  /\ rem' = (rem - 1) % (SIZE_MAX + 1)
  /\ phase' = IF rem = 0 THEN "DATA_CR" ELSE "DATA"
  /\ StepC
  /\ UNCHANGED <<state, surplus, line, pendingCR, hvars>>

CData ==
  /\ InC("DATA")
  /\ body' = Append(body, Byte)
  /\ rem' = (rem - 1) % (SIZE_MAX + 1)
  /\ phase' = IF rem' = 0 THEN "DATA_CR" ELSE "DATA"
  /\ StepC
  /\ UNCHANGED <<state, surplus, line, pendingCR, hvars>>

CDataCr ==
  /\ InC("DATA_CR")
  /\ \/ Byte # CR /\ state' = "invalid" /\ UNCHANGED phase
     \/ Byte = CR /\ phase' = "DATA_LF" /\ UNCHANGED state
  /\ StepC
  /\ UNCHANGED <<body, surplus, line, pendingCR, rem, hvars>>

CDataLf ==
  /\ InC("DATA_LF")
  /\ \/ Byte # LF /\ state' = "invalid" /\ UNCHANGED phase
     \/ Byte = LF /\ phase' = "SIZE" /\ UNCHANGED state
  /\ StepC
  /\ UNCHANGED <<body, surplus, line, pendingCR, rem, hvars>>

\* Mutation: an invalid trailer is not passed on to the decoder.
CTrailersMissInvalid ==
  /\ InC("TRAILERS") /\ hstate = "incomplete"
  /\ HeaderFeedC(Byte)
  /\ state' = IF hstate' = "complete" THEN "complete" ELSE state
  /\ StepC
  /\ UNCHANGED <<body, surplus, framing>>

\* feed_trailer_byte: its two early returns need a header parser that has
\* already finished, which TrailersInStep shows never to be the case here.
CTrailers ==
  /\ InC("TRAILERS") /\ hstate = "incomplete"
  /\ HeaderFeedC(Byte)
  /\ state' = hstate'
  /\ StepC
  /\ UNCHANGED <<body, surplus, framing>>

\* An allocation fails: the call returns -1 with the byte not consumed.
CNoMemory ==
  /\ InCall("c") /\ rc' = -1
  /\ \/ /\ \/ state = "complete"
           \/ state = "incomplete" /\ phase = "DATA"
           \/ state = "incomplete" /\ phase = "SIZE" /\ Byte \notin {CR, LF}
        /\ UNCHANGED hvars
     \/ InC("TRAILERS") /\ hstate = "incomplete" /\ HeaderNoMemoryC(Byte)
  /\ UNCHANGED <<caller, pos, output, framing>>

CNext == \/ CInvalidReturns \/ CKeepSurplus
         \/ CSize \/ CSizeLf \/ CData \/ CDataCr \/ CDataLf
         \/ CTrailers \/ CNoMemory
=============================================================================
