------------------------------ MODULE ChunkedGo ------------------------------
(***************************************************************************)
(* ChunkedParser.Feed of go/internal/httprequest/chunked.go.  Size line    *)
(* and trailer lines share one line collector; a verdict ends the call at  *)
(* once, and the completing iteration also stores the rest of the buffer.  *)
(***************************************************************************)
EXTENDS ChunkedState

InGo(p) == InCall("go") /\ state = "incomplete" /\ phase = p
StepGo  == /\ pos' = IF state' = "incomplete" THEN pos + 1 ELSE lim
           /\ UNCHANGED <<caller, rc>>

GoCallAfterVerdict ==
  /\ InCall("go") /\ state # "incomplete"
  /\ surplus' = IF state = "complete" THEN surplus \o RestOfCall(pos + 1)
                ELSE surplus
  /\ pos' = lim
  /\ UNCHANGED <<caller, rc, state, body, framing, hvars>>

GoData ==
  /\ InGo("DATA")
  /\ body' = Append(body, Byte)
  /\ rem' = rem - 1
  /\ phase' = IF rem' = 0 THEN "DATA_CR" ELSE "DATA"
  /\ UNCHANGED <<state, surplus, line, pendingCR, hvars>>
  /\ StepGo

GoDataCr ==
  /\ InGo("DATA_CR")
  /\ \/ Byte # CR /\ state' = "invalid" /\ UNCHANGED phase
     \/ Byte = CR /\ phase' = "DATA_LF" /\ UNCHANGED state
  /\ UNCHANGED <<body, surplus, line, pendingCR, rem, hvars>>
  /\ StepGo

GoDataLf ==
  /\ InGo("DATA_LF")
  /\ \/ Byte # LF /\ state' = "invalid" /\ UNCHANGED phase
     \/ Byte = LF /\ phase' = "SIZE" /\ UNCHANGED state
  /\ UNCHANGED <<body, surplus, line, pendingCR, rem, hvars>>
  /\ StepGo

\* consumeLineByte, for every byte that does not finish a line.
GoLineByte ==
  /\ InGo("SIZE") \/ InGo("TRAILERS")
  /\ \/ /\ IF pendingCR THEN Byte # LF ELSE Byte = LF
        /\ state' = "invalid"
        /\ UNCHANGED <<line, pendingCR>>
     \/ /\ ~pendingCR /\ Byte = CR
        /\ pendingCR' = TRUE
        /\ UNCHANGED <<state, line>>
     \/ /\ ~pendingCR /\ Byte \notin {CR, LF}
        /\ line' = Append(line, Byte)
        /\ UNCHANGED <<state, pendingCR>>
  /\ UNCHANGED <<body, surplus, phase, rem, hvars>>
  /\ StepGo

\* The LF that ends a size line: finishChunkSize.
GoFinishSize ==
  /\ InGo("SIZE") /\ pendingCR /\ Byte = LF
  /\ pendingCR' = FALSE
  /\ LET size == FinishChunkSizeGo(line) IN
     \/ /\ size \notin GoInt
        /\ state' = "invalid"
        /\ UNCHANGED <<phase, line, rem>>
     \/ /\ size \in GoInt
        /\ line' = <<>>
        /\ phase' = IF size = 0 THEN "TRAILERS" ELSE "DATA"
        /\ rem' = IF size = 0 THEN rem ELSE size
        /\ UNCHANGED state
  /\ UNCHANGED <<body, surplus, hvars>>
  /\ StepGo

\* Mutation: the first byte behind the message is lost.
RestOfChunkShort == RestOfCall(pos + 3)

\* chunk[index+1:] in the iteration that completes the message.
RestOfChunk == RestOfCall(pos + 2)

\* The LF that ends a trailer line: finishTrailer.
GoFinishTrailer ==
  /\ InGo("TRAILERS") /\ pendingCR /\ Byte = LF
  /\ pendingCR' = FALSE
  /\ \/ /\ line = <<>>
        /\ state' = "complete"
        /\ surplus' = surplus \o RestOfChunk
        /\ UNCHANGED <<line, fields>>
     \/ /\ line # <<>>
        /\ \/ /\ AddHeaderGo(line) = {}
              /\ state' = "invalid"
              /\ UNCHANGED <<line, fields>>
           \/ \E f \in AddHeaderGo(line) : /\ fields' = Append(fields, f)
                                           /\ line' = <<>>
                                           /\ UNCHANGED state
        /\ UNCHANGED surplus
  /\ UNCHANGED <<body, phase, rem, hstate, hline, hpending>>
  /\ StepGo

GoNext == \/ GoCallAfterVerdict
          \/ GoData \/ GoDataCr \/ GoDataLf
          \/ GoLineByte \/ GoFinishSize \/ GoFinishTrailer
=============================================================================
