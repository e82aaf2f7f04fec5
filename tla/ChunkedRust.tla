----------------------------- MODULE ChunkedRust -----------------------------
(***************************************************************************)
(* ChunkedParser::feed and feed_byte of rust/src/chunked.rs, one byte of a *)
(* call per action.  Unlike C and Go, the size is judged at the CR.        *)
(***************************************************************************)
EXTENDS ChunkedState

InRust(p) == InCall("rust") /\ state = "incomplete" /\ phase = p
StepRust  == pos' = pos + 1 /\ UNCHANGED <<caller, rc>>

RustAfterVerdict ==
  /\ InCall("rust") /\ state # "incomplete"
  /\ surplus' = IF state = "complete" THEN Append(surplus, Byte) ELSE surplus
  /\ StepRust
  /\ UNCHANGED <<state, body, framing, hvars>>

RustSize ==
  /\ InRust("SIZE")
  /\ LET size == ParseChunkSizeRust(line) IN
     \/ /\ Byte = CR /\ size \in Size
        /\ rem' = size
        /\ phase' = "SIZE_LF"
        /\ UNCHANGED <<state, line>>
     \/ /\ Byte = LF \/ (Byte = CR /\ size \notin Size)
        /\ state' = "invalid"
        /\ UNCHANGED <<phase, line, rem>>
     \/ /\ Byte \notin {CR, LF}
        /\ line' = Append(line, Byte)
        /\ UNCHANGED <<state, phase, rem>>
  /\ StepRust
  /\ UNCHANGED <<body, surplus, pendingCR, hvars>>

RustSizeLf ==
  /\ InRust("SIZE_LF")
  /\ \/ Byte # LF /\ state' = "invalid" /\ UNCHANGED phase
     \/ /\ Byte = LF
        /\ phase' = IF rem = 0 THEN "TRAILERS" ELSE "DATA"
        /\ UNCHANGED state
  /\ StepRust
  /\ UNCHANGED <<body, surplus, line, pendingCR, rem, hvars>>

RustData ==
  /\ InRust("DATA")
  /\ body' = Append(body, Byte)
  /\ rem' = (rem - 1) % (SIZE_MAX + 1)
  /\ phase' = IF rem' = 0 THEN "DATA_CR" ELSE "DATA"
  /\ StepRust
  /\ UNCHANGED <<state, surplus, line, pendingCR, hvars>>

RustDataCr ==
  /\ InRust("DATA_CR")
  /\ \/ Byte # CR /\ state' = "invalid" /\ UNCHANGED phase
     \/ Byte = CR /\ phase' = "DATA_LF" /\ UNCHANGED state
  /\ StepRust
  /\ UNCHANGED <<body, surplus, line, pendingCR, rem, hvars>>

RustDataLf ==
  /\ InRust("DATA_LF")
  /\ \/ Byte # LF /\ state' = "invalid" /\ UNCHANGED <<phase, line>>
     \/ Byte = LF /\ phase' = "SIZE" /\ line' = <<>> /\ UNCHANGED state
  /\ StepRust
  /\ UNCHANGED <<body, surplus, pendingCR, rem, hvars>>

\* The trailer parser's verdict becomes the decoder's.
RustTrailers ==
  /\ InRust("TRAILERS") /\ hstate = "incomplete"
  /\ HeaderFeedRust(Byte)
  /\ state' = hstate'
  /\ StepRust
  /\ UNCHANGED <<body, surplus, framing>>

RustNext == \/ RustAfterVerdict
            \/ RustSize \/ RustSizeLf \/ RustData \/ RustDataCr \/ RustDataLf
            \/ RustTrailers
=============================================================================
