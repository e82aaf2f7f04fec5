--------------------------- MODULE EchoServerRust ---------------------------
(***************************************************************************)
(* serve_echo_once of rust/src/tcp_server.rs and the thread that runs it:  *)
(* the connection is dropped when the function returns, its result is then *)
(* sent on the done channel.                                               *)
(***************************************************************************)
EXTENDS EchoState

RustAccept == Accept("rust")

\* accept fails: returning drops the listener.
RustAcceptFails ==
  /\ At("rust", "accept")
  /\ listening' = FALSE /\ serverEnd' = "rst"
  /\ pc' = "report" /\ result' = "error" /\ fault' = TRUE
  /\ UNCHANGED <<client, server, lang, framing, reported, channel>>

RustGiveUp == pc' = "close" /\ result' = "error" /\ UNCHANGED response

RustReadHead ==
  /\ At("rust", "head") /\ ~HasHead(Received)
  /\ \/ ReadBytes /\ UNCHANGED <<pc, response, result>>
     \/ ReadsEnd  /\ Respond(400, <<>>) /\ UNCHANGED result
     \/ ReadFails /\ RustGiveUp
  /\ UNCHANGED <<written, framing, channel, fault>> /\ Serving

RustHeadAccepted(head) ==
  /\ RequestComplete(head) /\ EchoRequest(head) /\ HeadersParsed(head)
  /\ SelectFramingRust(FieldLines(head)) # Blank

RustJudgeHead ==
  /\ At("rust", "head") /\ HasHead(Received)
  /\ LET head == HeadOf(Received) IN
     \/ ~RustHeadAccepted(head) /\ Respond(400, <<>>) /\ UNCHANGED framing
     \/ /\ RustHeadAccepted(head)
        /\ framing' = SelectFramingRust(FieldLines(head))
        /\ pc' = "body"
        /\ UNCHANGED response
  /\ UNCHANGED <<read, written, result, channel, fault>> /\ Serving

RustReadBody ==
  /\ At("rust", "body")
  /\ BodyRust(framing, BodyOf(Received)).state = "incomplete"
  /\ \/ ReadBytes /\ UNCHANGED <<pc, response, result>>
     \/ ReadsEnd  /\ Respond(400, <<>>) /\ UNCHANGED result
     \/ ReadFails /\ RustGiveUp
  /\ UNCHANGED <<written, framing, channel, fault>> /\ Serving

RustBodyDone ==
  /\ At("rust", "body")
  /\ LET b == BodyRust(framing, BodyOf(Received)) IN
     \/ b.state = "complete" /\ Respond(200, b.body)
     \/ b.state = "invalid"  /\ Respond(400, <<>>)
  /\ UNCHANGED <<read, written, framing, result, channel, fault>> /\ Serving

\* Mutation: the result is sent while the connection is still held.
RustWriteReportsFirst == Write("rust", "report")

RustWrite == Write("rust", "close")

RustClose ==
  /\ At("rust", "close")
  /\ CloseSocket /\ pc' = "report"
  /\ UNCHANGED <<client, server, lang, listening, framing, outcome, fault>>

RustReport ==
  /\ At("rust", "report")
  /\ reported' = result /\ pc' = "done"
  /\ UNCHANGED <<connection, lang, listening, framing, result, channel, fault>>

RustNext == \/ RustAccept \/ RustAcceptFails
            \/ RustReadHead \/ RustJudgeHead \/ RustReadBody \/ RustBodyDone
            \/ RustWrite \/ RustClose \/ RustReport
=============================================================================
