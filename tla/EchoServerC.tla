----------------------------- MODULE EchoServerC -----------------------------
(***************************************************************************)
(* http_echo_server_serve_once of c/http_echo_server.c.                    *)
(***************************************************************************)
EXTENDS EchoState

CAccept == Accept("c")

CAcceptFails ==
  /\ At("c", "accept")
  /\ pc' = "done" /\ reported' = "error" /\ fault' = TRUE
  /\ UNCHANGED <<connection, lang, listening, framing, result, channel>>

\* Mutation: the loop tests count < 0 and reads on at the end of the stream.
CReadHeadIgnoresEnd ==
  /\ At("c", "head") /\ ~HasHead(Received)
  /\ \/ ReadBytes /\ UNCHANGED <<pc, result, fault>>
     \/ ReadFails /\ pc' = "close" /\ result' = "error" /\ UNCHANGED fault
     \/ ReadBytes /\ pc' = "close" /\ result' = "error" /\ fault' = TRUE
  /\ UNCHANGED <<response, written, framing, channel>> /\ Serving

\* An iteration of the head loop.  End of stream, an error and a failed
\* append all leave without a response.
CReadHead ==
  /\ At("c", "head") /\ ~HasHead(Received)
  /\ \/ ReadBytes /\ UNCHANGED <<pc, result, fault>>
     \/ /\ ReadsEnd \/ ReadFails
        /\ pc' = "close" /\ result' = "error" /\ UNCHANGED fault
     \/ ReadBytes /\ pc' = "close" /\ result' = "error" /\ fault' = TRUE
  /\ UNCHANGED <<response, written, framing, channel>> /\ Serving

CHeadAccepted(head) ==
  /\ RequestComplete(head) /\ EchoRequest(head) /\ HeadersParsed(head)
  /\ SelectFramingC(FieldLines(head)) # Blank

CJudgeHead ==
  /\ At("c", "head") /\ HasHead(Received)
  /\ LET head == HeadOf(Received) IN
     \/ /\ ~CHeadAccepted(head)
        /\ Respond(400, <<>>)
        /\ UNCHANGED framing
     \/ /\ CHeadAccepted(head)
        /\ framing' = SelectFramingC(FieldLines(head))
        /\ pc' = "body"
        /\ UNCHANGED response
  /\ UNCHANGED <<read, written, result, channel, fault>> /\ Serving

\* header_parser_feed fails and the request is answered as malformed; or the
\* body parser's creation or first feed fails, which jumps to the response
\* with protocol_error still 0.
CNoMemoryHead ==
  /\ At("c", "head") /\ HasHead(Received)
  /\ LET head == HeadOf(Received)
         selected == SelectFramingC(FieldLines(head))
     IN  \/ /\ RequestComplete(head) /\ EchoRequest(head)
            /\ Respond(400, <<>>)
            /\ UNCHANGED framing
         \/ /\ CHeadAccepted(head)
            /\ selected \in ChunkedFields \/ BodyOf(Received) # <<>>
            /\ framing' = selected
            /\ Respond(200, <<>>)
  /\ fault' = TRUE
  /\ UNCHANGED <<read, written, result, channel>> /\ Serving

\* The body loops: when one ends early a Content-Length request goes to
\* response_body, a chunked one to response_headers with protocol_error 0.
CBodyEndsEarly == Respond(IF framing \in ChunkedFields THEN 200 ELSE 400, <<>>)

CReadBody ==
  /\ At("c", "body")
  /\ BodyC(framing, BodyOf(Received)).state = "incomplete"
  /\ \/ ReadBytes /\ UNCHANGED <<pc, response, fault>>
     \/ (ReadsEnd \/ ReadFails) /\ CBodyEndsEarly /\ UNCHANGED fault
     \/ ReadBytes /\ CBodyEndsEarly /\ fault' = TRUE
  /\ UNCHANGED <<written, framing, result, channel>> /\ Serving

CBodyDone ==
  /\ At("c", "body")
  /\ LET b == BodyC(framing, BodyOf(Received)) IN
     \/ b.state = "complete" /\ Respond(200, b.body)
     \/ b.state = "invalid"  /\ Respond(400, <<>>)
  /\ UNCHANGED <<read, written, framing, result, channel, fault>> /\ Serving

\* http_response_build has no memory for the response.
CNoMemoryResponse ==
  /\ At("c", "write") /\ written = 0
  /\ pc' = "close" /\ result' = "error" /\ fault' = TRUE
  /\ UNCHANGED <<server, framing, channel>> /\ Serving

CWrite == Write("c", "close")

\* Nothing masks SIGPIPE: a write the peer refuses may end the process, and
\* the kernel closes its sockets.
CKilled ==
  /\ At("c", "write") /\ WriteFails
  /\ pc' = "done" /\ reported' = "killed"
  /\ CloseSocket
  /\ UNCHANGED <<client, read, response, lang, listening, framing, result, channel, fault>>

CClose ==
  /\ At("c", "close")
  /\ pc' = "done" /\ reported' = result
  /\ CloseSocket
  /\ UNCHANGED <<client, server, lang, listening, framing, result, channel, fault>>

CNext == \/ CAccept \/ CAcceptFails
         \/ CReadHead \/ CJudgeHead \/ CNoMemoryHead
         \/ CReadBody \/ CBodyDone
         \/ CNoMemoryResponse \/ CWrite \/ CKilled \/ CClose
=============================================================================
