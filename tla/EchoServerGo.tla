---------------------------- MODULE EchoServerGo ----------------------------
(***************************************************************************)
(* serveEchoOnce of go/internal/tcpserver/server.go, the goroutine behind  *)
(* StartEchoOnce.  Received and Done are channels with room for one value. *)
(***************************************************************************)
EXTENDS EchoState

GoAccept == Accept("go")

\* accept fails: closing the listener resets a connection still waiting.
GoAcceptFails ==
  /\ At("go", "accept")
  /\ listening' = FALSE /\ serverEnd' = "rst"
  /\ pc' = "done" /\ reported' = "error" /\ fault' = TRUE
  /\ UNCHANGED <<client, server, lang, framing, result, channel>>

GoListenerCloseFails ==
  /\ At("go", "accept")
  /\ listening' \in BOOLEAN /\ CloseSocket
  /\ pc' = "done" /\ reported' = "error" /\ fault' = TRUE
  /\ UNCHANGED <<client, server, lang, framing, result, channel>>

\* readEchoRequest has returned: what was read goes out on Received.
Publish == channel' = SubSeq(request, 1, read')
GoReject == Respond(400, <<>>) /\ Publish /\ UNCHANGED result
GoGiveUp == /\ pc' = "report" /\ result' = "error"
            /\ Publish /\ UNCHANGED response

GoReadHead ==
  /\ At("go", "head") /\ ~HasHead(Received)
  /\ \/ ReadBytes /\ UNCHANGED <<pc, response, result, channel>>
     \/ ReadsEnd  /\ GoReject
     \/ ReadFails /\ GoGiveUp
  /\ UNCHANGED <<written, framing, fault>> /\ Serving

GoHeadAccepted(head) ==
  /\ RequestComplete(head) /\ EchoRequest(head) /\ HeadersParsed(head)
  /\ SelectFramingGo(FieldLines(head)) # Blank

GoJudgeHead ==
  /\ At("go", "head") /\ HasHead(Received)
  /\ UNCHANGED <<read, written, fault>>
  /\ LET head == HeadOf(Received) IN
     \/ ~GoHeadAccepted(head) /\ GoReject /\ UNCHANGED framing
     \/ /\ GoHeadAccepted(head)
        /\ framing' = SelectFramingGo(FieldLines(head))
        /\ pc' = "body"
        /\ UNCHANGED <<response, result, channel>>
  /\ Serving

GoReadBody ==
  /\ At("go", "body")
  /\ BodyGo(framing, BodyOf(Received)).state = "incomplete"
  /\ \/ ReadBytes /\ UNCHANGED <<pc, response, result, channel>>
     \/ ReadsEnd  /\ GoReject
     \/ ReadFails /\ GoGiveUp
  /\ UNCHANGED <<written, framing, fault>> /\ Serving

GoBodyDone ==
  /\ At("go", "body")
  /\ UNCHANGED <<read, written, framing, fault>>
  /\ LET b == BodyGo(framing, BodyOf(Received)) IN
     \/ b.state = "complete" /\ Respond(200, b.body) /\ Publish /\ UNCHANGED result
     \/ b.state = "invalid"  /\ GoReject
  /\ Serving

GoWrite == Write("go", "report")

\* The value is on Done before the deferred Close of the connection runs.
GoReport ==
  /\ At("go", "report")
  /\ reported' = result /\ pc' = "close"
  /\ UNCHANGED <<connection, lang, listening, framing, result, channel, fault>>

GoClose ==
  /\ At("go", "close")
  /\ CloseSocket /\ pc' = "done"
  /\ UNCHANGED <<client, server, lang, listening, framing, outcome, fault>>

GoNext == \/ GoAccept \/ GoAcceptFails \/ GoListenerCloseFails
          \/ GoReadHead \/ GoJudgeHead \/ GoReadBody \/ GoBodyDone
          \/ GoWrite \/ GoReport \/ GoClose
=============================================================================
