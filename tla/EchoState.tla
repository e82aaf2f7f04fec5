------------------------------ MODULE EchoState ------------------------------
(***************************************************************************)
(* The program state of an echo server that serves one connection, and the *)
(* steps of it that the three languages share.                             *)
(***************************************************************************)
EXTENDS Connection, EchoMessage

VARIABLES lang,       \* whose server runs: "c", "go" or "rust"
          pc,         \* "accept", "head", "body", "write", "close", "report", "done"
          listening,  \* the listening socket is open
          framing,    \* the framing field selected, Blank before that
          result,     \* what the serving function will return or report
          reported,   \* what its caller has been told: the return value in C,
                      \* the value sent on Done in Go and Rust
          channel,    \* Go only: what was sent on Received, <<>> for nothing
          fault       \* an allocation, accept or close of the listener failed

outcome == <<result, reported, channel>>
program == <<lang, pc, listening, framing, outcome, fault>>
vars == <<connection, program>>

EchoInit ==
  /\ ConnectionInit
  /\ lang \in {"c", "go", "rust"}
  /\ pc = "accept" /\ listening = TRUE /\ framing = Blank
  /\ result = "none" /\ reported = "none" /\ channel = <<>>
  /\ fault = FALSE

At(l, p) == lang = l /\ pc = p

\* Steps that leave the client, the listener and the socket as they are.
Serving == UNCHANGED <<client, serverEnd, lang, listening, reported>>
Respond(status, body) ==
  /\ response' = [status |-> status, body |-> body]
  /\ pc' = "write"

\* accept succeeds and the listener is closed before anything is read.
Accept(l) ==
  /\ At(l, "accept")
  /\ pc' = "head" /\ listening' = FALSE
  /\ UNCHANGED <<connection, lang, framing, outcome, fault>>

\* Mutation: a partial write is taken for the whole response.
WriteOnce(l, next) ==
  /\ At(l, "write")
  /\ \/ WriteBytes /\ result' = "ok" /\ pc' = next
     \/ WriteFails /\ result' = "error" /\ pc' = next
  /\ UNCHANGED <<read, response, framing, channel, fault>> /\ Serving

\* One write of the loop that hands the response to the kernel.
Write(l, next) ==
  /\ At(l, "write")
  /\ \/ /\ WriteBytes
        /\ \/ written' = ResponseSize /\ result' = "ok" /\ pc' = next
           \/ written' # ResponseSize /\ UNCHANGED <<result, pc>>
     \/ WriteFails /\ result' = "error" /\ pc' = next
  /\ UNCHANGED <<read, response, framing, channel, fault>> /\ Serving
=============================================================================
