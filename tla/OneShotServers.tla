--------------------------- MODULE OneShotServers ---------------------------
(***************************************************************************)
(* The servers of Milestones 2 and 7, which accept one client: one only    *)
(* receives what it sends, the other answers with a fixed response.  They  *)
(* are tcp_server.c, serveOnce and serveResponseOnce of server.go, and     *)
(* serve_once and serve_response_once of tcp_server.rs with their thread.  *)
(***************************************************************************)
EXTENDS Connection

CONSTANTS Bodies,      \* of the responses a C caller may hand over
          BasicBody    \* of the response that Go and Rust always send
\* The basic response is much smaller than any socket buffer.
ASSUME OneShotAssumption ==
  Bodies \subseteq Seq(STRING) /\ BasicBody \in Seq(STRING) /\ Len(BasicBody) < BUFFER

VARIABLES lang, mode,  \* whose server runs, and whether to "receive" or "respond"
          pc,          \* "open", "accept", "read", "write", "close", "report", "done"
          listening,   \* the listening socket is open
          result,      \* what the serving function will return or report
          reported,    \* what its caller has been told
          taken,       \* what the caller was handed as received, at most one
                       \* value: the out-parameters in C, else the channel
          fault        \* an allocation, open, accept or close failed

program == <<lang, mode, pc, listening, result, reported, taken, fault>>
vars == <<connection, program>>

Init == /\ ConnectionInit
        /\ lang \in {"c", "go", "rust"} /\ mode \in {"receive", "respond"}
        /\ pc = "open" /\ listening = FALSE /\ fault = FALSE
        /\ result = "none" /\ reported = "none" /\ taken = <<>>

At(l, p) == lang = l /\ pc = p
In(m)    == mode = m

\* Steps that leave the client, the listener and the socket as they are.
Serving == UNCHANGED <<client, serverEnd, lang, mode, listening, reported>>

Value(bytes) == <<[ok |-> TRUE, bytes |-> bytes]>>
Failure      == <<[ok |-> FALSE, bytes |-> <<>>]>>

Replies == {[status |-> 200, body |-> b] : b \in IF lang = "c" THEN Bodies ELSE {BasicBody}}
Respond == response' \in Replies /\ pc' = "write" /\ UNCHANGED result
Finish(r, next) == result' = r /\ pc' = next /\ UNCHANGED response

-----------------------------------------------------------------------------
\* socket, bind and listen; a client finds the connection refused if they fail.
Open ==
  /\ pc = "open"
  /\ \/ pc' = "accept" /\ listening' = TRUE /\ UNCHANGED <<serverEnd, reported, fault>>
     \/ /\ pc' = "done" /\ reported' = "error" /\ fault' = TRUE
        /\ serverEnd' = "rst" /\ UNCHANGED listening
  /\ UNCHANGED <<client, server, lang, mode, result, taken>>

\* The listener is closed before anything is read.
Accept ==
  /\ pc = "accept"
  /\ pc' = "read" /\ listening' = FALSE
  /\ UNCHANGED <<connection, lang, mode, result, reported, taken, fault>>

\* C leaves the listener to its caller; Go and Rust close it, which resets a
\* connection still waiting.
AcceptFails ==
  /\ pc = "accept" /\ fault' = TRUE
  /\ \/ lang = "c"    /\ pc' = "done" /\ reported' = "error"
                      /\ UNCHANGED <<listening, serverEnd, result>>
     \/ lang = "go"   /\ pc' = "done" /\ reported' = "error"
                      /\ listening' = FALSE /\ serverEnd' = "rst" /\ UNCHANGED result
     \/ lang = "rust" /\ pc' = "report" /\ result' = "error"
                      /\ listening' = FALSE /\ serverEnd' = "rst" /\ UNCHANGED reported
  /\ UNCHANGED <<client, server, lang, mode, taken>>

\* Mutation: a partial write is taken for the whole response.
WriteOnce(l, next) ==
  /\ At(l, "write")
  /\ \/ WriteBytes /\ result' = "ok" /\ pc' = next
     \/ WriteFails /\ result' = "error" /\ pc' = next
  /\ UNCHANGED <<read, response, taken, fault>> /\ Serving

\* One write of the loop that hands the response to the kernel.
Write(l, next) ==
  /\ At(l, "write")
  /\ \/ /\ WriteBytes
        /\ \/ written' = ResponseSize /\ result' = "ok" /\ pc' = next
           \/ written' # ResponseSize /\ UNCHANGED <<result, pc>>
     \/ WriteFails /\ result' = "error" /\ pc' = next
  /\ UNCHANGED <<read, response, taken, fault>> /\ Serving

-----------------------------------------------------------------------------
(* C: both functions read to the end of the stream.                        *)

\* Mutation: an error ends the loop like the end of the stream.
CReadErrorIsEnd ==
  IF In("receive") THEN Finish("ok", "close") ELSE Respond

\* Mutation: respond_once returns at once as well.
CReadErrorReturns == Finish("error", "report")

\* accept_once skips close(client) when read_client has failed.
CReadError == Finish("error", IF In("receive") THEN "report" ELSE "close")

\* Mutation: only a negative count ends the loop.
CReadIgnoresEnd ==
  /\ At("c", "read")
  /\ \/ ReadBytes /\ UNCHANGED <<pc, response, result, fault>>
     \/ ReadFails /\ CReadError /\ UNCHANGED fault
     \/ ReadBytes /\ CReadError /\ fault' = TRUE
  /\ UNCHANGED <<written, taken>> /\ Serving

\* An iteration of read_client; the last disjunct is reserve_bytes failing.
CRead ==
  /\ At("c", "read")
  /\ \/ ReadBytes /\ UNCHANGED <<pc, response, result, fault>>
     \/ ReadsEnd  /\ In("receive") /\ Finish("ok", "close") /\ UNCHANGED fault
     \/ ReadsEnd  /\ In("respond") /\ Respond /\ UNCHANGED fault
     \/ ReadFails /\ CReadError /\ UNCHANGED fault
     \/ ReadBytes /\ CReadError /\ fault' = TRUE
  /\ UNCHANGED <<written, taken>> /\ Serving

CWrite == Write("c", "close")

\* Nothing masks SIGPIPE: a write the peer refuses may end the process.
CKilled ==
  /\ At("c", "write") /\ WriteFails
  /\ pc' = "done" /\ reported' = "killed"
  /\ CloseSocket
  /\ UNCHANGED <<client, read, response, lang, mode, listening, result, taken, fault>>

\* A close that fails makes an error of a success.
CClose ==
  /\ At("c", "close")
  /\ CloseSocket /\ pc' = "report"
  /\ UNCHANGED <<result, fault>> \/ (result' = "error" /\ fault' = TRUE)
  /\ UNCHANGED <<client, server, lang, mode, listening, reported, taken>>

\* What was received is freed unless everything has succeeded.
CReturn ==
  /\ At("c", "report")
  /\ pc' = "done" /\ reported' = result
  /\ taken' = IF result = "ok" THEN Value(Received) ELSE <<>>
  /\ UNCHANGED <<connection, lang, mode, listening, result, fault>>

CNext == CRead \/ CWrite \/ CKilled \/ CClose \/ CReturn

-----------------------------------------------------------------------------
(* Go: Done gets its value before the deferred Close of the connection.    *)

GoListenerCloseFails ==
  /\ At("go", "accept")
  /\ listening' \in BOOLEAN /\ CloseSocket
  /\ pc' = "done" /\ reported' = "error" /\ fault' = TRUE
  /\ UNCHANGED <<client, server, lang, mode, result, taken>>

GoReadAll ==
  /\ At("go", "read") /\ In("receive")
  /\ \/ ReadBytes /\ UNCHANGED <<pc, response, result, taken>>
     \/ ReadsEnd  /\ Finish("ok", "report") /\ taken' = Value(Received)
     \/ ReadFails /\ Finish("error", "report") /\ UNCHANGED taken
  /\ UNCHANGED <<written, fault>> /\ Serving

\* Mutation: the response waits for the end of the request stream.
GoReadToEnd ==
  /\ At("go", "read") /\ In("respond")
  /\ \/ ReadBytes /\ UNCHANGED <<pc, response, result, taken>>
     \/ ReadsEnd  /\ Respond /\ taken' = Value(Received)
     \/ ReadFails /\ Finish("error", "report") /\ UNCHANGED taken
  /\ UNCHANGED <<written, fault>> /\ Serving

\* Mutation: what a Read returned is handed over even if that is nothing.
GoReadOnceSendsNothing ==
  /\ At("go", "read") /\ In("respond")
  /\ \/ ReadBytes /\ Respond
     \/ (ReadsEnd \/ ReadFails) /\ Finish("error", "report")
  /\ taken' = Value(SubSeq(request, 1, read'))
  /\ UNCHANGED <<written, fault>> /\ Serving

\* A single Read; what it returned counts as the request.
GoReadOnce ==
  /\ At("go", "read") /\ In("respond")
  /\ \/ ReadBytes /\ Respond /\ taken' = Value(SubSeq(request, 1, read'))
     \/ (ReadsEnd \/ ReadFails) /\ Finish("error", "report") /\ UNCHANGED taken
  /\ UNCHANGED <<written, fault>> /\ Serving

GoWrite == Write("go", "report")

GoReport ==
  /\ At("go", "report")
  /\ reported' = result /\ pc' = "close"
  /\ UNCHANGED <<connection, lang, mode, listening, result, taken, fault>>

GoClose ==
  /\ At("go", "close")
  /\ CloseSocket /\ pc' = "done"
  /\ UNCHANGED <<client, server, lang, mode, listening, result, reported, taken, fault>>

GoNext == \/ GoListenerCloseFails \/ GoReadAll \/ GoReadOnce
          \/ GoWrite \/ GoReport \/ GoClose

-----------------------------------------------------------------------------
(* Rust: returning drops the connection, then the thread reports.          *)

RustReadAll ==
  /\ At("rust", "read") /\ In("receive")
  /\ \/ ReadBytes /\ UNCHANGED <<pc, response, result, taken>>
     \/ ReadsEnd  /\ Finish("ok", "close") /\ taken' = Value(Received)
     \/ ReadFails /\ Finish("error", "close") /\ taken' = Failure
  /\ UNCHANGED <<written, fault>> /\ Serving

\* The response server never sends on received: its sender is dropped at once.
RustReadOnce ==
  /\ At("rust", "read") /\ In("respond")
  /\ \/ ReadBytes /\ Respond
     \/ (ReadsEnd \/ ReadFails) /\ Finish("error", "close")
  /\ UNCHANGED <<written, taken, fault>> /\ Serving

RustWrite == Write("rust", "close")

RustClose ==
  /\ At("rust", "close")
  /\ CloseSocket /\ pc' = "report"
  /\ UNCHANGED <<client, server, lang, mode, listening, result, reported, taken, fault>>

RustReport ==
  /\ At("rust", "report")
  /\ reported' = result /\ pc' = "done"
  /\ UNCHANGED <<connection, lang, mode, listening, result, taken, fault>>

RustNext == RustReadAll \/ RustReadOnce \/ RustWrite \/ RustClose \/ RustReport

-----------------------------------------------------------------------------
Client(Step) == pc # "open" /\ Step /\ UNCHANGED program
ServerNext == Open \/ Accept \/ AcceptFails \/ CNext \/ GoNext \/ RustNext
Next == Client(ClientNext) \/ ServerNext
Spec == Init /\ [][Next]_vars

\* The scheduler runs the server, the client's program runs on, and TCP
\* delivers: but nothing promises that a reset leaves the response readable.
Fairness == /\ WF_vars(ServerNext)
            /\ WF_vars(Client(ClientSends)) /\ WF_vars(Client(ClientCloses))
            /\ WF_vars(Client(ClientReads /\ serverEnd # "rst"))
            /\ WF_vars(Client(ClientAborts))
FairSpec == Spec /\ Fairness

-----------------------------------------------------------------------------
\* Every variable holds a value of the type the code gives it.
TypeOK ==
  /\ request \in Requests /\ ending \in Endings
  /\ sent \in 0 .. Len(request) /\ read \in 0 .. sent
  /\ written \in 0 .. ResponseSize /\ got \in 0 .. written
  /\ clientEnd \in {"open", "fin", "gone", "rst"}
  /\ serverEnd \in {"open", "fin", "rst"}
  /\ response \in {NoResponse} \cup Replies
  /\ lang \in {"c", "go", "rust"} /\ mode \in {"receive", "respond"}
  /\ pc \in {"open", "accept", "read", "write", "close", "report", "done"}
  /\ result \in {"none", "ok", "error"}
  /\ reported \in {"none", "ok", "error", "killed"}
  /\ taken \in {<<>>, Failure} \cup {Value(SubSeq(request, 1, n)) : n \in 0 .. sent}
  /\ {listening, fault} \subseteq BOOLEAN

\* "ok" from a server that reads to the end means that the client has ended
\* its side properly and that the caller holds all it ever sent; where one read
\* counts as the request, it holds what was read, and not nothing.  After an
\* error a receiving server has handed over no bytes as if they were a request.
\* Whatever came of it, when Done of Go's response server has its value,
\* Received holds what was read, and nothing if nothing was.
OkMeansReceived ==
  /\ reported = "ok" =>
       /\ In("receive") \/ lang = "c" => Received = request /\ clientEnd \in {"fin", "gone"}
       /\ In("respond") /\ lang # "c" => Received # <<>>
       /\ In("receive") \/ lang # "rust" => taken = Value(Received)
  /\ reported = "error" /\ In("receive") => taken \in {<<>>, Failure}
  /\ lang = "go" /\ In("respond") /\ reported # "none" =>
       taken = IF read = 0 THEN <<>> ELSE Value(Received)

\* When the caller is told that serving is over, the listener is closed and,
\* in C and Rust, so is the connection.  C has two exceptions: the listener
\* that could not accept is left to the caller, and accept_once leaks the
\* connection it failed to read.
CLeaks == /\ lang = "c" /\ In("receive") /\ result = "error"
          /\ fault \/ clientEnd = "rst"
ReportsWhenReleased ==
  reported # "none" =>
    /\ listening => fault /\ read = 0 /\ lang # "rust"
    /\ serverEnd = "open" => lang = "go" \/ CLeaks \/ listening

\* A connection that is answered is one exchange; that a receiving server
\* reports "ok" is nothing its client could see.
Exchange == INSTANCE EchoExchange
              WITH reported <- IF In("respond") THEN reported ELSE "none"
AnswersInOneExchange == Exchange!Spec

\* A client that reads its response gets all of it: from C if it half-closes,
\* from Go and Rust if it sends anything.  The one exception, which C has not:
\* if the server's one read took only part of the request, closing with the
\* rest unread resets the connection, and the response may go with it.
Asks ==
  /\ In("respond")
  /\ IF lang = "c" THEN ending = "fin" ELSE ending \in {"wait", "fin"} /\ request # <<>>
Answered == response \in Replies /\ got = ResponseSize /\ serverEnd = "fin"
LostToReset == lang # "c" /\ serverEnd = "rst" /\ read \in 1 .. Len(request) - 1
ResponsesAreDelivered == Asks ~> (Answered \/ LostToReset \/ fault)

\* Every server finishes with a client that ends its side in any way, and one
\* that answers after a single read with any client that sends something.
FinishesWhenItCan ==
  (ending # "wait" \/ (In("respond") /\ lang # "c" /\ request # <<>>)) ~> (pc = "done")

-----------------------------------------------------------------------------
(* What the documents say and the code does not do.                        *)

\* spec.md, Milestone 2: "and release connection resources".
ConnectionsAreReleased == pc = "done" /\ ~fault => serverEnd # "open"

\* spec.md, Milestone 7: "the client receives syntactically valid HTTP/1.1
\* response bytes", here for a client of the C server that waits for them.
WaitingClientsAreAnswered ==
  (lang = "c" /\ In("respond") /\ ending = "wait" /\ request # <<>>) ~> (Answered \/ fault)
=============================================================================
