----------------------------- MODULE OnceProofs -----------------------------
(***************************************************************************)
(* Proofs about the one-shot servers, for all requests, responses and      *)
(* buffer sizes: what "ok" means, what is released before the caller is    *)
(* told, and that answering is one exchange.                               *)
(***************************************************************************)
EXTENDS OneShotServers, StreamLemmas

Early == {"open", "accept", "read"}

\* Counters are in order, and a client has sent all before it ends its side.
Counters ==
  /\ request \in Seq(STRING) /\ Len(request) \in Nat
  /\ sent \in 0 .. Len(request) /\ read \in 0 .. sent
  /\ written \in Nat /\ got \in Nat
  /\ clientEnd \in {"fin", "gone"} => sent = Len(request)
  /\ lang \in {"c", "go", "rust"} /\ mode \in {"receive", "respond"}

\* Response, socket, result and report at each control point.
Stages ==
  /\ pc \in Early \cup {"write", "close", "report", "done"}
  /\ pc \in Early \/ In("receive") => response = NoResponse
  /\ pc = "write" => In("respond") /\ response # NoResponse
  /\ pc \in Early \cup {"write", "close"} => serverEnd = "open"
  /\ pc \in Early \cup {"write", "report"} => reported = "none"
  /\ pc = "close" => reported = "none" \/ lang = "go"
  /\ pc = "report" => serverEnd = "open" \/ lang # "go"
  /\ pc \in Early \cup {"write"} => result = "none"
  /\ pc \in {"close", "report"} => result \in {"ok", "error"}
  /\ result = "ok" /\ In("respond") => response # NoResponse /\ written = ResponseSize
  /\ reported \in {"none", "ok", "error", "killed"}
  /\ reported = "ok" => result = "ok"
  /\ reported = "error" => result # "ok"

Releases ==
  /\ pc \in {"open", "accept"} => read = 0
  /\ listening => pc = "accept" \/ (pc = "done" /\ fault /\ read = 0 /\ lang # "rust")
  /\ lang = "rust" /\ pc \in {"report", "done"} => serverEnd # "open"
  /\ lang = "c" /\ pc \in {"report", "done"} /\ serverEnd = "open" =>
       CLeaks \/ (pc = "done" /\ listening)
  /\ pc = "accept" => listening

\* What the servers have taken in when they turn to the response or to the end.
WholeRead == read = Len(request) /\ clientEnd \in {"fin", "gone"}
Success == pc = "write" \/ result = "ok"
Takes ==
  /\ Success /\ (In("receive") \/ lang = "c") => WholeRead
  /\ Success /\ In("respond") /\ lang # "c" => read > 0
  /\ Success /\ (lang = "go" \/ (lang = "rust" /\ In("receive"))) => taken = Value(Received)
  /\ lang = "c" /\ (pc # "done" \/ reported # "ok") => taken = <<>>
  /\ lang = "c" /\ reported = "ok" => taken = Value(Received)
  /\ In("receive") /\ result # "ok" => taken \in {<<>>, Failure}
  /\ lang = "go" /\ In("respond") => taken = IF read = 0 THEN <<>> ELSE Value(Received)

Inv == Counters /\ Stages /\ Releases /\ Takes

-----------------------------------------------------------------------------
LEMMA InitInv == Init => Inv
<1> SUFFICES ASSUME Init PROVE Inv
  OBVIOUS
<1>1. request \in Seq(STRING) /\ Len(request) \in Nat
  BY ConnectionAssumption, LenProperties DEF Init, ConnectionInit
<1> QED BY <1>1 DEF Init, ConnectionInit, Inv, Counters, Stages, Releases, Takes, Early, In,
                    NoResponse, Success

USE DEF Inv, Early

LEMMA ClientInv == Inv /\ Client(ClientNext) => Inv'
<1> SUFFICES ASSUME Inv, Client(ClientNext) PROVE Inv' OBVIOUS
<1> USE DEF Client, program, In, server
<1>1. CASE ClientSends
  <2>1. Counters'
    <3>1. Len(request) \in Nat /\ read + BUFFER \in Nat
      BY ConnectionAssumption DEF Counters
    <3>2. Min({Len(request), read + BUFFER}) <= Len(request)
      BY <3>1, MinOfTwo
    <3>3. Min({Len(request), read + BUFFER}) \in Int
      BY <3>1, MinOfTwo
    <3>4. sent' \in sent + 1 .. Len(request)
      BY <1>1, <3>2, <3>3 DEF ClientSends, Counters
    <3> QED BY <1>1, <3>4 DEF ClientSends, Counters
  <2>2. Stages'
    BY <1>1, ConnectionAssumption DEF ClientSends, Stages, ResponseSize, Counters
  <2>3. Releases'
    BY <1>1, ConnectionAssumption DEF ClientSends, Releases, CLeaks, Counters, Stages
  <2>4. Takes'
    BY <1>1, ConnectionAssumption
    DEF ClientSends, Takes, Success, WholeRead, Received, Counters, Stages
  <2> QED BY <2>1, <2>2, <2>3, <2>4
<1>2. CASE ClientReads
  <2>1. Counters'
    BY <1>2, ConnectionAssumption DEF ClientReads, Counters
  <2>2. Stages'
    BY <1>2, ConnectionAssumption DEF ClientReads, Stages, ResponseSize, Counters
  <2>3. Releases'
    BY <1>2, ConnectionAssumption DEF ClientReads, Releases, CLeaks, Counters, Stages
  <2>4. Takes'
    BY <1>2, ConnectionAssumption
    DEF ClientReads, Takes, Success, WholeRead, Received, Counters, Stages
  <2> QED BY <2>1, <2>2, <2>3, <2>4
<1>3. CASE ClientCloses
  <2>1. Counters'
    BY <1>3, ConnectionAssumption DEF ClientCloses, Counters
  <2>2. Stages'
    BY <1>3, ConnectionAssumption DEF ClientCloses, Stages, ResponseSize, Counters
  <2>3. Releases'
    BY <1>3, ConnectionAssumption DEF ClientCloses, Releases, CLeaks, Counters, Stages
  <2>4. Takes'
    BY <1>3, ConnectionAssumption
    DEF ClientCloses, Takes, Success, WholeRead, Received, Counters, Stages
  <2> QED BY <2>1, <2>2, <2>3, <2>4
<1>4. CASE ClientAborts
  <2>1. Counters'
    BY <1>4, ConnectionAssumption DEF ClientAborts, Counters
  <2>2. Stages'
    BY <1>4, ConnectionAssumption DEF ClientAborts, Stages, ResponseSize, Counters
  <2>3. Releases'
    BY <1>4, ConnectionAssumption DEF ClientAborts, Releases, CLeaks, Counters, Stages
  <2>4. Takes'
    BY <1>4, ConnectionAssumption
    DEF ClientAborts, Takes, Success, WholeRead, Received, Counters, Stages
  <2> QED BY <2>1, <2>2, <2>3, <2>4
<1> QED BY <1>1, <1>2, <1>3, <1>4 DEF ClientNext

LEMMA CInv == Inv /\ CNext => Inv'
<1> SUFFICES ASSUME Inv, CNext PROVE Inv' OBVIOUS
<1> USE
DEF At, In, connection, client, server, CloseSocket, ReadBytes, ReadsEnd, ReadFails, WriteBytes,
           WriteFails, Serving, Respond, Finish, Write, Replies, NoResponse, CReadError
<1>1. CASE CRead
  <2>1. Counters'
    BY <1>1, ConnectionAssumption DEF CRead, Counters
  <2>2. Stages'
    BY <1>1, ConnectionAssumption DEF CRead, Stages, ResponseSize, Counters
  <2>3. Releases'
    BY <1>1, ConnectionAssumption DEF CRead, Releases, CLeaks, Counters, Stages
  <2>4. Takes'
    BY <1>1, ConnectionAssumption DEF CRead, Takes, Success, WholeRead, Received, Counters, Stages
  <2> QED BY <2>1, <2>2, <2>3, <2>4
<1>2. CASE CWrite
  <2>1. Counters'
    BY <1>2, ConnectionAssumption DEF CWrite, Counters
  <2>2. Stages'
    BY <1>2, ConnectionAssumption DEF CWrite, Stages, ResponseSize, Counters
  <2>3. Releases'
    BY <1>2, ConnectionAssumption DEF CWrite, Releases, CLeaks, Counters, Stages
  <2>4. Takes'
    BY <1>2, ConnectionAssumption DEF CWrite, Takes, Success, WholeRead, Received, Counters, Stages
  <2> QED BY <2>1, <2>2, <2>3, <2>4
<1>3. CASE CKilled
  <2>1. Counters'
    BY <1>3, ConnectionAssumption DEF CKilled, Counters
  <2>2. Stages'
    BY <1>3, ConnectionAssumption DEF CKilled, Stages, ResponseSize, Counters
  <2>3. Releases'
    BY <1>3, ConnectionAssumption DEF CKilled, Releases, CLeaks, Counters, Stages
  <2>4. Takes'
    BY <1>3, ConnectionAssumption DEF CKilled, Takes, Success, WholeRead, Received, Counters, Stages
  <2> QED BY <2>1, <2>2, <2>3, <2>4
<1>4. CASE CClose
  <2>1. Counters'
    BY <1>4, ConnectionAssumption DEF CClose, Counters
  <2>2. Stages'
    BY <1>4, ConnectionAssumption DEF CClose, Stages, ResponseSize, Counters
  <2>3. Releases'
    BY <1>4, ConnectionAssumption DEF CClose, Releases, CLeaks, Counters, Stages
  <2>4. Takes'
    BY <1>4, ConnectionAssumption DEF CClose, Takes, Success, WholeRead, Received, Counters, Stages
  <2> QED BY <2>1, <2>2, <2>3, <2>4
<1>5. CASE CReturn
  <2>1. Counters'
    BY <1>5, ConnectionAssumption DEF CReturn, Counters
  <2>2. Stages'
    BY <1>5, ConnectionAssumption DEF CReturn, Stages, ResponseSize, Counters
  <2>3. Releases'
    BY <1>5, ConnectionAssumption DEF CReturn, Releases, CLeaks, Counters, Stages
  <2>4. Takes'
    BY <1>5, ConnectionAssumption DEF CReturn, Takes, Success, WholeRead, Received, Counters, Stages
  <2> QED BY <2>1, <2>2, <2>3, <2>4
<1> QED BY <1>1, <1>2, <1>3, <1>4, <1>5 DEF CNext

LEMMA GoInv == Inv /\ GoNext => Inv'
<1> SUFFICES ASSUME Inv, GoNext PROVE Inv' OBVIOUS
<1> USE
DEF At, In, connection, client, server, CloseSocket, ReadBytes, ReadsEnd, ReadFails, WriteBytes,
           WriteFails, Serving, Respond, Finish, Write, Replies, NoResponse
<1>1. CASE GoListenerCloseFails
  <2>1. Counters'
    BY <1>1, ConnectionAssumption DEF GoListenerCloseFails, Counters
  <2>2. Stages'
    BY <1>1, ConnectionAssumption DEF GoListenerCloseFails, Stages, ResponseSize, Counters
  <2>3. Releases'
    BY <1>1, ConnectionAssumption DEF GoListenerCloseFails, Releases, CLeaks, Counters, Stages
  <2>4. Takes'
    BY <1>1, ConnectionAssumption
    DEF GoListenerCloseFails, Takes, Success, WholeRead, Received, Counters, Stages
  <2> QED BY <2>1, <2>2, <2>3, <2>4
<1>2. CASE GoReadAll
  <2>1. Counters'
    BY <1>2, ConnectionAssumption DEF GoReadAll, Counters
  <2>2. Stages'
    BY <1>2, ConnectionAssumption DEF GoReadAll, Stages, ResponseSize, Counters
  <2>3. Releases'
    BY <1>2, ConnectionAssumption DEF GoReadAll, Releases, CLeaks, Counters, Stages
  <2>4. Takes'
    BY <1>2, ConnectionAssumption
    DEF GoReadAll, Takes, Success, WholeRead, Received, Counters, Stages
  <2> QED BY <2>1, <2>2, <2>3, <2>4
<1>3. CASE GoReadOnce
  <2>1. Counters'
    BY <1>3, ConnectionAssumption DEF GoReadOnce, Counters
  <2>2. Stages'
    BY <1>3, ConnectionAssumption DEF GoReadOnce, Stages, ResponseSize, Counters
  <2>3. Releases'
    BY <1>3, ConnectionAssumption DEF GoReadOnce, Releases, CLeaks, Counters, Stages
  <2>4. Takes'
    BY <1>3, ConnectionAssumption
    DEF GoReadOnce, Takes, Success, WholeRead, Received, Counters, Stages
  <2> QED BY <2>1, <2>2, <2>3, <2>4
<1>4. CASE GoWrite
  <2>1. Counters'
    BY <1>4, ConnectionAssumption DEF GoWrite, Counters
  <2>2. Stages'
    BY <1>4, ConnectionAssumption DEF GoWrite, Stages, ResponseSize, Counters
  <2>3. Releases'
    BY <1>4, ConnectionAssumption DEF GoWrite, Releases, CLeaks, Counters, Stages
  <2>4. Takes'
    BY <1>4, ConnectionAssumption DEF GoWrite, Takes, Success, WholeRead, Received, Counters, Stages
  <2> QED BY <2>1, <2>2, <2>3, <2>4
<1>5. CASE GoReport
  <2>1. Counters'
    BY <1>5, ConnectionAssumption DEF GoReport, Counters
  <2>2. Stages'
    BY <1>5, ConnectionAssumption DEF GoReport, Stages, ResponseSize, Counters
  <2>3. Releases'
    BY <1>5, ConnectionAssumption DEF GoReport, Releases, CLeaks, Counters, Stages
  <2>4. Takes'
    BY <1>5, ConnectionAssumption
    DEF GoReport, Takes, Success, WholeRead, Received, Counters, Stages
  <2> QED BY <2>1, <2>2, <2>3, <2>4
<1>6. CASE GoClose
  <2>1. Counters'
    BY <1>6, ConnectionAssumption DEF GoClose, Counters
  <2>2. Stages'
    BY <1>6, ConnectionAssumption DEF GoClose, Stages, ResponseSize, Counters
  <2>3. Releases'
    BY <1>6, ConnectionAssumption DEF GoClose, Releases, CLeaks, Counters, Stages
  <2>4. Takes'
    BY <1>6, ConnectionAssumption DEF GoClose, Takes, Success, WholeRead, Received, Counters, Stages
  <2> QED BY <2>1, <2>2, <2>3, <2>4
<1> QED BY <1>1, <1>2, <1>3, <1>4, <1>5, <1>6 DEF GoNext

LEMMA RustInv == Inv /\ RustNext => Inv'
<1> SUFFICES ASSUME Inv, RustNext PROVE Inv' OBVIOUS
<1> USE
DEF At, In, connection, client, server, CloseSocket, ReadBytes, ReadsEnd, ReadFails, WriteBytes,
           WriteFails, Serving, Respond, Finish, Write, Replies, NoResponse
<1>1. CASE RustReadAll
  <2>1. Counters'
    BY <1>1, ConnectionAssumption DEF RustReadAll, Counters
  <2>2. Stages'
    BY <1>1, ConnectionAssumption DEF RustReadAll, Stages, ResponseSize, Counters
  <2>3. Releases'
    BY <1>1, ConnectionAssumption DEF RustReadAll, Releases, CLeaks, Counters, Stages
  <2>4. Takes'
    BY <1>1, ConnectionAssumption
    DEF RustReadAll, Takes, Success, WholeRead, Received, Counters, Stages
  <2> QED BY <2>1, <2>2, <2>3, <2>4
<1>2. CASE RustReadOnce
  <2>1. Counters'
    BY <1>2, ConnectionAssumption DEF RustReadOnce, Counters
  <2>2. Stages'
    BY <1>2, ConnectionAssumption DEF RustReadOnce, Stages, ResponseSize, Counters
  <2>3. Releases'
    BY <1>2, ConnectionAssumption DEF RustReadOnce, Releases, CLeaks, Counters, Stages
  <2>4. Takes'
    BY <1>2, ConnectionAssumption
    DEF RustReadOnce, Takes, Success, WholeRead, Received, Counters, Stages
  <2> QED BY <2>1, <2>2, <2>3, <2>4
<1>3. CASE RustWrite
  <2>1. Counters'
    BY <1>3, ConnectionAssumption DEF RustWrite, Counters
  <2>2. Stages'
    BY <1>3, ConnectionAssumption DEF RustWrite, Stages, ResponseSize, Counters
  <2>3. Releases'
    BY <1>3, ConnectionAssumption DEF RustWrite, Releases, CLeaks, Counters, Stages
  <2>4. Takes'
    BY <1>3, ConnectionAssumption
    DEF RustWrite, Takes, Success, WholeRead, Received, Counters, Stages
  <2> QED BY <2>1, <2>2, <2>3, <2>4
<1>4. CASE RustClose
  <2>1. Counters'
    BY <1>4, ConnectionAssumption DEF RustClose, Counters
  <2>2. Stages'
    BY <1>4, ConnectionAssumption DEF RustClose, Stages, ResponseSize, Counters
  <2>3. Releases'
    BY <1>4, ConnectionAssumption DEF RustClose, Releases, CLeaks, Counters, Stages
  <2>4. Takes'
    BY <1>4, ConnectionAssumption
    DEF RustClose, Takes, Success, WholeRead, Received, Counters, Stages
  <2> QED BY <2>1, <2>2, <2>3, <2>4
<1>5. CASE RustReport
  <2>1. Counters'
    BY <1>5, ConnectionAssumption DEF RustReport, Counters
  <2>2. Stages'
    BY <1>5, ConnectionAssumption DEF RustReport, Stages, ResponseSize, Counters
  <2>3. Releases'
    BY <1>5, ConnectionAssumption DEF RustReport, Releases, CLeaks, Counters, Stages
  <2>4. Takes'
    BY <1>5, ConnectionAssumption
    DEF RustReport, Takes, Success, WholeRead, Received, Counters, Stages
  <2> QED BY <2>1, <2>2, <2>3, <2>4
<1> QED BY <1>1, <1>2, <1>3, <1>4, <1>5 DEF RustNext

LEMMA StartInv == Inv /\ (Open \/ Accept \/ AcceptFails) => Inv'
<1> SUFFICES ASSUME Inv, Open \/ Accept \/ AcceptFails PROVE Inv' OBVIOUS
<1> USE DEF In, connection, client, server
<1>1. CASE Open
  <2>1. Counters'
    BY <1>1 DEF Open, Counters
  <2>2. Stages'
    BY <1>1 DEF Open, Stages, ResponseSize, Counters
  <2>3. Releases'
    BY <1>1 DEF Open, Releases, CLeaks, Counters, Stages
  <2>4. Takes'
    BY <1>1 DEF Open, Takes, Success, WholeRead, Received, Counters, Stages
  <2> QED BY <2>1, <2>2, <2>3, <2>4
<1>2. CASE Accept
  <2>1. Counters'
    BY <1>2 DEF Accept, Counters
  <2>2. Stages'
    BY <1>2 DEF Accept, Stages, ResponseSize, Counters
  <2>3. Releases'
    BY <1>2 DEF Accept, Releases, CLeaks, Counters, Stages
  <2>4. Takes'
    BY <1>2 DEF Accept, Takes, Success, WholeRead, Received, Counters, Stages
  <2> QED BY <2>1, <2>2, <2>3, <2>4
<1>3. CASE AcceptFails
  <2>1. Counters'
    BY <1>3 DEF AcceptFails, Counters
  <2>2. Stages'
    BY <1>3 DEF AcceptFails, Stages, ResponseSize, Counters
  <2>3. Releases'
    BY <1>3 DEF AcceptFails, Releases, CLeaks, Counters, Stages
  <2>4. Takes'
    BY <1>3 DEF AcceptFails, Takes, Success, WholeRead, Received, Counters, Stages
  <2> QED BY <2>1, <2>2, <2>3, <2>4
<1> QED BY <1>1, <1>2, <1>3

THEOREM Invariance == Spec => []Inv
<1>1. Inv /\ UNCHANGED vars => Inv'
  BY DEF vars, connection, program, client, server, Counters, Stages, Releases, Takes, In,
         CLeaks, WholeRead, Success, Received, ResponseSize
<1>2. Inv /\ [Next]_vars => Inv'
  BY <1>1, ClientInv, CInv, GoInv, RustInv, StartInv DEF Next, ServerNext
<1> QED BY InitInv, <1>2, PTL DEF Spec

\* The serving functions return, and Done gets its value, only when everything
\* is released, but for the two exceptions of C (tcp_server.c 145-157).
THEOREM ReportedWhenReleased == Spec => []ReportsWhenReleased
<1>1. Inv => ReportsWhenReleased
  BY DEF Counters, Stages, Releases, ReportsWhenReleased
<1> QED BY <1>1, Invariance, PTL

\* "ok" is never said of a request that was cut short, and what the caller
\* holds is what was received (read_client, serveOnce, serve_once).
THEOREM OkIsReceived == Spec => []OkMeansReceived
<1>1. Inv => OkMeansReceived
  <2> SUFFICES ASSUME Inv PROVE OkMeansReceived
    OBVIOUS
  <2>1. WholeRead => Received = request
    BY DEF WholeRead, Received, Counters
  <2>2. read > 0 => Received # <<>>
    BY DEF Received, Counters
  <2> QED BY <2>1, <2>2 DEF Counters, Stages, Takes, WholeRead, Success, In, OkMeansReceived
<1> QED BY <1>1, Invariance, PTL

-----------------------------------------------------------------------------
(* Each step of a server or of its client is a step of EchoExchange.       *)

told == IF In("respond") THEN reported ELSE "none"
observed == <<response, written, got, serverEnd, told>>

LEMMA ClientStep == Inv /\ Client(ClientNext) => Exchange!Next \/ UNCHANGED observed
<1> SUFFICES ASSUME Inv, Client(ClientNext) PROVE Exchange!Next \/ UNCHANGED observed
  OBVIOUS
<1> USE DEF Client, program, In, server, observed, told, Stages, Counters, ResponseSize,
           Exchange!Next, Exchange!Answer, Exchange!Transmit, Exchange!Deliver, Exchange!Report,
           Exchange!End, Exchange!Size
<1>1. CASE ClientSends
  BY <1>1 DEF ClientSends
<1>2. CASE ClientReads
  BY <1>2 DEF ClientReads
<1>3. CASE ClientCloses
  BY <1>3 DEF ClientCloses
<1>4. CASE ClientAborts
  BY <1>4 DEF ClientAborts
<1> QED BY <1>1, <1>2, <1>3, <1>4 DEF ClientNext

LEMMA StartStep == Inv /\ (Open \/ Accept \/ AcceptFails) => Exchange!Next \/ UNCHANGED observed
<1> SUFFICES ASSUME Inv, (Open \/ Accept \/ AcceptFails) PROVE Exchange!Next \/ UNCHANGED observed
  OBVIOUS
<1> USE DEF In, connection, client, server, observed, told, Stages, Counters, ResponseSize,
           Exchange!Next, Exchange!Answer, Exchange!Transmit, Exchange!Deliver, Exchange!Report,
           Exchange!End, Exchange!Size
<1>1. CASE Open
  BY <1>1 DEF Open
<1>2. CASE Accept
  BY <1>2 DEF Accept
<1>3. CASE AcceptFails
  BY <1>3 DEF AcceptFails
<1> QED BY <1>1, <1>2, <1>3

LEMMA CStep == Inv /\ CNext => Exchange!Next \/ UNCHANGED observed
<1> SUFFICES ASSUME Inv, CNext PROVE Exchange!Next \/ UNCHANGED observed
  OBVIOUS
<1> USE
DEF At, In, connection, client, server, CloseSocket, ReadBytes, ReadsEnd, ReadFails, WriteBytes,
           WriteFails, Serving, Respond, Finish, Write, Replies, NoResponse, CReadError,
           observed, told, Stages, Counters, ResponseSize,
           Exchange!Next, Exchange!Answer, Exchange!Transmit, Exchange!Deliver, Exchange!Report,
           Exchange!End, Exchange!Size
<1>1. CASE CRead
  BY <1>1 DEF CRead
<1>2. CASE CWrite
  BY <1>2 DEF CWrite
<1>3. CASE CKilled
  BY <1>3 DEF CKilled
<1>4. CASE CClose
  BY <1>4 DEF CClose
<1>5. CASE CReturn
  BY <1>5 DEF CReturn
<1> QED BY <1>1, <1>2, <1>3, <1>4, <1>5 DEF CNext

LEMMA GoStep == Inv /\ GoNext => Exchange!Next \/ UNCHANGED observed
<1> SUFFICES ASSUME Inv, GoNext PROVE Exchange!Next \/ UNCHANGED observed
  OBVIOUS
<1> USE
DEF At, In, connection, client, server, CloseSocket, ReadBytes, ReadsEnd, ReadFails, WriteBytes,
           WriteFails, Serving, Respond, Finish, Write, Replies, NoResponse,
           observed, told, Stages, Counters, ResponseSize,
           Exchange!Next, Exchange!Answer, Exchange!Transmit, Exchange!Deliver, Exchange!Report,
           Exchange!End, Exchange!Size
<1>1. CASE GoListenerCloseFails
  BY <1>1 DEF GoListenerCloseFails
<1>2. CASE GoReadAll
  BY <1>2 DEF GoReadAll
<1>3. CASE GoReadOnce
  BY <1>3 DEF GoReadOnce
<1>4. CASE GoWrite
  BY <1>4 DEF GoWrite
<1>5. CASE GoReport
  BY <1>5 DEF GoReport
<1>6. CASE GoClose
  BY <1>6 DEF GoClose
<1> QED BY <1>1, <1>2, <1>3, <1>4, <1>5, <1>6 DEF GoNext

LEMMA RustStep == Inv /\ RustNext => Exchange!Next \/ UNCHANGED observed
<1> SUFFICES ASSUME Inv, RustNext PROVE Exchange!Next \/ UNCHANGED observed
  OBVIOUS
<1> USE
DEF At, In, connection, client, server, CloseSocket, ReadBytes, ReadsEnd, ReadFails, WriteBytes,
           WriteFails, Serving, Respond, Finish, Write, Replies, NoResponse,
           observed, told, Stages, Counters, ResponseSize,
           Exchange!Next, Exchange!Answer, Exchange!Transmit, Exchange!Deliver, Exchange!Report,
           Exchange!End, Exchange!Size
<1>1. CASE RustReadAll
  BY <1>1 DEF RustReadAll
<1>2. CASE RustReadOnce
  BY <1>2 DEF RustReadOnce
<1>3. CASE RustWrite
  BY <1>3 DEF RustWrite
<1>4. CASE RustClose
  BY <1>4 DEF RustClose
<1>5. CASE RustReport
  BY <1>5 DEF RustReport
<1> QED BY <1>1, <1>2, <1>3, <1>4, <1>5 DEF RustNext

\* A connection that is answered is one exchange: the response is chosen once
\* and goes out in order, and "ok" is only said after its last byte.
THEOREM AnsweringIsAnExchange == Spec => AnswersInOneExchange
<1>1. Init => Exchange!Init
  BY DEF Init, ConnectionInit, Exchange!Init
<1>2. Inv /\ [Next]_vars => [Exchange!Next]_observed
  <2>1. UNCHANGED vars => UNCHANGED observed
    BY DEF vars, connection, program, client, server, observed, told, In
  <2> QED BY <2>1, ClientStep, StartStep, CStep, GoStep, RustStep DEF Next, ServerNext
<1> QED BY <1>1, <1>2, Invariance, PTL
        DEF Spec, AnswersInOneExchange, Exchange!Spec, observed, told

-----------------------------------------------------------------------------
(* Type correctness.  Counters gives the bounds of sent and read.          *)

Types ==
  /\ request \in Requests /\ ending \in Endings
  /\ clientEnd \in {"open", "fin", "gone", "rst"}
  /\ serverEnd \in {"open", "fin", "rst"}
  /\ response \in {NoResponse} \cup Replies
  /\ got \in 0 .. written /\ written <= ResponseSize
  /\ result \in {"none", "ok", "error"}
  /\ taken \in {<<>>, Failure} \cup {Value(SubSeq(request, 1, n)) : n \in 0 .. sent}
  /\ {listening, fault} \subseteq BOOLEAN

LEMMA Sizes == Types => ResponseSize \in Nat
BY OneShotAssumption, LenProperties DEF Types, Replies, ResponseSize

\* A response is chosen before anything is written.
LEMMA RespondTypes ==
  ASSUME Inv, Types, pc = "read", Respond, UNCHANGED <<lang, written>>
  PROVE  response' \in Replies' /\ written' <= ResponseSize'
BY OneShotAssumption, LenProperties DEF Types, Stages, Counters, Respond, Replies, ResponseSize

LEMMA ClientTypes == Inv /\ Types /\ Client(ClientNext) => Types'
<1> SUFFICES ASSUME Inv, Types, Client(ClientNext) PROVE Types' OBVIOUS
<1> USE DEF Client, program, server
<1>1. CASE ClientSends
  BY <1>1, Sizes, RespondTypes
  DEF ClientSends, Types, Stages, Counters, Received, ResponseSize, Endings, Replies
<1>2. CASE ClientReads
  BY <1>2, Sizes, RespondTypes
  DEF ClientReads, Types, Stages, Counters, Received, ResponseSize, Endings, Replies
<1>3. CASE ClientCloses
  BY <1>3, Sizes, RespondTypes
  DEF ClientCloses, Types, Stages, Counters, Received, ResponseSize, Endings, Replies
<1>4. CASE ClientAborts
  BY <1>4, Sizes, RespondTypes
  DEF ClientAborts, Types, Stages, Counters, Received, ResponseSize, Endings, Replies
<1> QED BY <1>1, <1>2, <1>3, <1>4 DEF ClientNext

LEMMA StartTypes == Inv /\ Types /\ (Open \/ Accept \/ AcceptFails) => Types'
<1> SUFFICES ASSUME Inv, Types, (Open \/ Accept \/ AcceptFails) PROVE Types' OBVIOUS
<1> USE DEF connection, client, server
<1>1. CASE Open
  BY <1>1, Sizes, RespondTypes
  DEF Open, Types, Stages, Counters, Received, ResponseSize, Endings, Replies
<1>2. CASE Accept
  BY <1>2, Sizes, RespondTypes
  DEF Accept, Types, Stages, Counters, Received, ResponseSize, Endings, Replies
<1>3. CASE AcceptFails
  BY <1>3, Sizes, RespondTypes
  DEF AcceptFails, Types, Stages, Counters, Received, ResponseSize, Endings, Replies
<1> QED BY <1>1, <1>2, <1>3

LEMMA CTypes == Inv /\ Types /\ CNext => Types'
<1> SUFFICES ASSUME Inv, Types, CNext PROVE Types' OBVIOUS
<1> USE
DEF At, In, connection, client, server, CloseSocket, ReadBytes, ReadsEnd, ReadFails, WriteBytes,
           WriteFails, Serving, Finish, Write, CReadError
<1>1. CASE CRead
  <2>1. response' \in {NoResponse} \cup Replies' /\ written' <= ResponseSize'
    <3>1. Respond => response' \in Replies' /\ written' <= ResponseSize'
      BY <1>1, RespondTypes DEF CRead
    <3>2. UNCHANGED response =>
            response' \in {NoResponse} \cup Replies' /\ written' <= ResponseSize'
      BY <1>1 DEF CRead, Types, Replies, ResponseSize
    <3> QED BY <1>1, <3>1, <3>2 DEF CRead
  <2>2. /\ taken' \in {<<>>, Failure} \cup {Value(SubSeq(request', 1, n)) : n \in 0 .. sent'}
        /\ fault' \in BOOLEAN
    BY <1>1 DEF CRead, Types, Counters, Received
  <2>3. result' \in {"none", "ok", "error"}
    BY <1>1 DEF CRead, Types, Respond
  <2> QED BY <1>1, <2>1, <2>2, <2>3 DEF CRead, Types
<1>2. CASE CWrite
  BY <1>2, Sizes, RespondTypes
  DEF CWrite, Types, Stages, Counters, Received, ResponseSize, Endings, Replies
<1>3. CASE CKilled
  BY <1>3, Sizes, RespondTypes
  DEF CKilled, Types, Stages, Counters, Received, ResponseSize, Endings, Replies
<1>4. CASE CClose
  BY <1>4, Sizes, RespondTypes
  DEF CClose, Types, Stages, Counters, Received, ResponseSize, Endings, Replies
<1>5. CASE CReturn
  BY <1>5, Sizes, RespondTypes
  DEF CReturn, Types, Stages, Counters, Received, ResponseSize, Endings, Replies
<1> QED BY <1>1, <1>2, <1>3, <1>4, <1>5 DEF CNext

LEMMA GoTypes == Inv /\ Types /\ GoNext => Types'
<1> SUFFICES ASSUME Inv, Types, GoNext PROVE Types' OBVIOUS
<1> USE
DEF At, In, connection, client, server, CloseSocket, ReadBytes, ReadsEnd, ReadFails, WriteBytes,
           WriteFails, Serving, Finish, Write
<1>1. CASE GoListenerCloseFails
  BY <1>1, Sizes, RespondTypes
  DEF GoListenerCloseFails, Types, Stages, Counters, Received, ResponseSize, Endings, Replies
<1>2. CASE GoReadAll
  BY <1>2, Sizes, RespondTypes
  DEF GoReadAll, Types, Stages, Counters, Received, ResponseSize, Endings, Replies
<1>3. CASE GoReadOnce
  <2>1. response' \in {NoResponse} \cup Replies' /\ written' <= ResponseSize'
    <3>1. Respond => response' \in Replies' /\ written' <= ResponseSize'
      BY <1>3, RespondTypes DEF GoReadOnce
    <3>2. UNCHANGED response =>
            response' \in {NoResponse} \cup Replies' /\ written' <= ResponseSize'
      BY <1>3 DEF GoReadOnce, Types, Replies, ResponseSize
    <3> QED BY <1>3, <3>1, <3>2 DEF GoReadOnce
  <2>2. /\ taken' \in {<<>>, Failure} \cup {Value(SubSeq(request', 1, n)) : n \in 0 .. sent'}
        /\ fault' \in BOOLEAN
    BY <1>3 DEF GoReadOnce, Types, Counters, Received
  <2>3. result' \in {"none", "ok", "error"}
    BY <1>3 DEF GoReadOnce, Types, Respond
  <2> QED BY <1>3, <2>1, <2>2, <2>3 DEF GoReadOnce, Types
<1>4. CASE GoWrite
  BY <1>4, Sizes, RespondTypes
  DEF GoWrite, Types, Stages, Counters, Received, ResponseSize, Endings, Replies
<1>5. CASE GoReport
  BY <1>5, Sizes, RespondTypes
  DEF GoReport, Types, Stages, Counters, Received, ResponseSize, Endings, Replies
<1>6. CASE GoClose
  BY <1>6, Sizes, RespondTypes
  DEF GoClose, Types, Stages, Counters, Received, ResponseSize, Endings, Replies
<1> QED BY <1>1, <1>2, <1>3, <1>4, <1>5, <1>6 DEF GoNext

LEMMA RustTypes == Inv /\ Types /\ RustNext => Types'
<1> SUFFICES ASSUME Inv, Types, RustNext PROVE Types' OBVIOUS
<1> USE
DEF At, In, connection, client, server, CloseSocket, ReadBytes, ReadsEnd, ReadFails, WriteBytes,
           WriteFails, Serving, Finish, Write
<1>1. CASE RustReadAll
  BY <1>1, Sizes, RespondTypes
  DEF RustReadAll, Types, Stages, Counters, Received, ResponseSize, Endings, Replies
<1>2. CASE RustReadOnce
  <2>1. response' \in {NoResponse} \cup Replies' /\ written' <= ResponseSize'
    <3>1. Respond => response' \in Replies' /\ written' <= ResponseSize'
      BY <1>2, RespondTypes DEF RustReadOnce
    <3>2. UNCHANGED response =>
            response' \in {NoResponse} \cup Replies' /\ written' <= ResponseSize'
      BY <1>2 DEF RustReadOnce, Types, Replies, ResponseSize
    <3> QED BY <1>2, <3>1, <3>2 DEF RustReadOnce
  <2>2. /\ taken' \in {<<>>, Failure} \cup {Value(SubSeq(request', 1, n)) : n \in 0 .. sent'}
        /\ fault' \in BOOLEAN
    BY <1>2 DEF RustReadOnce, Types, Counters, Received
  <2>3. result' \in {"none", "ok", "error"}
    BY <1>2 DEF RustReadOnce, Types, Respond
  <2> QED BY <1>2, <2>1, <2>2, <2>3 DEF RustReadOnce, Types
<1>3. CASE RustWrite
  BY <1>3, Sizes, RespondTypes
  DEF RustWrite, Types, Stages, Counters, Received, ResponseSize, Endings, Replies
<1>4. CASE RustClose
  BY <1>4, Sizes, RespondTypes
  DEF RustClose, Types, Stages, Counters, Received, ResponseSize, Endings, Replies
<1>5. CASE RustReport
  BY <1>5, Sizes, RespondTypes
  DEF RustReport, Types, Stages, Counters, Received, ResponseSize, Endings, Replies
<1> QED BY <1>1, <1>2, <1>3, <1>4, <1>5 DEF RustNext

\* Every variable stays within its type, the response within what was chosen
\* and what the caller holds within what the client has sent.
THEOREM TypeCorrect == Spec => []TypeOK
<1>1. Init => Types
  <2> SUFFICES ASSUME Init PROVE Types
    OBVIOUS
  <2>1. got \in 0 .. written /\ written <= ResponseSize
    BY DEF Init, ConnectionInit, ResponseSize
  <2>2. taken \in {<<>>, Failure} /\ {listening, fault} \subseteq BOOLEAN
    BY DEF Init
  <2>3. /\ request \in Requests /\ ending \in Endings /\ clientEnd = "open"
        /\ serverEnd = "open" /\ response = NoResponse /\ result = "none"
    BY DEF Init, ConnectionInit
  <2> QED BY ONLY <2>1, <2>2, <2>3 DEF Types
<1>2. Inv /\ Types /\ [Next]_vars => Types'
  <2>1. Types /\ UNCHANGED vars => Types'
    BY DEF vars, connection, program, client, server, Types, Replies, ResponseSize
  <2> QED BY <2>1, ClientTypes, StartTypes, CTypes, GoTypes, RustTypes DEF Next, ServerNext
<1>3. Inv /\ Types => TypeOK
  BY Sizes DEF Counters, Stages, Types, TypeOK
<1> QED BY <1>1, <1>2, <1>3, Invariance, PTL DEF Spec
=============================================================================
