----------------------------- MODULE Connection -----------------------------
(***************************************************************************)
(* One TCP connection between a client and a server that serves it once:   *)
(* the client's program, and what the two kernels do with the bytes.  The  *)
(* server's program is left to the modules that extend this one.           *)
(*                                                                         *)
(* The client writes its whole request and only then reads.  A kernel      *)
(* buffers at most BUFFER tokens in each direction.  Closing a socket with *)
(* unread bytes in its buffer, and sending to a closed one, resets the     *)
(* connection, and a reset may destroy bytes that were not yet read.       *)
(***************************************************************************)
EXTENDS Integers, SequencesExt

CONSTANTS Requests,   \* what clients may send
          BUFFER      \* capacity of a socket buffer
ASSUME ConnectionAssumption == Requests \subseteq Seq(STRING) /\ BUFFER \in Nat \ {0}

VARIABLES request, ending,  \* what the client sends, and does then
          sent,             \* tokens it has sent
          clientEnd,        \* "open", half-closed, closed or reset by the client
          got,              \* response tokens the client has read
          read,             \* tokens the server has read
          response,         \* the response the server writes
          written,          \* response tokens it has handed to its kernel
          serverEnd         \* "open", or how the server's close ended it

client == <<request, ending, sent, clientEnd, got>>
server == <<read, response, written>>
connection == <<client, server, serverEnd>>

\* "wait" for the response, half-close ("fin") and read it, close and leave
\* ("gone"), or abort in the middle ("rst").
Endings == {"wait", "fin", "gone", "rst"}

NoResponse == [status |-> 0, body |-> <<>>]
\* The head of a response counts as one token, each byte of its body as another.
ResponseSize == IF response = NoResponse THEN 0 ELSE 1 + Len(response.body)
Received == SubSeq(request, 1, read)

ConnectionInit ==
  /\ request \in Requests /\ ending \in Endings
  /\ sent = 0 /\ got = 0 /\ read = 0 /\ written = 0
  /\ clientEnd = "open" /\ serverEnd = "open"
  /\ response = NoResponse

-----------------------------------------------------------------------------
ClientSends ==
  /\ clientEnd = "open" /\ serverEnd # "rst"
  /\ sent' \in sent + 1 .. Min({Len(request), read + BUFFER})
  /\ serverEnd' = IF serverEnd = "fin" THEN "rst" ELSE serverEnd
  /\ UNCHANGED <<request, ending, clientEnd, got, server>>

ClientReads ==
  /\ clientEnd \in {"open", "fin"}
  /\ sent = Len(request) \/ serverEnd = "rst"
  /\ got' \in got + 1 .. written
  /\ UNCHANGED <<request, ending, sent, clientEnd, server, serverEnd>>

ClientCloses ==
  /\ clientEnd = "open" /\ sent = Len(request)
  /\ ending \in {"fin", "gone"}
  /\ clientEnd' = ending
  /\ UNCHANGED <<request, ending, sent, got, server, serverEnd>>

ClientAborts ==
  /\ clientEnd = "open" /\ ending = "rst"
  /\ clientEnd' = "rst"
  /\ UNCHANGED <<request, ending, sent, got, server, serverEnd>>

ClientNext == ClientSends \/ ClientReads \/ ClientCloses \/ ClientAborts

-----------------------------------------------------------------------------
(* What the server's system calls may do, for the servers to compose.      *)

ReadBytes == read' \in read + 1 .. sent
ReadsEnd  == read = sent /\ clientEnd \in {"fin", "gone"} /\ UNCHANGED read
ReadFails == clientEnd = "rst" /\ UNCHANGED read

\* Mutation: the loop writes on behind the end of the response.
WriteBeyond == /\ clientEnd # "rst"
               /\ written' \in written + 1 .. got + BUFFER

\* write(2) takes what fits; a peer that has left takes it or refuses it.
WriteBytes == /\ clientEnd # "rst"
              /\ written' \in written + 1 .. got + BUFFER
              /\ written' <= ResponseSize
WriteFails == clientEnd \in {"gone", "rst"} /\ UNCHANGED written

CloseSocket == serverEnd' = IF read < sent \/ clientEnd = "rst" THEN "rst" ELSE "fin"
=============================================================================
