---------------------------- MODULE EchoExchange ----------------------------
(***************************************************************************)
(* What a client may rely on: at most one response, chosen once, before    *)
(* the connection ends; its bytes arrive in order and none beyond it; the  *)
(* connection ends once, and after an end that is no reset every byte of a *)
(* response the server reports as sent can still be read.                  *)
(***************************************************************************)
EXTENDS Integers, Sequences

CONSTANT NoResponse
VARIABLES response, written, got, serverEnd, reported

Size == IF response = NoResponse THEN 0 ELSE 1 + Len(response.body)

Init == /\ response = NoResponse /\ written = 0 /\ got = 0
        /\ serverEnd = "open" /\ reported = "none"

Answer == /\ serverEnd = "open" /\ response = NoResponse
          /\ response'.status \in {200, 400}
          /\ response'.status = 400 => response'.body = <<>>
          /\ UNCHANGED <<written, got, serverEnd, reported>>

Transmit == /\ serverEnd = "open" /\ reported = "none"
            /\ written' > written /\ written' <= Size
            /\ UNCHANGED <<response, got, serverEnd, reported>>

Deliver == /\ got' \in got + 1 .. written
           /\ UNCHANGED <<response, written, serverEnd, reported>>

Report == /\ reported = "none"
          /\ reported' \in {"ok", "error", "killed"}
          /\ reported' = "ok" => response # NoResponse /\ written = Size

End == /\ \/ serverEnd = "open" /\ serverEnd' \in {"fin", "rst"}
          \/ serverEnd = "fin" /\ serverEnd' = "rst"
       /\ reported' = reported \/ Report
       /\ UNCHANGED <<response, written, got>>

Next == \/ Answer \/ Transmit \/ Deliver \/ End
        \/ Report /\ UNCHANGED <<response, written, got, serverEnd>>

Spec == Init /\ [][Next]_<<response, written, got, serverEnd, reported>>
=============================================================================
