---------------------------- MODULE BodyDecoding ----------------------------
(***************************************************************************)
(* What every body decoder promises its caller, whichever the coding and   *)
(* the language: while the verdict is open the body only grows; a verdict  *)
(* is final and freezes the body; bytes of a later message are kept, in    *)
(* order, only once the verdict is there.                                  *)
(***************************************************************************)
EXTENDS SequencesExt

VARIABLES state, body, surplus

Verdict == {"incomplete", "complete", "invalid"}

Init == /\ state \in Verdict
        /\ body = <<>> /\ surplus = <<>>

\* More of the body, possibly with the verdict and, behind the end of the
\* message, the first surplus bytes.
Decode == /\ state = "incomplete"
          /\ state' \in Verdict
          /\ IsPrefix(body, body')
          /\ state' = "complete" \/ surplus' = surplus
          /\ IsPrefix(surplus, surplus')

Keep == /\ state # "incomplete"
        /\ IsPrefix(surplus, surplus')
        /\ UNCHANGED <<state, body>>

Next == Decode \/ Keep

Spec == Init /\ [][Next]_<<state, body, surplus>>
=============================================================================
