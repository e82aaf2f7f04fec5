----------------------------- MODULE LineStream -----------------------------
(***************************************************************************)
(* What a line reader promises: the stream it has accepted is cut at its   *)
(* CR LF pairs, from the left, each line is delivered once and in order,   *)
(* and a line is never taken back.                                         *)
(***************************************************************************)
EXTENDS Integers, Sequences

CONSTANTS CR, LF
VARIABLES source,   \* the bytes accepted so far
          cut,      \* how many of them belong to lines delivered
          lines     \* the lines delivered

EndsLine(i) == source[i] = CR /\ source[i + 1] = LF

Init == source = <<>> /\ cut = 0 /\ lines = <<>>

Arrive == /\ source = SubSeq(source', 1, Len(source))
          /\ UNCHANGED <<cut, lines>>

\* The next line has n bytes.
Deliver(n) == /\ EndsLine(cut + n + 1)
              /\ \A i \in cut + 1 .. cut + n : ~EndsLine(i)
              /\ lines' = Append(lines, SubSeq(source, cut + 1, cut + n))
              /\ cut' = cut + n + 2
              /\ UNCHANGED source

Next == Arrive \/ \E n \in 0 .. Len(source) - cut - 2 : Deliver(n)

Spec == Init /\ [][Next]_<<source, cut, lines>>
=============================================================================
