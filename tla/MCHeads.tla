------------------------------ MODULE MCHeads ------------------------------
(***************************************************************************)
(* A good head with two fields, changed at any one place to any byte the   *)
(* parsers tell apart, with that byte put in between, or with a byte left  *)
(* out; and every stream of up to six bytes of x, CR and LF.               *)
(***************************************************************************)
EXTENDS RequestHeads

Good == <<Post, " ", EchoPath, " ", HttpVersion, CR, LF,
          "H", ":", " ", "v", ":", "\t", CR, LF, "x", ":", CR, LF, CR, LF>>
Bytes == {CR, LF, " ", "\t", ":", "x", "A", "DEL"}

MCStreams ==
  {Good \o <<"x", CR>>} \cup BoundedSeq({"x", CR, LF}, 6)
  \cup {ReplaceAt(Good, i, b) : i \in DOMAIN Good, b \in Bytes}
  \cup {InsertAt(Good, i, b) : i \in DOMAIN Good, b \in Bytes}
  \cup {RemoveAt(Good, i) : i \in DOMAIN Good}
=============================================================================
