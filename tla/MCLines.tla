------------------------------ MODULE MCLines ------------------------------
(***************************************************************************)
(* Every stream of up to six bytes of a line byte, CR and LF: empty lines, *)
(* repeated CR, LF before CR, and every cut of them.                       *)
(***************************************************************************)
EXTENDS LineReaders

MCStreams == BoundedSeq({"x", CR, LF}, 6)
=============================================================================
