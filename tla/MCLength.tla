------------------------------ MODULE MCLength ------------------------------
(***************************************************************************)
(* Content-Length values for TLC: absent, zero, leading zeros, both sides  *)
(* of the 5-bit unsigned and signed limits, overflow in the multiplication *)
(* and in the addition, signs and letters.                                 *)
(***************************************************************************)
EXTENDS LengthParsers

MCValues == { <<>>, <<"0">>, <<"1">>, <<"0", "3">>, <<"4">>, <<"5">>,
              <<"1", "5">>, <<"1", "6">>, <<"3", "1">>, <<"3", "2">>, <<"4", "0">>,
              <<"+", "3">>, <<"-", "1">>, <<"3", "x">>, <<"f">>, <<" ", "3">> }
MCStreams == { <<>>, <<"p", "q">>, <<"p", CR, LF, "s">>, <<"p", "q", "r", "s", "t", "u">> }
=============================================================================
