------------------------------- MODULE MCOnce -------------------------------
(***************************************************************************)
(* Requests of none, one and three segments, longer and shorter than what  *)
(* a socket buffers; a C response that fits its buffer and one that does   *)
(* not.                                                                    *)
(***************************************************************************)
EXTENDS OneShotServers

MCRequests  == {<<>>, <<"r">>, <<"r", "s", "t">>}
MCBodies    == {<<>>, <<"x", "y", "z">>}
MCBasicBody == <<"h">>
=============================================================================
