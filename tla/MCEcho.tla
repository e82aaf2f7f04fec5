------------------------------- MODULE MCEcho -------------------------------
(***************************************************************************)
(* Requests for TLC: good ones of both framings with CR in the body, with  *)
(* a pipelined second request, an empty body and a signed size; more sent  *)
(* behind a request than a window takes, before short and long responses;  *)
(* heads bad in each way the servers look for; bodies that are malformed,  *)
(* too long for a Go int, or never sent; and the two main requests cut at  *)
(* every token.                                                            *)
(***************************************************************************)
EXTENDS EchoServers

Post == "POST /echo HTTP/1.1"
Host == "Host: t"
Two  == "Content-Length: 2"
Te   == "Transfer-Encoding: Chunked"
Gzip == "Transfer-Encoding: gzip"

MCBareLines      == {"Host: a\nb"}
MCPlainFields    == {Host}
MCLengthFields   == (Two :> <<"2">>) @@ ("Content-Length: 0" :> <<"0">>)
                    @@ ("Content-Length: 16" :> <<"1", "6">>)
                    @@ ("Content-Length: x" :> <<"x">>)
MCChunkedFields  == {Te}
MCTransferFields == {Te, Gzip}

Request(fields) == <<Post>> \o fields \o <<"">>

Counted2 == Request(<<Host, Two>>) \o <<"p", CR>>
Chunked1 == Request(<<Te>>) \o <<"1", CR, LF, "x", CR, LF, "0", CR, LF, CR, LF>>

Short == { Request(<<Two>>) \o <<"p", "q", Post>>,
           Request(<<"Content-Length: 0">>),
           Request(<<Te>>) \o <<"0", CR, LF, CR, LF, Post>>,
           Request(<<Te>>) \o <<"+", "1", CR, LF, "x", CR, LF, "0", CR, LF, CR, LF>> }
\* Behind the message: as much as a window takes, and one token more.
SendsOn == { Request(<<Two>>) \o <<"p", "q", Post, Post>>,
             Request(<<Two>>) \o <<"p", "q", Post, Post, Post>>,
             Request(<<"Content-Length: 0">>) \o <<Post, Post, Post>>,
             Request(<<Te>>) \o <<"1", CR, LF, "x", CR, LF, "0", CR, LF, CR, LF, Post, Post, Post>> }
BadHeads == { Request(<<Two, Te>>) \o <<"p", "q">>, Request(<<Te, Two>>), Request(<<Two, Two>>),
              Request(<<Te, Te>>), Request(<<Gzip, Te>>), Request(<<Te, Gzip>>), Request(<<Gzip>>),
              Request(<<Host>>), Request(<<Two, "Host: a\nb">>), Request(<<Two, "no colon">>),
              <<"GET / HTTP/1.1", Two, "", "p", "q">>, <<"", Post, Two, "">> }
BadBodies == { Request(<<"Content-Length: x">>) \o <<"p">>,
               Request(<<"Content-Length: 16">>) \o <<"p">>,
               Request(<<Te>>) \o <<"z", CR, LF, "x">>,
               Request(<<Te>>) \o <<"1", "0", CR, LF, "x">>,
               Request(<<Te>>) \o <<"1", CR, LF, "x", "x", CR>>,
               Request(<<Te>>) \o <<"0", CR, LF, "x", CR, LF>> }

MCRequests == Prefixes(Counted2) \cup Prefixes(Chunked1)
              \cup Short \cup SendsOn \cup BadHeads \cup BadBodies
=============================================================================
