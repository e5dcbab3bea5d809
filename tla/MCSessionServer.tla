-------------------------- MODULE MCSessionServer --------------------------
(***************************************************************************)
(* Instances of SessionServer for TLC.                                     *)
(***************************************************************************)
EXTENDS SessionServer, TLC

Request(segments, handlers, url, writes) ==
    [segments |-> segments, handlers |-> handlers, url |-> url,
     code |-> "200", writes |-> writes]

\* Three clients: headers in two pieces, a long answer under the same url, and
\* a form whose handler asks an upstream server or throws.
Mixed ==
    "a" :> Request(<<"part", "head">>, {"local"}, "/static", 1) @@
    "b" :> Request(<<"head">>, {"local"}, "/static", 2) @@
    "c" :> [Request(<<"head", "body">>, {"proxy", "throws"}, "/proxy", 1)
              EXCEPT !.code = "302"]

\* A client that posts a form.
Post == "a" :> Request(<<"head", "body">>, {"local"}, "/memes", 1)

\* A client that asks for a large file.
Large == "a" :> Request(<<"head">>, {"local"}, "/static", 2)

\* A proxied request and a local one.
Proxied ==
    "a" :> [Request(<<"head">>, {"proxy"}, "/proxy", 1) EXCEPT !.code = "302"] @@
    "b" :> Request(<<"head">>, {"local"}, "/static", 1)

MixedConns == DOMAIN Mixed
OneConn == {"a"}
TwoConns == DOMAIN Proxied
=============================================================================
