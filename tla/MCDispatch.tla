----------------------------- MODULE MCDispatch -----------------------------
(***************************************************************************)
(* Configurations for Dispatch: the repository's own in short, and ones    *)
(* that a file may hold and the parser accepts.                            *)
(***************************************************************************)
EXTENDS Dispatch

\* Statement of block b.
S(b, tokens) == [block |-> b, tokens |-> tokens, child |-> FALSE]
B(b, tokens) == [block |-> b, tokens |-> tokens, child |-> TRUE]

Server == <<B(0, <<"http">>), B(1, <<"server">>), S(2, <<"listen", "80">>)>>

\* As tests/configs/echo_server_config, one handler of each name.
Deployed == Server \o
    <<B(2, <<"handler", "echo">>), S(4, <<"url", "/echo">>),
      B(2, <<"handler", "static">>), S(6, <<"location", "/static_files1">>), S(6, <<"url", "/static1">>),
      B(2, <<"handler", "status">>), S(9, <<"url", "/status">>),
      B(2, <<"handler", "proxy">>), S(11, <<"url", "/proxy1">>), S(11, <<"host", "h">>),
      S(11, <<"path", "/">>), S(11, <<"port", "80">>),
      B(2, <<"handler", "meme">>), S(16, <<"location", "/memes_r_us">>), S(16, <<"url", "/meme">>),
      S(16, <<"save", "/memes_r_us">>),
      B(2, <<"handler", "health">>), S(20, <<"url", "/health">>),
      B(2, <<"handler", "bad">>), S(22, <<"url", "/bad">>)>>

\* Two blocks with one url, and no bad handler, as tests/configs/static_config.
Doubled == Server \o
    <<B(2, <<"handler", "static">>), S(4, <<"location", "/static_files1">>), S(4, <<"url", "/static1">>),
      B(2, <<"handler", "echo">>), S(7, <<"url", "/static1">>),
      B(2, <<"handler", "error">>), S(9, <<"url", "/echo">>)>>

\* The letters of an attribute's name in another token.
Stray == Server \o
    <<B(2, <<"handler", "static">>), S(4, <<"location", "/curl">>), S(4, <<"url", "/static1">>),
      B(2, <<"handler", "proxy">>), S(7, <<"url", "/portal">>), S(7, <<"host", "h">>),
      S(7, <<"path", "/">>), S(7, <<"port", "80">>),
      B(2, <<"handler", "echo">>), S(12, <<"base_url", "/echo">>), S(12, <<"url", "/meme">>)>>

\* A handler block inside another one, before its url.
Nested == Server \o
    <<B(2, <<"handler", "echo">>), B(4, <<"handler", "status">>), S(5, <<"url", "/status">>),
      S(4, <<"url", "/echo">>)>>

Unnamed == Server \o <<B(2, <<"handler">>), S(4, <<"url", "/echo">>)>>
NoBlock == Server \o <<S(2, <<"handler", "echo">>)>>
Misspelt == Server \o <<B(2, <<"handler", "ecco">>), S(4, <<"url", "/echo">>)>>
NoUrl == Server \o <<B(2, <<"handler", "meme">>), S(4, <<"location", "/memes_r_us">>), S(4, <<"url", "/meme">>)>>
NoPort == <<B(0, <<"http">>), B(1, <<"server">>), S(2, <<"name", "abc">>)>>

AllConfigs == {Deployed, Doubled, Stray, Nested, Unnamed, NoBlock, Misspelt, NoUrl, NoPort}

AllPaths ==
    LET Path1(uri) == [uri |-> uri, rest |-> NoRest]
        Path2(uri, rest) == [uri |-> uri, rest |-> rest]
    IN  [u \in {<<x>> : x \in {"/", "/echo", "/status", "/proxy1", "/health", "/bad",
                              "/static1", "/meme", "/portal"}} |-> Path1(u[1])]
        @@ <<"/nowhere/a">> :> Path2("/nowhere", <<"a">>)
        @@ <<"/static1/">> :> Path2("/static1", <<"">>)
        @@ <<"/static1/a.txt">> :> Path2("/static1", <<"a", "txt">>)
        @@ <<"/static1/a.min.js">> :> Path2("/static1", <<"a", "min", "js">>)
        @@ <<"/static1/b.txt">> :> Path2("/static1", <<"b", "txt">>)
        @@ <<"/meme/list">> :> Path2("/meme", <<"list">>)
        @@ <<"/meme/view">> :> Path2("/meme", <<"view">>)
        @@ <<"/meme/delete?id=">> :> Path2("/meme", <<"delete?id=">>)
        @@ <<"/meme/result.html">> :> Path2("/meme", <<"result", "html">>)

\* Every path asked for, and one of them with all kinds of headers and bodies.
SomeHeaders == {<<>>, << << <<"Host">>, <<"h">> >> >>,
                << << <<"Host">>, <<"h">> >>, << <<"X">>, <<"y", ": ", " ", "z">> >> >>}
SomeBodies == {<<>>, << <<"a">> >>, << <<"a", ": ", "b">> >>, << <<"a", ": ", "b">>, <<"c">> >>}

\* The forms of view.html and edit.html, in short.
TokenForm == <<"access", "-token", "=", "t">>
EditForm == <<"name", "=", "n", "&", "top", "=", "&", "posttype", "=", "edit", "&", "meme_id", "=", "i">>

Posted(uri, body) == [method |-> "POST", uri |-> uri, headers |-> <<>>, body |-> <<body>>]

Forms == {Posted("/meme/delete?id=", TokenForm), Posted("/meme/result.html", EditForm)}

\* A form whose end came too late.
CutForms ==
    UNION {{SubSeq(Message(q), 1, Len(Message(q)) - k) : k \in 1 .. Len(q.body[1])} : q \in Forms}

AllSent ==
    [method : {"GET"}, uri : {u[1] : u \in DOMAIN AllPaths}, headers : {<<>>}, body : {<<>>}]
    \union [method : {"GET", "POST"}, uri : {"/echo"}, headers : SomeHeaders, body : SomeBodies]
    \union Forms

\* Requests that are not to parse, as in tests/request_test.cc, and ones with
\* spaces, line ends or a header line that are not as they should be.
Odd == {Line(f) \o CRLF : f \in {
          <<"KON", " ", "/echo", " ", "HTTP/1.1">>, <<"GET", " ", "/echo", " ", "HTTP/1.0">>,
          <<"/echo", " ", "HTTP/1.1">>, <<" ", "GET", " ", "/echo", " ", "HTTP/1.1">>,
          <<"GET", " ", " ", "/echo", " ", "HTTP/1.1">>, <<"GET", " ", "/echo", " ", "HTTP/1.1", " ">>}}
       \union {CRLF \o CRLF, <<"GET", " ", "/echo", " ", "HTTP/1.1", "LF", "X", "LF">> \o CRLF \o CRLF}

AllRequests == {Message(q) : q \in AllSent} \union Odd \union CutForms

Attributes == {"url", "listen", "location", "save", "host", "path", "port"}
OccursHere == [attr \in Attributes |->
    (attr :> "end") @@ CASE attr = "url"  -> ("/curl" :> "end") @@ ("base_url" :> "end")
                         [] attr = "port" -> "/portal" :> "inside"
                         [] OTHER         -> <<>>]

PortsHere == "80" :> 80
FilesHere == "/static_files1" :> {<<"a", "txt">>, <<"a", "min", "js">>}
TypesHere == {"txt", "js"}
=============================================================================
