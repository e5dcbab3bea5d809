---------------------------- MODULE MCProxyFetch ----------------------------
(***************************************************************************)
(* Instances of ProxyFetch for TLC.                                        *)
(***************************************************************************)
EXTENDS ProxyFetch

Page == <<"link", "text", "link", "newline", "link">>
Lines == <<"link", "text", "newline", "text", "link">>
Fine(type, length, body) ==
    [status |-> "200", fields |-> TRUE, type |-> type, length |-> length,
     body |-> body]

\* Pages and texts, with and without a length, one of length 0, a length that
\* is no number, an answer without headers, and answers that are not 200.
AllAnswers ==
    {Fine("html", Len(Page), Page), Fine("html", NoLength, Page),
     Fine("plain", Len(Page), Page), Fine("plain", 0, <<>>),
     Fine("plain", NoLength, <<>>), Fine("html", BadLength, Page),
     Fine("html", Len(Lines), Lines), Fine("html", NoLength, Lines)}
    \cup {[Fine("html", NoLength, Page) EXCEPT !.fields = FALSE]}
    \cup {[Fine("html", Len(Page), Page) EXCEPT !.status = s] :
             s \in {"other", "invalid"}}

\* A page with its length.
OnePage == {Fine("html", Len(Page), Page)}
=============================================================================
