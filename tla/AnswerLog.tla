------------------------------ MODULE AnswerLog ------------------------------
(***************************************************************************)
(* What the server promises of its connections, without sockets, buffers   *)
(* and sessions: a connection is answered at most once and then over for   *)
(* good, the status page counts the answer in the step that makes it, and  *)
(* no count is lost while the process is up.  SessionServer implements     *)
(* this specification.                                                     *)
(***************************************************************************)
EXTENDS Naturals

CONSTANTS
    Conns,      \* the connections that clients make
    Label       \* the line of the status page that counts each one's answer

VARIABLES
    running,    \* the process is up
    answered,   \* the connections whose request was answered
    over,       \* the connections that are done with
    hits        \* the status page

vars == <<running, answered, over, hits>>

Init ==
    /\ running = TRUE
    /\ answered = {} /\ over = {}
    /\ hits = [l \in {Label[c] : c \in Conns} |-> 0]

Answer(c) ==
    /\ running /\ c \notin answered \union over
    /\ answered' = answered \union {c}
    /\ hits' = [hits EXCEPT ![Label[c]] = @ + 1]
    /\ UNCHANGED <<running, over>>

\* A connection may end unanswered, and may take the process with it.
End(c) ==
    /\ running /\ c \notin over
    /\ over' = over \union {c}
    /\ running' \in BOOLEAN
    /\ UNCHANGED <<answered, hits>>

Die ==
    /\ running /\ running' = FALSE
    /\ UNCHANGED <<answered, over, hits>>

Next == Die \/ \E c \in Conns : Answer(c) \/ End(c)

Spec == Init /\ [][Next]_vars
=============================================================================
