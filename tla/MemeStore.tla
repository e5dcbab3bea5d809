------------------------------ MODULE MemeStore ------------------------------
(***************************************************************************)
(* What the meme vault promises, without the database: a store from meme   *)
(* ids to a content and an access token.  Publishing always takes an id    *)
(* that names no meme, revising keeps the token, and no step touches two   *)
(* memes.  A late edit of a deleted meme brings the id back with the token *)
(* that authorises nobody, and so does an edit form that lost part of its  *)
(* id.  MemeVault implements this specification as long as its counter of  *)
(* ids gains no digit.                                                     *)
(***************************************************************************)

CONSTANTS
    Id,         \* meme ids
    Content,    \* what a meme shows: name, image and captions
    Token,      \* the access tokens given out
    NoToken     \* the token of a meme nobody can authorise for

VARIABLE store

Meme == [content : Content, token : Token \cup {NoToken}]

\* The ids in use: store is a partial function on Id.
InUse == DOMAIN store

IsStore == InUse \subseteq Id /\ store \in [InUse -> Meme]

\* A store left by an earlier life of the server.
Init == IsStore

\* A step that leaves every meme but that of id i as it was.
Only(i) ==
    /\ DOMAIN store' \ {i} = InUse \ {i}
    /\ \A j \in InUse \ {i} : store'[j] = store[j]

Publish ==
    \E i \in DOMAIN store' \ InUse :
        /\ Only(i)
        /\ store'[i].token \in Token

Revise ==
    \E i \in InUse \cap DOMAIN store' :
        /\ Only(i)
        /\ store'[i].token = store[i].token

Revive ==
    \E i \in DOMAIN store' \ InUse :
        /\ Only(i)
        /\ store'[i].token = NoToken

Retract ==
    \E i \in InUse \ DOMAIN store' : Only(i)

Next ==
    /\ Publish \/ Revise \/ Revive \/ Retract
    /\ IsStore'

Spec == Init /\ [][Next]_store
=============================================================================
