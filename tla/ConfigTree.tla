----------------------------- MODULE ConfigTree -----------------------------
(***************************************************************************)
(* NginxConfig and NginxConfigStatement as values: the statements of a     *)
(* configuration in the order they were read.  A statement is a record of  *)
(* the block it stands in, its tokens and whether it has a child block;    *)
(* the child block of statement i is block i, and block 0 is the file's.   *)
(***************************************************************************)
EXTENDS Integers, Sequences, FiniteSetsExt, SequencesExt

\* The tokens ToString writes for block b of the statements ss, where open,
\* close and end are the tokens "{", "}" and ";".
BlockTokens(ss, b, open, close, end) ==
    LET Tokens[c \in 0 .. Len(ss)] ==
          FlattenSeq([i \in DOMAIN ss |->
            IF ss[i].block # c THEN <<>>
            ELSE ss[i].tokens \o
                   IF ss[i].child THEN <<open>> \o Tokens[i] \o <<close>> ELSE <<end>>])
    IN  Tokens[b]

\* The statements among wanted that stand in block b or in a block in it, each
\* after the ones in its own child block: the order of ParseString's recursion.
InnerFirst(ss, b, wanted) ==
    LET Found[c \in 0 .. Len(ss)] ==
          FlattenSeq([i \in DOMAIN ss |->
            IF ss[i].block # c THEN <<>>
            ELSE (IF ss[i].child THEN Found[i] ELSE <<>>)
                   \o IF i \in wanted THEN <<i>> ELSE <<>>])
    IN  Found[b]

\* The statements are the tree of a file, in the order they were read: each has a
\* token and none of the marks among its tokens, stands in the file's block or in
\* the child of one before it, and comes before anything outside that block does.
FileTree(ss, marks) ==
    /\ ss # <<>>
    /\ \A i \in DOMAIN ss :
         /\ ss[i].tokens # <<>> /\ ss[i].block < i
         /\ \A k \in DOMAIN ss[i].tokens : ss[i].tokens[k] \notin marks
         /\ ss[i].block = 0 \/ ss[ss[i].block].child
         /\ \A j \in ss[i].block + 1 .. i - 1 : ss[j].block >= ss[i].block
=============================================================================
