------------------------- MODULE SessionServerProofs -------------------------
(***************************************************************************)
(* What SessionServer's safety properties rest on, that the status page    *)
(* counts every answer and adds them up, and that the sessions implement   *)
(* AnswerLog, for any connections, requests and number of descriptors.     *)
(***************************************************************************)
EXTENDS SessionServer, FiniteSetTheorems, SequenceLemmas, TLAPS

\* A session that is not done reading has not read the end of the headers.
Unread ==
    \A c \in Conns :
        sess[c] \in {"none", "backlog", "reading"} => ~HeadWithin(c, read[c])

\* async_write has written before it goes on or ends without an error, and an
\* answer of one write fails only when the client has reset.
WritesMade ==
    \A c \in Conns :
        /\ sess[c] \in {"none", "backlog", "reading", "ready", "waiting"} => out[c] = <<>>
        /\ sess[c] \in {"writing", "written"} => out[c] # <<>>
        /\ sess[c] = "writing" => Len(out[c]) < Asks[c].writes
        /\ Asks[c].writes = 1 =>
             /\ sess[c] # "writing"
             /\ sess[c] = "failed" => client[c] = "reset"

\* A connection that was not made yet has no session, and the backlog holds
\* connections that wait there, each once.
Queued ==
    /\ \A c \in Conns : client[c] = "new" => sess[c] = "none"
    /\ \A i, j \in DOMAIN backlog : backlog[i] = backlog[j] => i = j
    /\ \A i \in DOMAIN backlog : sess[backlog[i]] = "backlog"

\* No url and code have two entries.
Distinct(es) ==
    \A i, j \in DOMAIN es : es[i].url = es[j].url /\ es[i].code = es[j].code => i = j

Inv ==
    TypeOK /\ HandlersSeeHeads /\ StatusCounts /\ ShortAnswersArrive /\ Unread /\ WritesMade
        /\ Queued

-----------------------------------------------------------------------------
\* In es2 the url u and the code k count one more than in es, or one for the
\* first time, and the others what they did.
Counts(es, es2, u, k) ==
    /\ es2 \in Seq(Entry)
    /\ Distinct(es2)
    /\ \A i \in DOMAIN es : i \in DOMAIN es2
          /\ es2[i].url = es[i].url /\ es2[i].code = es[i].code
    /\ \A i \in DOMAIN es2 : es2[i].url # u \/ es2[i].code # k
          => i \in DOMAIN es /\ es2[i] = es[i]
    /\ \A i \in DOMAIN es2 : es2[i].url = u /\ es2[i].code = k
          => \/ i \in DOMAIN es /\ es2[i].count = es[i].count + 1
             \/ es2[i].count = 1 /\ Counted(es, u, k) = {}
    /\ \E i \in DOMAIN es2 : es2[i].url = u /\ es2[i].code = k

\* addStatusEntry (status_obj.cc:4): of a list without duplicates it makes one,
\* with one more for the url and code it is called with.
LEMMA AddEntry ==
    ASSUME NEW es \in Seq(Entry), Distinct(es), NEW u \in STRING, NEW k \in STRING
    PROVE  Counts(es, addStatusEntry(es, u, k), u, k)
<1>. DEFINE es2 == addStatusEntry(es, u, k)
<1>. SUFFICES Counts(es, es2, u, k)
    OBVIOUS
<1>1. CASE Counted(es, u, k) = {}
    <2>. DEFINE new == [count |-> 1, url |-> u, code |-> k]
    <2>1. new \in Entry /\ new.url = u /\ new.code = k /\ new.count = 1
        BY DEF Entry
    <2>2. es2 = Append(es, new)
        BY <1>1 DEF addStatusEntry
    <2>. HIDE DEF new, es2
    <2>3. /\ es2 \in Seq(Entry)
          /\ DOMAIN es2 = 1 .. Len(es) + 1 /\ DOMAIN es = 1 .. Len(es)
          /\ \A i \in DOMAIN es : es2[i] = es[i]
          /\ es2[Len(es) + 1] = new
          /\ Len(es) \in Nat
        BY <2>1, <2>2
    <2>4. \A i \in DOMAIN es : es[i].url # u \/ es[i].code # k
        BY <1>1 DEF Counted
    <2>5. Distinct(es2)
        BY <2>1, <2>3, <2>4 DEF Distinct
    <2>. QED
        BY <1>1, <2>1, <2>3, <2>4, <2>5 DEF Counts
<1>2. CASE Counted(es, u, k) # {}
    <2>1. PICK m \in DOMAIN es : m \in Counted(es, u, k)
        BY <1>2 DEF Counted
    <2>2. Counted(es, u, k) = {m} /\ m \in Nat
        BY <2>1 DEF Counted, Distinct
    <2>3. Min({m}) = m
        BY <2>2 DEF Min
    <2>. DEFINE new == [es[m] EXCEPT !.count = @ + 1]
    <2>4. es2 = [es EXCEPT ![m] = new]
        BY <1>2, <2>2, <2>3 DEF addStatusEntry
    <2>5. es[m] \in Entry
        BY <2>1
    <2>6. /\ new \in Entry /\ new.url = es[m].url /\ new.code = es[m].code
          /\ new.count = es[m].count + 1
        BY <2>5 DEF Entry
    <2>. HIDE DEF new, es2
    <2>7. /\ es2 \in Seq(Entry) /\ DOMAIN es2 = DOMAIN es
          /\ es2[m] = new /\ \A i \in DOMAIN es : i # m => es2[i] = es[i]
        BY <2>1, <2>4, <2>6
    <2>8. \A i \in DOMAIN es : es2[i].url = es[i].url /\ es2[i].code = es[i].code
        BY <2>6, <2>7
    <2>9. es[m].url = u /\ es[m].code = k
        BY <2>1 DEF Counted
    <2>10. Distinct(es2)
        BY <2>7, <2>8 DEF Distinct
    <2>11. \A i \in DOMAIN es2 : es2[i].url = u /\ es2[i].code = k => i = m
        BY <2>1, <2>7, <2>8, <2>9 DEF Distinct
    <2>. QED
        BY <2>1, <2>6, <2>7, <2>8, <2>9, <2>10, <2>11 DEF Counts
<1>. QED
    BY <1>1, <1>2

-----------------------------------------------------------------------------
\* The steps.

\* A step that answers no request leaves the counts as they are.
LEMMA CountsKept ==
    ASSUME StatusCounts, UNCHANGED entries, Answered' = Answered
    PROVE  StatusCounts'
BY DEF StatusCounts, Asked

\* The end of handle_read (session.cc:74-95) keeps the counts: it answers one
\* request more and counts it.
LEMMA RespondCounts ==
    ASSUME TypeOK, StatusCounts, NEW c \in Conns, c \notin Answered,
           Answered' = Answered \cup {c},
           entries' = addStatusEntry(entries, Asks[c].url, Asks[c].code)
    PROVE  StatusCounts' /\ entries' \in Seq(Entry)
<1>. DEFINE u == Asks[c].url
            k == Asks[c].code
            With(i, set) == {d \in set : Asked(d, entries'[i].url, entries'[i].code)}
<1>1. u \in STRING /\ k \in STRING
    BY AsksAssumption DEF Ask
<1>2. entries \in Seq(Entry) /\ Distinct(entries)
    BY DEF TypeOK, StatusCounts, Distinct
<1>3. Counts(entries, entries', u, k)
    BY <1>1, <1>2, AddEntry
<1>4. ASSUME NEW i \in DOMAIN entries'
      PROVE  entries'[i].count = Cardinality(With(i, Answered'))
    <2>1. CASE entries'[i].url # u \/ entries'[i].code # k
        <3>1. With(i, Answered') = With(i, Answered)
            BY <2>1 DEF Asked
        <3>2. i \in DOMAIN entries /\ entries'[i] = entries[i]
            BY <1>3, <2>1 DEF Counts
        <3>. QED
            BY <3>1, <3>2 DEF StatusCounts
    <2>2. CASE entries'[i].url = u /\ entries'[i].code = k
        <3>1. With(i, Answered') = With(i, Answered) \cup {c}
            BY <2>2 DEF Asked
        <3>2. c \notin With(i, Answered)
            OBVIOUS
        <3>3. IsFiniteSet(With(i, Answered))
            BY ConnsAssumption, FS_Subset DEF Answered
        <3>4. Cardinality(With(i, Answered')) = Cardinality(With(i, Answered)) + 1
            BY <3>1, <3>2, <3>3, FS_AddElement
        <3>5. CASE i \in DOMAIN entries /\ entries'[i].count = entries[i].count + 1
            <4>1. entries'[i].url = entries[i].url /\ entries'[i].code = entries[i].code
                BY <1>3, <3>5 DEF Counts
            <4>2. entries[i].count = Cardinality(With(i, Answered))
                BY <3>5, <4>1 DEF StatusCounts
            <4>. QED
                BY <3>4, <3>5, <4>2
        <3>6. CASE entries'[i].count = 1 /\ Counted(entries, u, k) = {}
            <4>1. \A d \in Answered : ~Asked(d, u, k)
                BY <3>6 DEF StatusCounts, Asked, Counted
            <4>2. With(i, Answered) = {}
                BY <2>2, <4>1
            <4>. QED
                BY <3>4, <3>6, <4>2, FS_EmptySet
        <3>. QED
            BY <1>3, <2>2, <3>5, <3>6 DEF Counts
    <2>. QED
        BY <2>1, <2>2
<1>5. ASSUME NEW d \in Answered'
      PROVE  \E i \in DOMAIN entries' : Asked(d, entries'[i].url, entries'[i].code)
    <2>1. CASE d = c
        BY <1>3, <2>1 DEF Counts, Asked
    <2>2. CASE d \in Answered
        BY <1>3, <2>2 DEF Counts, StatusCounts, Asked
    <2>. QED
        BY <2>1, <2>2
<1>. QED
    BY <1>3, <1>4, <1>5 DEF Counts, StatusCounts, Distinct

\* What a run starts with.
LEMMA InitInv == Init => Inv
<1>. SUFFICES ASSUME Init PROVE Inv
    OBVIOUS
<1>1. \A c \in Conns : Size(c) \in Nat /\ Asks[c].writes \in Nat /\ Asks[c].writes > 0
    BY AsksAssumption DEF Ask, Size
<1>2. TypeOK
    BY <1>1 DEF Init, TypeOK, SessStates
<1>3. \A c \in Conns : ~HeadWithin(c, read[c])
    BY DEF Init, HeadWithin
<1>4. Answered = {}
    BY <1>3 DEF Answered
<1>5. StatusCounts
    BY <1>4 DEF Init, StatusCounts
<1>6. HandlersSeeHeads /\ ShortAnswersArrive /\ Unread /\ WritesMade
    BY <1>3, <1>4 DEF Init, HandlersSeeHeads, ShortAnswersArrive, Unread, WritesMade
<1>7. Queued
    BY DEF Init, Queued
<1>. QED
    BY <1>2, <1>5, <1>6, <1>7 DEF Inv

\* What the invariant says of one connection by itself.
Sound(d) ==
    /\ sess[d] \in {"ready", "waiting", "writing", "written", "failed"} \/ out[d] # <<>>
         => HeadWithin(d, read[d])
    /\ sess[d] \in {"none", "backlog", "reading"} => ~HeadWithin(d, read[d])
    /\ sess[d] \in {"none", "backlog", "reading", "ready", "waiting"} => out[d] = <<>>
    /\ sess[d] \in {"writing", "written"} => out[d] # <<>>
    /\ sess[d] = "writing" => Len(out[d]) < Asks[d].writes
    /\ Asks[d].writes = 1 =>
         /\ sess[d] # "writing"
         /\ sess[d] = "failed" => client[d] = "reset"
         /\ \A i \in DOMAIN out[d] : out[d][i] = "good"
         /\ HeadWithin(d, read[d]) /\ sess[d] = "closed" /\ client[d] # "reset"
              => out[d] # <<>>

\* The four parts of the invariant that speak of single connections.
LEMMA SoundParts ==
    (HandlersSeeHeads /\ ShortAnswersArrive /\ Unread /\ WritesMade)
        <=> \A d \in Conns : Sound(d)
BY DEF HandlersSeeHeads, ShortAnswersArrive, Unread, WritesMade, Sound, Answered

\* A connection that a step leaves alone.
Untouched(d) ==
    client'[d] = client[d] /\ sess'[d] = sess[d] /\ read'[d] = read[d] /\ out'[d] = out[d]

\* So a step that touches one connection has only that one to keep sound.
LEMMA OneConnection ==
    ASSUME Inv, NEW c \in Conns, \A d \in Conns \ {c} : Untouched(d),
           Sound(c)', StatusCounts', TypeOK', Queued'
    PROVE  Inv'
<1>1. \A d \in Conns \ {c} : Sound(d)'
    BY SoundParts DEF Inv, Sound, Untouched, HeadWithin
<1>2. \A d \in Conns : Sound(d)'
    BY <1>1
<1>3. (HandlersSeeHeads /\ ShortAnswersArrive /\ Unread /\ WritesMade)'
    BY <1>2 DEF HandlersSeeHeads, ShortAnswersArrive, Unread, WritesMade, Sound, Answered
<1>. QED
    BY <1>3 DEF Inv

\* A client's step: only a reset changes what the server will make of it.
LEMMA ClientInv ==
    ASSUME Inv, NEW c \in Conns, Connect(c) \/ Send(c) \/ Leave(c)
    PROVE  Inv'
<1>1. Size(c) \in Nat
    BY AsksAssumption DEF Ask, Size
<1>2. TypeOK'
    <2>1. CASE Connect(c)
        BY <2>1 DEF Inv, TypeOK, SessStates, Connect
    <2>2. CASE Send(c)
        BY <1>1, <2>2 DEF Inv, TypeOK, Send
    <2>3. CASE Leave(c)
        BY <2>3 DEF Inv, TypeOK, Leave
    <2>. QED
        BY <2>1, <2>2, <2>3
<1>3. \A d \in Conns \ {c} : Untouched(d)
    BY DEF Inv, TypeOK, Connect, Send, Leave, Untouched
<1>4. Sound(c)'
    <2>1. Sound(c)
        BY SoundParts DEF Inv
    <2>2. read'[c] = read[c] /\ out'[c] = out[c]
        BY DEF Connect, Send, Leave
    <2>3. \/ sess'[c] = sess[c]
          \/ sess[c] = "none" /\ sess'[c] = "backlog"
        BY DEF Inv, TypeOK, Queued, Connect, Send, Leave
    <2>4. client'[c] # "reset" => client[c] # "reset"
        BY DEF Inv, TypeOK, Connect, Send, Leave
    <2>. QED
        BY <2>1, <2>2, <2>3, <2>4 DEF Sound, HeadWithin
<1>5. StatusCounts'
    <2>1. read' = read /\ entries' = entries
        BY DEF Connect, Send, Leave
    <2>2. \A d \in Conns : sess'[d] \in {"ready", "waiting"} <=> sess[d] \in {"ready", "waiting"}
        BY DEF Inv, TypeOK, Queued, Connect, Send, Leave
    <2>3. Answered' = Answered
        BY <2>1, <2>2 DEF Answered, HeadWithin
    <2>. QED
        BY <2>1, <2>3, CountsKept DEF Inv
<1>6. Queued'
    <2>1. CASE Connect(c)
        <3>1. \A i \in DOMAIN backlog : backlog[i] # c
            BY <2>1 DEF Inv, TypeOK, Queued, Connect
        <3>2. /\ backlog' \in Seq(Conns) /\ Len(backlog) \in Nat
              /\ DOMAIN backlog' = 1 .. Len(backlog) + 1 /\ DOMAIN backlog = 1 .. Len(backlog)
              /\ \A i \in DOMAIN backlog : backlog'[i] = backlog[i] /\ backlog[i] \in Conns
              /\ backlog'[Len(backlog) + 1] = c
            BY <2>1 DEF Inv, TypeOK, Connect
        <3>3. \A i, j \in DOMAIN backlog' : backlog'[i] = backlog'[j] => i = j
            BY <3>1, <3>2 DEF Inv, Queued
        <3>4. /\ \A d \in Conns : client'[d] = "new" => sess'[d] = "none"
              /\ \A i \in DOMAIN backlog' : sess'[backlog'[i]] = "backlog"
            BY SMTT(30), <2>1, <3>1, <3>2 DEF Inv, TypeOK, Queued, Connect
        <3>. QED
            BY <3>3, <3>4 DEF Queued
    <2>2. CASE Send(c)
        BY <2>2 DEF Inv, Queued, Send
    <2>3. CASE Leave(c)
        BY <2>3 DEF Inv, TypeOK, Queued, Leave
    <2>. QED
        BY <2>1, <2>2, <2>3
<1>. QED
    BY <1>2, <1>3, <1>4, <1>5, <1>6, OneConnection

\* handle_accept: the session of the first waiting connection starts to read.
LEMMA AcceptInv ==
    ASSUME Inv, Accept
    PROVE  Inv'
<1>0. PICK c \in Conns : c = Head(backlog)
    BY DEF Inv, TypeOK, Accept
<1>1. /\ sess[c] = "backlog" /\ Tail(backlog) \in Seq(Conns)
      /\ 1 \in DOMAIN backlog /\ c = backlog[1] /\ Len(backlog) \in Nat
      /\ DOMAIN backlog = 1 .. Len(backlog) /\ DOMAIN Tail(backlog) = 1 .. Len(backlog) - 1
      /\ \A i \in DOMAIN backlog : backlog[i] \in Conns
      /\ \A i \in 1 .. Len(backlog) - 1 : Tail(backlog)[i] = backlog[i + 1]
    BY <1>0 DEF Inv, TypeOK, Queued, Accept
<1>2. /\ sess' = [sess EXCEPT ![c] = "reading"] /\ backlog' = Tail(backlog)
      /\ UNCHANGED <<running, client, sent, read, out, entries>>
    BY <1>0 DEF Accept
<1>3. TypeOK'
    BY <1>1, <1>2 DEF Inv, TypeOK, SessStates
<1>4. Sound(c)'
    <2>1. Sound(c)
        BY SoundParts DEF Inv
    <2>2. sess'[c] = "reading" /\ client' = client /\ read' = read /\ out' = out
        BY <1>1, <1>2 DEF Inv, TypeOK
    <2>. QED
        BY <1>1, <2>1, <2>2 DEF Sound, HeadWithin
<1>5. \A d \in Conns \ {c} : Untouched(d)
    BY <1>1, <1>2 DEF Inv, TypeOK, Untouched
<1>6. StatusCounts'
    <2>1. \A d \in Conns : sess'[d] \in {"ready", "waiting"} <=> sess[d] \in {"ready", "waiting"}
        BY <1>1, <1>2 DEF Inv, TypeOK
    <2>2. Answered' = Answered
        BY <1>2, <2>1 DEF Answered, HeadWithin
    <2>. QED
        BY <1>2, <2>2, CountsKept DEF Inv
<1>7. Queued'
    <2>1. \A i \in DOMAIN backlog' : /\ i + 1 \in DOMAIN backlog
                                     /\ backlog'[i] = backlog[i + 1] /\ i + 1 # 1 /\ i \in Nat
                                     /\ backlog[i + 1] \in Conns
        BY <1>1, <1>2
    <2>2. \A i \in DOMAIN backlog' : backlog'[i] # c /\ sess[backlog'[i]] = "backlog"
        BY <1>1, <2>1 DEF Inv, Queued
    <2>3. \A i, j \in DOMAIN backlog' : backlog'[i] = backlog'[j] => i = j
        BY <2>1 DEF Inv, Queued
    <2>4. \A d \in Conns : client'[d] = "new" => sess'[d] = "none"
        BY <1>1, <1>2 DEF Inv, TypeOK, Queued
    <2>5. \A i \in DOMAIN backlog' : sess'[backlog'[i]] = "backlog"
        BY <1>2, <2>1, <2>2 DEF Inv, TypeOK
    <2>. QED
        BY <2>3, <2>4, <2>5 DEF Queued
<1>. QED
    BY <1>1, <1>3, <1>4, <1>5, <1>6, <1>7, OneConnection

\* A session's step leaves the backlog, and who waits in it, alone.
LEMMA QueueKept ==
    ASSUME Inv, NEW c \in Conns, sess[c] \notin {"none", "backlog"},
           NEW s, sess' = [sess EXCEPT ![c] = s], UNCHANGED <<client, backlog>>
    PROVE  Queued'
<1>1. \A i \in DOMAIN backlog : backlog[i] \in Conns /\ backlog[i] # c
    BY DEF Inv, TypeOK, Queued
<1>2. client[c] # "new"
    BY DEF Inv, Queued
<1>. QED
    BY <1>1, <1>2 DEF Inv, TypeOK, Queued

\* async_read_until reads on, or has found the end of the headers.
LEMMA ReadSomeInv ==
    ASSUME Inv, NEW c \in Conns, ReadSome(c)
    PROVE  Inv'
<1>1. PICK n \in read[c] + 1 .. sent[c] :
        /\ read' = [read EXCEPT ![c] = n]
        /\ sess' = [sess EXCEPT ![c] = IF HeadWithin(c, n) THEN "ready" ELSE @]
    BY DEF ReadSome
<1>2. /\ sess[c] = "reading" /\ n \in Nat /\ n <= sent[c]
      /\ UNCHANGED <<running, client, sent, backlog, out, entries>>
    BY <1>1 DEF Inv, TypeOK, ReadSome
<1>3. /\ read'[c] = n
      /\ sess'[c] = IF HeadWithin(c, n) THEN "ready" ELSE "reading"
      /\ \A d \in Conns \ {c} : read'[d] = read[d] /\ sess'[d] = sess[d]
    BY <1>1, <1>2 DEF Inv, TypeOK
<1>4. TypeOK'
    BY <1>1, <1>2, <1>3 DEF Inv, TypeOK, SessStates
<1>5. Sound(c)
    BY SoundParts DEF Inv
<1>6. Sound(c)'
    BY <1>2, <1>3, <1>5 DEF Sound, HeadWithin
<1>7. \A d \in Conns \ {c} : Untouched(d)
    BY <1>2, <1>3 DEF Untouched
<1>8. Answered' = Answered
    BY <1>2, <1>3, <1>5 DEF Sound, Answered, HeadWithin
<1>9. StatusCounts' /\ Queued'
    BY <1>1, <1>2, <1>8, CountsKept, QueueKept DEF Inv
<1>. QED
    BY <1>4, <1>6, <1>7, <1>9, OneConnection

\* The end of handle_read answers the request and counts it.
LEMMA RespondInv ==
    ASSUME Inv, NEW c \in Conns, sess[c] \in {"ready", "waiting"}, Respond(c),
           UNCHANGED <<running, client, sent, backlog, read>>
    PROVE  Inv'
<1>1. Asks[c].writes \in Nat /\ Asks[c].writes > 0
    BY AsksAssumption DEF Ask
<1>2. Sound(c)
    BY SoundParts DEF Inv
<1>3. HeadWithin(c, read[c]) /\ c \notin Answered
    BY <1>2 DEF Sound, Answered
<1>4. PICK s \in {"written", "writing", "failed"} : sess' = [sess EXCEPT ![c] = s]
    BY DEF Respond
<1>5. \A d \in Conns \ {c} : sess'[d] = sess[d] /\ out'[d] = out[d]
    BY DEF Respond, Inv, TypeOK
<1>6. sess'[c] = s
    BY <1>4 DEF Inv, TypeOK
<1>7. Answered' = Answered \cup {c}
    BY <1>3, <1>5, <1>6 DEF Answered, HeadWithin
<1>8. StatusCounts' /\ entries' \in Seq(Entry)
    BY <1>3, <1>7, RespondCounts DEF Inv, Respond
<1>9. out[c] = <<>> /\ out[c] \in Seq({"good", "bad"})
    BY <1>2 DEF Sound, Inv, TypeOK
<1>10. \/ out'[c] = <<>> /\ s = "failed" /\ client[c] = "reset" /\ out' = out
       \/ /\ out'[c] = <<"good">> /\ s # "failed"
          /\ s = IF Asks[c].writes = 1 THEN "written" ELSE "writing"
    BY <1>6, <1>9 DEF Respond, Inv, TypeOK
<1>11. /\ out' \in [Conns -> Seq({"good", "bad"})]
       /\ Len(out'[c]) <= Asks[c].writes
       /\ \A i \in DOMAIN out'[c] : out'[c][i] = "good"
       /\ s # "failed" => out'[c] # <<>> /\ Len(out'[c]) = 1
    <2>1. /\ <<"good">> \in Seq({"good", "bad"}) /\ Len(<<"good">>) = 1
          /\ \A i \in DOMAIN <<"good">> : <<"good">>[i] = "good"
          /\ Len(<<>>) = 0 /\ DOMAIN <<>> = {}
        OBVIOUS
    <2>2. out'[c] \in {<<>>, <<"good">>}
        BY <1>10
    <2>3. out'[c] \in Seq({"good", "bad"})
        BY <1>9, <1>10, <2>1
    <2>4. out' \in [Conns -> Seq({"good", "bad"})]
        BY <1>5, <2>3 DEF Respond, Inv, TypeOK
    <2>5. CASE out'[c] = <<>> /\ s = "failed"
        BY <1>1, <2>4, <2>5
    <2>6. CASE out'[c] = <<"good">>
        BY <1>1, <2>1, <2>4, <2>6
    <2>. QED
        BY <1>10, <2>5, <2>6
<1>12. TypeOK'
    BY <1>4, <1>5, <1>8, <1>11 DEF Inv, TypeOK, SessStates
<1>13. Sound(c)'
    BY <1>1, <1>2, <1>3, <1>6, <1>10, <1>11 DEF Sound, HeadWithin
<1>14. \A d \in Conns \ {c} : Untouched(d)
    BY <1>5 DEF Untouched
<1>15. Queued'
    BY <1>4, QueueKept
<1>. QED
    BY <1>8, <1>12, <1>13, <1>14, <1>15, OneConnection

\* A step after which the session of c waits for something else, and nothing
\* but what the socket has of its answer is changed.
LEMMA SessionMoves ==
    ASSUME Inv, NEW c \in Conns, NEW s \in SessStates, sess' = [sess EXCEPT ![c] = s],
           sess[c] \notin {"none", "backlog"}, running' \in BOOLEAN,
           UNCHANGED <<client, sent, backlog, read, entries>>,
           out' \in [Conns -> Seq({"good", "bad"})], Len(out'[c]) <= Asks[c].writes,
           \A d \in Conns \ {c} : out'[d] = out[d],
           s \in {"ready", "waiting"} <=> sess[c] \in {"ready", "waiting"},
           Sound(c)'
    PROVE  Inv'
<1>1. sess'[c] = s /\ \A d \in Conns \ {c} : sess'[d] = sess[d]
    BY DEF Inv, TypeOK
<1>2. TypeOK'
    BY DEF Inv, TypeOK
<1>3. \A d \in Conns \ {c} : Untouched(d)
    BY <1>1 DEF Untouched
<1>4. Answered' = Answered
    BY <1>1 DEF Answered, HeadWithin
<1>5. StatusCounts' /\ Queued'
    BY <1>4, CountsKept, QueueKept DEF Inv
<1>. QED
    BY <1>2, <1>3, <1>5, OneConnection

\* handle_read with an error.
LEMMA HandleReadErrorInv ==
    ASSUME Inv, NEW c \in Conns, HandleReadError(c)
    PROVE  Inv'
<1>1. /\ sess' = [sess EXCEPT ![c] = "closed"] /\ sess[c] = "reading"
      /\ running' \in BOOLEAN /\ UNCHANGED <<client, sent, backlog, read, out, entries>>
    BY DEF HandleReadError, DeleteThis, Inv, TypeOK
<1>2. Sound(c)
    BY SoundParts DEF Inv
<1>3. Sound(c)'
    BY <1>1, <1>2 DEF Sound, HeadWithin, Inv, TypeOK
<1>. QED
    BY <1>1, <1>3, SessionMoves DEF Inv, TypeOK, SessStates

\* handle_read with a request.
LEMMA HandleReadInv ==
    ASSUME Inv, NEW c \in Conns, HandleRead(c)
    PROVE  Inv'
<1>1. sess[c] = "ready" /\ UNCHANGED <<client, sent, backlog, read>>
    BY DEF HandleRead
<1>2. Sound(c)
    BY SoundParts DEF Inv
<1>3. CASE Respond(c) /\ UNCHANGED running
    BY <1>1, <1>3, RespondInv
<1>4. CASE sess' = [sess EXCEPT ![c] = "waiting"] /\ UNCHANGED <<running, out, entries>>
    <2>1. sess'[c] = "waiting"
        BY <1>4 DEF Inv, TypeOK
    <2>2. Sound(c)'
        BY <1>1, <1>2, <1>4, <2>1 DEF Sound, HeadWithin
    <2>. QED
        BY <1>1, <1>4, <2>2, SessionMoves DEF Inv, TypeOK, SessStates
<1>5. CASE running' = FALSE /\ UNCHANGED <<sess, out, entries>>
    <2>1. sess' = [sess EXCEPT ![c] = "ready"]
        BY <1>1, <1>5 DEF Inv, TypeOK
    <2>2. Sound(c)'
        BY <1>1, <1>2, <1>5 DEF Sound, HeadWithin
    <2>. QED
        BY <1>1, <1>5, <2>1, <2>2, SessionMoves DEF Inv, TypeOK, SessStates
<1>. QED
    BY <1>3, <1>4, <1>5 DEF HandleRead

\* The upstream server of a proxied request answers or fails.
LEMMA UpstreamReturnsInv ==
    ASSUME Inv, NEW c \in Conns, UpstreamReturns(c)
    PROVE  Inv'
<1>1. sess[c] = "waiting" /\ UNCHANGED <<client, sent, backlog, read>>
    BY DEF UpstreamReturns
<1>2. CASE Respond(c) /\ UNCHANGED running
    BY <1>1, <1>2, RespondInv
<1>3. CASE running' = FALSE /\ UNCHANGED <<sess, out, entries>>
    <2>1. sess' = [sess EXCEPT ![c] = "waiting"]
        BY <1>1, <1>3 DEF Inv, TypeOK
    <2>2. Sound(c)
        BY SoundParts DEF Inv
    <2>3. Sound(c)'
        BY <1>1, <1>3, <2>2 DEF Sound, HeadWithin
    <2>. QED
        BY <1>1, <1>3, <2>1, <2>3, SessionMoves DEF Inv, TypeOK, SessStates
<1>. QED
    BY <1>2, <1>3 DEF UpstreamReturns

\* handle_write.
LEMMA HandleWriteInv ==
    ASSUME Inv, NEW c \in Conns, HandleWrite(c)
    PROVE  Inv'
<1>1. /\ sess' = [sess EXCEPT ![c] = "closed"] /\ sess[c] \in {"written", "failed"}
      /\ running' \in BOOLEAN /\ UNCHANGED <<client, sent, backlog, read, out, entries>>
    BY DEF HandleWrite, DeleteThis, Inv, TypeOK
<1>2. Sound(c)
    BY SoundParts DEF Inv
<1>3. Sound(c)'
    BY <1>1, <1>2 DEF Sound, HeadWithin, Inv, TypeOK
<1>. QED
    BY <1>1, <1>3, SessionMoves DEF Inv, TypeOK, SessStates

\* The writes after the first.
LEMMA WriteMoreInv ==
    ASSUME Inv, NEW c \in Conns, WriteMore(c)
    PROVE  Inv'
<1>1. sess[c] = "writing" /\ UNCHANGED <<running, client, sent, backlog, read, entries>>
    BY DEF WriteMore
<1>2. Sound(c)
    BY SoundParts DEF Inv
<1>3. /\ out[c] \in Seq({"good", "bad"}) /\ out[c] # <<>> /\ Len(out[c]) \in Nat
      /\ Len(out[c]) < Asks[c].writes /\ Asks[c].writes \in Nat /\ Asks[c].writes # 1
      /\ HeadWithin(c, read[c])
    BY <1>1, <1>2, AsksAssumption DEF Sound, Inv, TypeOK, Ask
<1>4. ASSUME NEW piece \in {"good", "bad"}, out' = [out EXCEPT ![c] = Append(@, piece)],
             sess' = [sess EXCEPT ![c] = IF Len(out'[c]) = Asks[c].writes THEN "written" ELSE @]
      PROVE  Inv'
    <2>1. /\ out'[c] = Append(out[c], piece)
          /\ \A d \in Conns \ {c} : out'[d] = out[d]
        BY <1>4 DEF Inv, TypeOK
    <2>2. /\ out'[c] \in Seq({"good", "bad"}) /\ out'[c] # <<>>
          /\ Len(out'[c]) = Len(out[c]) + 1
        BY <1>3, <2>1
    <2>3. out' \in [Conns -> Seq({"good", "bad"})]
        BY <1>4, <2>2 DEF Inv, TypeOK
    <2>4. PICK s \in {"written", "writing"} :
            /\ sess' = [sess EXCEPT ![c] = s]
            /\ s = "writing" => Len(out'[c]) # Asks[c].writes
        BY <1>1, <1>4
    <2>5. sess'[c] = s
        BY <2>4 DEF Inv, TypeOK
    <2>6. Sound(c)'
        BY <1>1, <1>3, <2>2, <2>4, <2>5 DEF Sound, HeadWithin
    <2>7. Len(out'[c]) <= Asks[c].writes
        BY <1>3, <2>2
    <2>8. s \in SessStates /\ running' \in BOOLEAN /\ sess[c] \notin {"none", "backlog"}
          /\ (s \in {"ready", "waiting"} <=> sess[c] \in {"ready", "waiting"})
        BY <1>1 DEF Inv, TypeOK, SessStates
    <2>. QED
        BY <1>1, <2>1, <2>3, <2>4, <2>6, <2>7, <2>8, SessionMoves
<1>5. CASE sess' = [sess EXCEPT ![c] = "failed"] /\ UNCHANGED out
    <2>1. sess'[c] = "failed"
        BY <1>5 DEF Inv, TypeOK
    <2>2. Sound(c)'
        BY <1>1, <1>3, <1>5, <2>1 DEF Sound, HeadWithin
    <2>. QED
        BY <1>1, <1>5, <2>2, SessionMoves DEF Inv, TypeOK, SessStates
<1>. QED
    BY <1>4, <1>5 DEF WriteMore

-----------------------------------------------------------------------------
\* The theorems.

\* Inv holds initially and every step keeps it.
THEOREM Invariance == Spec => []Inv
<1>1. Inv /\ [Next]_vars => Inv'
    <2>. SUFFICES ASSUME Inv, [Next]_vars PROVE Inv'
        OBVIOUS
    <2>1. CASE Accept
        BY <2>1, AcceptInv
    <2>2. ASSUME NEW c \in Conns, Connect(c) \/ Send(c) \/ Leave(c) PROVE Inv'
        BY <2>2, ClientInv
    <2>3. ASSUME NEW c \in Conns, ServerStep(c) \/ UpstreamReturns(c) PROVE Inv'
        BY <2>3, ReadSomeInv, HandleReadErrorInv, HandleReadInv, WriteMoreInv,
           HandleWriteInv, UpstreamReturnsInv DEF ServerStep, HandlerStep
    <2>4. CASE UNCHANGED vars
        <3>1. TypeOK' /\ Answered' = Answered
            BY <2>4 DEF vars, Inv, TypeOK, Answered, HeadWithin
        <3>2. (HandlersSeeHeads /\ ShortAnswersArrive /\ Unread)'
            BY <2>4 DEF vars, Inv, HandlersSeeHeads, ShortAnswersArrive, Unread, Answered, HeadWithin
        <3>3. (WritesMade /\ Queued)'
            BY <2>4 DEF vars, Inv, WritesMade, Queued
        <3>4. StatusCounts'
            BY <2>4, <3>1, CountsKept DEF vars, Inv
        <3>. QED
            BY <3>1, <3>2, <3>3, <3>4 DEF Inv
    <2>. QED
        BY <2>1, <2>2, <2>3, <2>4 DEF Next
<1>. QED
    BY <1>1, InitInv, PTL DEF Spec

\* Every variable keeps to its type; the answer of a request never takes more
\* writes than it has (session.cc, server.cc).
THEOREM TypeCorrect == Spec => []TypeOK
BY Invariance, PTL DEF Inv

\* However the headers of a request are cut into packets, no handler runs
\* before async_read_until has found their end (session.cc:28).
THEOREM HeadsFirst == Spec => []HandlersSeeHeads
BY Invariance, PTL DEF Inv

\* The status list counts each answered request once, in the one entry of its
\* url and code, whichever way its connection ended (session.cc:81).
THEOREM EveryAnswerCounted == Spec => []StatusCounts
BY Invariance, PTL DEF Inv

\* An answer that takes one write is whole when its session is closed, whatever
\* the other connections do (session.cc:92).
THEOREM ShortAnswers == Spec => []ShortAnswersArrive
BY Invariance, PTL DEF Inv

-----------------------------------------------------------------------------
(* The sessions implement AnswerLog.                                       *)

\* The answered connections that the line l of the status page counts.
On(l) == {d \in Answered : Label[d] = l}

\* What a line of the status page shows is how many were answered on it.
TrueLines == \A c \in Conns : Hits[Label[c]] = Cardinality(On(Label[c]))

LEMMA LineCounts == Inv => TrueLines
<1>. SUFFICES ASSUME Inv, NEW c \in Conns
              PROVE  Hits[Label[c]] = Cardinality(On(Label[c]))
  BY DEF TrueLines
<1>0. TypeOK /\ StatusCounts
  BY DEF Inv
<1>. DEFINE u == Asks[c].url
            k == Asks[c].code
            lines == Counted(entries, u, k)
<1>1. Hits[Label[c]] = IF lines = {} THEN 0 ELSE entries[Min(lines)].count
  <2>1. Label[c] = <<u, k>> /\ Label[c][1] = u /\ Label[c][2] = k
    BY DEF Label
  <2>. QED BY <2>1 DEF Hits
<1>2. On(Label[c]) = {d \in Answered : Asked(d, u, k)}
  BY DEF On, Label, Asked, Answered
<1>3. CASE lines = {}
  <2>1. On(Label[c]) = {}
    BY <1>0, <1>2, <1>3 DEF StatusCounts, Asked, Counted
  <2>. QED BY <1>1, <1>3, <2>1, FS_EmptySet
<1>4. CASE lines # {}
  <2>1. PICK i \in lines : TRUE
    BY <1>4
  <2>2. i \in DOMAIN entries /\ i \in Nat /\ entries[i].url = u /\ entries[i].code = k
    BY <1>0, <2>1 DEF Counted, TypeOK
  <2>3. \A j \in lines : j = i
    BY <1>0, <2>2 DEF Counted, StatusCounts
  <2>4. Min(lines) = i
    <3>1. i \in lines /\ \A y \in lines : i <= y
      BY <2>1, <2>2, <2>3
    <3>. HIDE DEF lines
    <3>. QED BY <2>3, <3>1 DEF Min
  <2>5. entries[i].count = Cardinality({d \in Answered : Asked(d, u, k)})
    BY <1>0, <2>2 DEF StatusCounts
  <2>. QED BY <1>1, <1>2, <1>4, <2>4, <2>5
<1>. QED BY <1>3, <1>4

\* The end of handle_read is the one step that answers and counts.
LEMMA AnswerStep ==
    ASSUME Inv, Inv', NEW c \in Conns, running, sess[c] \in {"ready", "waiting"}, Respond(c),
           UNCHANGED <<running, read>>
    PROVE  Log!Answer(c)
<1>1. HeadWithin(c, read[c])
  BY DEF Inv, HandlersSeeHeads
<1>2. PICK s \in {"written", "writing", "failed"} : sess' = [sess EXCEPT ![c] = s]
  BY DEF Respond
<1>3. sess'[c] = s /\ \A d \in Conns \ {c} : sess'[d] = sess[d]
  BY <1>2 DEF Inv, TypeOK
<1>4. c \notin Answered /\ Answered' = Answered \union {c}
  BY <1>1, <1>3 DEF Answered, HeadWithin
<1>5. c \notin Over /\ Over' = Over
  BY <1>3 DEF Over
<1>6. Hits' = [Hits EXCEPT ![Label[c]] = @ + 1]
  <2>. DEFINE L == {Label[d] : d \in Conns}
  <2>1. ASSUME NEW d \in Conns
        PROVE  Hits'[Label[d]] = IF Label[d] = Label[c] THEN Hits[Label[d]] + 1 ELSE Hits[Label[d]]
    <3>1. Hits[Label[d]] = Cardinality(On(Label[d]))
      BY LineCounts DEF TrueLines
    <3>2. Hits'[Label[d]] = Cardinality({e \in Answered' : Label[e] = Label[d]})
      <4>1. TrueLines'
        BY LineCounts, PTL
      <4>. QED BY <4>1 DEF TrueLines, On, Label
    <3>3. CASE Label[d] = Label[c]
      <4>1. {e \in Answered' : Label[e] = Label[d]} = On(Label[d]) \union {c}
        BY <1>4, <3>3 DEF On
      <4>2. IsFiniteSet(On(Label[d])) /\ c \notin On(Label[d])
        BY <1>4, ConnsAssumption, FS_Subset DEF On, Answered
      <4>3. Cardinality(On(Label[d]) \union {c}) = Cardinality(On(Label[d])) + 1
        BY <4>2, FS_AddElement
      <4>. QED BY <3>1, <3>2, <3>3, <4>1, <4>3
    <3>4. CASE Label[d] # Label[c]
      <4>1. {e \in Answered' : Label[e] = Label[d]} = On(Label[d])
        BY <1>4, <3>4 DEF On
      <4>. QED BY <3>1, <3>2, <3>4, <4>1
    <3>. QED BY <3>3, <3>4
  <2>2. Hits = [l \in L |-> Hits[l]] /\ Hits' = [l \in L |-> Hits'[l]]
    BY DEF Hits, Label
  <2>3. Hits' = [l \in L |-> IF l = Label[c] THEN Hits[l] + 1 ELSE Hits[l]]
    BY <2>1, <2>2
  <2>. QED BY <2>2, <2>3
<1>. QED BY <1>4, <1>5, <1>6 DEF Log!Answer

\* A step that answers nothing ends a connection, or the process, or neither.
LEMMA OtherStep ==
    ASSUME Answered' = Answered, entries' = entries, NEW c \in Conns,
           \/ Over' = Over /\ running' = running
           \/ Over' = Over /\ running /\ running' = FALSE
           \/ running /\ c \notin Over /\ Over' = Over \union {c} /\ running' \in BOOLEAN
    PROVE  [Log!Next]_(Log!vars)
<1>1. Hits' = Hits
  BY DEF Hits, Label
<1>. QED BY <1>1 DEF Log!Next, Log!vars, Log!Die, Log!End

LEMMA LogStep ==
    ASSUME Inv, Inv', [Next]_vars
    PROVE  [Log!Next]_(Log!vars)
<1>1. ASSUME NEW c \in Conns, Connect(c) \/ Send(c) \/ Leave(c)
      PROVE  [Log!Next]_(Log!vars)
  <2>1. UNCHANGED <<read, entries, running>>
    BY <1>1 DEF Connect, Send, Leave
  <2>2. \A d \in Conns : sess'[d] = sess[d] \/ (sess[d] = "none" /\ sess'[d] = "backlog")
    <3>1. CASE Connect(c)
      <4>1. sess[c] = "none" /\ sess' = [sess EXCEPT ![c] = "backlog"]
        BY <3>1 DEF Connect, Inv, Queued
      <4>. QED BY <4>1 DEF Inv, TypeOK
    <3>2. CASE Send(c) \/ Leave(c)
      BY <3>2 DEF Send, Leave
    <3>. QED BY <1>1, <3>1, <3>2
  <2>3. Answered' = Answered /\ Over' = Over
    BY <2>1, <2>2 DEF Answered, Over, HeadWithin, Inv, Unread
  <2>. QED BY <2>1, <2>3, OtherStep
<1>2. CASE Accept
  <2>1. PICK c \in Conns : c = Head(backlog) /\ sess[c] = "backlog"
    <3>1. backlog # <<>> /\ backlog \in Seq(Conns)
      BY <1>2 DEF Accept, Inv, TypeOK
    <3>2. Head(backlog) = backlog[1] /\ 1 \in DOMAIN backlog /\ Head(backlog) \in Conns
      BY <3>1
    <3>. QED BY <3>2 DEF Inv, Queued
  <2>2. UNCHANGED <<read, entries, running>> /\ sess' = [sess EXCEPT ![c] = "reading"]
    BY <1>2, <2>1 DEF Accept
  <2>3. sess'[c] = "reading" /\ \A d \in Conns \ {c} : sess'[d] = sess[d]
    BY <2>2 DEF Inv, TypeOK
  <2>4. Answered' = Answered /\ Over' = Over
    BY <2>1, <2>2, <2>3 DEF Answered, Over, HeadWithin, Inv, Unread
  <2>. QED BY <2>2, <2>4, OtherStep
<1>3. ASSUME NEW c \in Conns, ReadSome(c)
      PROVE  [Log!Next]_(Log!vars)
  <2>1. PICK n \in read[c] + 1 .. sent[c] :
          /\ read' = [read EXCEPT ![c] = n]
          /\ sess' = [sess EXCEPT ![c] = IF HeadWithin(c, n) THEN "ready" ELSE @]
    BY <1>3 DEF ReadSome
  <2>2. sess[c] = "reading" /\ UNCHANGED <<entries, running>>
    BY <1>3 DEF ReadSome
  <2>3. /\ read'[c] = n /\ sess'[c] = IF HeadWithin(c, n) THEN "ready" ELSE "reading"
        /\ \A d \in Conns \ {c} : read'[d] = read[d] /\ sess'[d] = sess[d]
    BY <2>1, <2>2 DEF Inv, TypeOK
  <2>4. Answered' = Answered /\ Over' = Over
    BY <2>2, <2>3 DEF Answered, Over, HeadWithin, Inv, Unread
  <2>. QED BY <2>2, <2>4, OtherStep
<1>4. ASSUME NEW c \in Conns, HandleReadError(c) \/ HandleWrite(c)
      PROVE  [Log!Next]_(Log!vars)
  <2>1. /\ running /\ sess[c] \in {"reading", "written", "failed"}
        /\ sess' = [sess EXCEPT ![c] = "closed"] /\ running' \in BOOLEAN
        /\ UNCHANGED <<read, entries>>
    BY <1>4 DEF HandleReadError, HandleWrite, DeleteThis, Idle, Inv, TypeOK
  <2>2. sess'[c] = "closed" /\ \A d \in Conns \ {c} : sess'[d] = sess[d]
    BY <2>1 DEF Inv, TypeOK
  <2>3. Answered' = Answered /\ Over' = Over \union {c} /\ c \notin Over
    BY <2>1, <2>2 DEF Answered, Over, HeadWithin
  <2>. QED BY <2>1, <2>3, OtherStep
<1>5. ASSUME NEW c \in Conns, running, sess[c] \in {"ready", "waiting"},
             UNCHANGED <<client, sent, backlog, read>>, Respond(c), UNCHANGED running
      PROVE  [Log!Next]_(Log!vars)
  BY <1>5, AnswerStep DEF Log!Next
<1>6. ASSUME NEW c \in Conns, running, running' = FALSE, UNCHANGED <<sess, read, entries>>
      PROVE  [Log!Next]_(Log!vars)
  <2>1. Answered' = Answered /\ Over' = Over
    BY <1>6 DEF Answered, Over, HeadWithin
  <2>. QED BY <1>6, <2>1, OtherStep
<1>7. ASSUME NEW c \in Conns, HandleRead(c)
      PROVE  [Log!Next]_(Log!vars)
  <2>1. running /\ sess[c] = "ready" /\ UNCHANGED <<client, sent, backlog, read>>
    BY <1>7 DEF HandleRead, Idle
  <2>2. CASE sess' = [sess EXCEPT ![c] = "waiting"] /\ UNCHANGED <<running, out, entries>>
    <3>1. sess'[c] = "waiting" /\ \A d \in Conns \ {c} : sess'[d] = sess[d]
      BY <2>2 DEF Inv, TypeOK
    <3>2. Answered' = Answered /\ Over' = Over
      BY <2>1, <3>1 DEF Answered, Over, HeadWithin
    <3>. QED BY <2>2, <3>2, OtherStep
  <2>. QED BY <1>5, <1>6, <1>7, <2>1, <2>2 DEF HandleRead
<1>8. ASSUME NEW c \in Conns, UpstreamReturns(c)
      PROVE  [Log!Next]_(Log!vars)
  BY <1>5, <1>6, <1>8 DEF UpstreamReturns
<1>9. ASSUME NEW c \in Conns, WriteMore(c)
      PROVE  [Log!Next]_(Log!vars)
  <2>1. sess[c] = "writing" /\ UNCHANGED <<running, read, entries>>
    BY <1>9 DEF WriteMore
  <2>2. PICK s \in {"writing", "written", "failed"} : sess' = [sess EXCEPT ![c] = s]
    BY <1>9, <2>1 DEF WriteMore
  <2>3. sess'[c] = s /\ \A d \in Conns \ {c} : sess'[d] = sess[d]
    BY <2>2 DEF Inv, TypeOK
  <2>4. Answered' = Answered /\ Over' = Over
    BY <2>1, <2>3 DEF Answered, Over, HeadWithin
  <2>. QED BY <2>1, <2>4, OtherStep
<1>10. CASE UNCHANGED vars
  <2>1. Answered' = Answered /\ Over' = Over /\ Hits' = Hits /\ running' = running
    BY <1>10 DEF vars, Answered, Over, HeadWithin, Hits, Label
  <2>. QED BY <2>1 DEF Log!vars
<1>. QED BY <1>1, <1>2, <1>3, <1>4, <1>7, <1>8, <1>9, <1>10 DEF Next, ServerStep, HandlerStep

LEMMA LogInit == Init => Log!Init
<1>. SUFFICES ASSUME Init PROVE Log!Init
  OBVIOUS
<1>1. running = TRUE /\ entries = <<>> /\ \A c \in Conns : sess[c] = "none"
  BY DEF Init
<1>2. Answered = {} /\ Over = {}
  BY <1>1, InitInv DEF Answered, Over, Inv, Unread
<1>3. Hits = [l \in {Label[c] : c \in Conns} |-> 0]
  <2>1. \A u, k : Counted(entries, u, k) = {}
    BY <1>1 DEF Counted
  <2>. QED BY <2>1 DEF Hits
<1>. QED BY <1>1, <1>2, <1>3 DEF Log!Init

\* For any connections, requests and number of descriptors the sessions
\* implement AnswerLog: a request is answered and counted once, in one step, by
\* a server that is up and for a connection that is not over
\* (session::handle_read, StatusObject::addStatusEntry).
THEOREM AnswersAreLogged == Spec => ImplementsLog
<1>1. Init => Log!Init
  BY LogInit
<1>2. Inv /\ Inv' /\ [Next]_vars => [Log!Next]_(Log!vars)
  BY LogStep
<1>. QED BY <1>1, <1>2, Invariance, PTL DEF Spec, ImplementsLog, Log!Spec

-----------------------------------------------------------------------------
(* The total of the status page.                                           *)

\* The requests answered that the entries at the places I count.
CountedAt(I) ==
    {c \in Answered : \E i \in I : Asked(c, entries[i].url, entries[i].code)}

\* The recursion by which getStatusCalls sums up the counts.
Sums(f) ==
    f = [I \in SUBSET DOMAIN entries |->
           IF I = {} THEN 0
           ELSE LET i == CHOOSE x \in I : TRUE IN entries[i].count + f[I \ {i}]]

\* getStatusCalls takes its value from that recursion.
LEMMA CallsAreSums == getStatusCalls(entries) = (CHOOSE f : Sums(f))[DOMAIN entries]
BY DEF getStatusCalls, MapThenSumSet, MapThenFoldSet, Sums

\* One entry taken out of a set of entries takes its count with it.
LEMMA OneEntryCounts ==
    ASSUME Inv, NEW I \in SUBSET DOMAIN entries, NEW i \in I
    PROVE  /\ Cardinality(CountedAt(I)) = entries[i].count + Cardinality(CountedAt(I \ {i}))
           /\ Cardinality(CountedAt(I)) \in Nat
<1>. DEFINE A == CountedAt({i})
            B == CountedAt(I \ {i})
<1>1. IsFiniteSet(Answered)
  BY ConnsAssumption, FS_Subset DEF Answered
<1>2. A \in SUBSET Answered /\ B \in SUBSET Answered
  BY DEF CountedAt
<1>3. CountedAt(I) = A \union B
  BY DEF CountedAt
<1>4. A \intersect B = {}
  <2>. SUFFICES ASSUME NEW c \in A, c \in B PROVE FALSE
    OBVIOUS
  <2>1. Asked(c, entries[i].url, entries[i].code)
    BY DEF CountedAt
  <2>2. PICK j \in I \ {i} : Asked(c, entries[j].url, entries[j].code)
    BY DEF CountedAt
  <2>3. i \in DOMAIN entries /\ j \in DOMAIN entries
    OBVIOUS
  <2>4. entries[i].url = entries[j].url /\ entries[i].code = entries[j].code
    BY <2>1, <2>2 DEF Asked
  <2>5. i = j
    BY <2>3, <2>4 DEF Inv, StatusCounts
  <2>. QED BY <2>2, <2>5
<1>5. A = {c \in Answered : Asked(c, entries[i].url, entries[i].code)}
  BY DEF CountedAt
<1>6. Cardinality(A) = entries[i].count
  <2>1. i \in DOMAIN entries /\ StatusCounts
    BY DEF Inv
  <2>2. entries[i].count = Cardinality({c \in Answered : Asked(c, entries[i].url, entries[i].code)})
    BY <2>1 DEF StatusCounts
  <2>. QED BY <1>5, <2>2
<1>. HIDE DEF A, B
<1>7. IsFiniteSet(A) /\ IsFiniteSet(B)
  BY <1>1, <1>2, FS_Subset
<1>8. Cardinality(A \union B) = Cardinality(A) + Cardinality(B) - Cardinality({})
  BY <1>4, <1>7, FS_Union
<1>9. Cardinality(A) \in Nat /\ Cardinality(B) \in Nat /\ Cardinality({}) = 0
  BY <1>7, FS_CardinalityType, FS_EmptySet
<1>. QED BY <1>3, <1>6, <1>8, <1>9 DEF B

\* Counting the answered requests satisfies the recursion ...
LEMMA CountingSums == Inv => \E f : Sums(f)
<1>. SUFFICES ASSUME Inv PROVE \E f : Sums(f)
  OBVIOUS
<1>. DEFINE f == [I \in SUBSET DOMAIN entries |-> Cardinality(CountedAt(I))]
<1>1. ASSUME NEW I \in SUBSET DOMAIN entries
      PROVE  f[I] = IF I = {} THEN 0
                    ELSE LET i == CHOOSE x \in I : TRUE IN entries[i].count + f[I \ {i}]
  <2>1. CASE I = {}
    <3>1. CountedAt({}) = {}
      BY DEF CountedAt
    <3>. QED BY <2>1, <3>1, FS_EmptySet
  <2>2. CASE I # {}
    <3>. DEFINE i == CHOOSE x \in I : TRUE
    <3>1. i \in I
      BY <2>2
    <3>2. f[I] = Cardinality(CountedAt(I)) /\ f[I \ {i}] = Cardinality(CountedAt(I \ {i}))
      OBVIOUS
    <3>. HIDE DEF i
    <3>3. Cardinality(CountedAt(I)) = entries[i].count + Cardinality(CountedAt(I \ {i}))
      BY <3>1, OneEntryCounts
    <3>. QED BY <2>2, <3>2, <3>3 DEF i
  <2>. QED BY <2>1, <2>2
<1>2. Sums(f)
  <2>1. f = [I \in SUBSET DOMAIN entries |-> f[I]]
    OBVIOUS
  <2>. HIDE DEF f
  <2>. QED BY <1>1, <2>1 DEF Sums
<1>. QED BY <1>2

\* ... and nothing else does.
LEMMA SumsCount ==
    ASSUME Inv, NEW f, Sums(f), NEW I \in SUBSET DOMAIN entries
    PROVE  f[I] = Cardinality(CountedAt(I))
<1>. DEFINE Right(J) == f[J] = Cardinality(CountedAt(J))
            N == {n \in Nat : \A J \in SUBSET DOMAIN entries : Cardinality(J) = n => Right(J)}
<1>0. \A J \in SUBSET DOMAIN entries : IsFiniteSet(J) /\ Cardinality(J) \in Nat
  <2>1. IsFiniteSet(DOMAIN entries)
    <3>1. DOMAIN entries = 1 .. Len(entries) /\ Len(entries) \in Int
      BY DEF Inv, TypeOK
    <3>. QED BY <3>1, FS_Interval
  <2>. QED BY <2>1, FS_Subset, FS_CardinalityType
<1>1. 0 \in N
  <2>1. \A J \in SUBSET DOMAIN entries : Cardinality(J) = 0 => J = {}
    BY <1>0, FS_EmptySet
  <2>2. Right({})
    <3>1. CountedAt({}) = {}
      BY DEF CountedAt
    <3>2. f[{}] = 0
      BY DEF Sums
    <3>. QED BY <3>1, <3>2, FS_EmptySet
  <2>. QED BY <2>1, <2>2
<1>2. ASSUME NEW n \in N PROVE n + 1 \in N
  <2>. SUFFICES ASSUME NEW J \in SUBSET DOMAIN entries, Cardinality(J) = n + 1
                PROVE  f[J] = Cardinality(CountedAt(J))
    OBVIOUS
  <2>. DEFINE i == CHOOSE x \in J : TRUE
              K == J \ {i}
  <2>1. J # {}
    BY FS_EmptySet
  <2>2. i \in J
    BY <2>1
  <2>3. f[J] = entries[i].count + f[K]
    BY <2>1 DEF Sums
  <2>. HIDE DEF i
  <2>4. K \in SUBSET DOMAIN entries /\ Cardinality(K) = n
    BY <1>0, <2>2, FS_RemoveElement
  <2>5. f[K] = Cardinality(CountedAt(K))
    BY <2>4
  <2>. QED BY <2>2, <2>3, <2>5, OneEntryCounts
<1>3. N = Nat
  <2>. HIDE DEF N
  <2>1. N \in SUBSET Nat
    BY DEF N
  <2>. QED BY <1>1, <1>2, <2>1, NatSetInduction
<1>. QED BY <1>0, <1>3

LEMMA CountsAddUp == Inv => StatusTotal
<1>. SUFFICES ASSUME Inv PROVE getStatusCalls(entries) = Cardinality(Answered)
  BY DEF StatusTotal
<1>1. Sums(CHOOSE f : Sums(f))
  BY CountingSums
<1>2. (CHOOSE f : Sums(f))[DOMAIN entries] = Cardinality(CountedAt(DOMAIN entries))
  BY <1>1, SumsCount
<1>3. CountedAt(DOMAIN entries) = Answered
  BY DEF CountedAt, Inv, StatusCounts
<1>. QED BY <1>2, <1>3, CallsAreSums

\* For any connections and requests the total of the status page is the number of
\* requests that were answered (StatusObject::getStatusCalls).
THEOREM TotalIsAnswered == Spec => []StatusTotal
BY Invariance, CountsAddUp, PTL
=============================================================================
