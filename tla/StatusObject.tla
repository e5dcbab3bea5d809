---------------------------- MODULE StatusObject ----------------------------
(***************************************************************************)
(* status_obj.cc: the list of (count, url, code) entries that the status   *)
(* page shows.  It lives as long as the process.                           *)
(***************************************************************************)
EXTENDS Naturals, Sequences, FiniteSetsExt

Entry == [count : Nat \ {0}, url : STRING, code : STRING]

\* Where the list counts a url and a code.
Counted(entries, url, code) ==
    {i \in DOMAIN entries : entries[i].url = url /\ entries[i].code = code}

\* Faults: a new entry starts at zero; no return after the entry was found.
StartAtZero(entries, url, code) ==
    IF Counted(entries, url, code) = {}
    THEN Append(entries, [count |-> 0, url |-> url, code |-> code])
    ELSE [i \in DOMAIN entries |->
            IF i \in Counted(entries, url, code)
            THEN [entries[i] EXCEPT !.count = @ + 1] ELSE entries[i]]
NoReturn(entries, url, code) ==
    Append([i \in DOMAIN entries |->
              IF i \in Counted(entries, url, code)
              THEN [entries[i] EXCEPT !.count = @ + 1] ELSE entries[i]],
           [count |-> 1, url |-> url, code |-> code])

\* The first entry with this url and code counts one more; without one, a new
\* entry goes to the end.
addStatusEntry(entries, url, code) ==
    IF Counted(entries, url, code) = {}
    THEN Append(entries, [count |-> 1, url |-> url, code |-> code])
    ELSE [entries EXCEPT ![Min(Counted(entries, url, code))].count = @ + 1]

\* Fault: the number of entries in the place of the sum of their counts.
EntryCount(entries) == Len(entries)

\* The total that the status page shows.
getStatusCalls(entries) ==
    MapThenSumSet(LAMBDA i : entries[i].count, DOMAIN entries)
=============================================================================
