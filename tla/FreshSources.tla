---------------------------- MODULE FreshSources ----------------------------
(***************************************************************************)
(* What the source cache of the extension's background promises to the     *)
(* pages, with nothing of how it keeps the promise.  Files on disk get     *)
(* newer versions; a rule may be invalidated (its paths, flags or site     *)
(* changed) and the whole cache may be cleared; a page asking for a rule   *)
(* is answered either with nothing or with contents that the files really  *)
(* had at some moment since the rule was last invalidated.                 *)
(***************************************************************************)
EXTENDS Naturals

CONSTANTS
    Rules,       \* rule identifiers
    Paths,       \* local files
    Requests,    \* page requests, each answered at most once
    Kinds,       \* the two sources of a rule: "js" and "css"
    None,      \* the source of that kind is inactive
    NoAnswer,    \* the request is not answered yet
    Refused,     \* the request was answered with nothing
    MaxEdits     \* bound: versions a file goes through

VARIABLES
    disk,        \* the version each file has now
    since,       \* the version each file had when the rule was last invalidated
    answers      \* what each request was answered

vars == <<disk, since, answers>>

Versions == 0..MaxEdits

Init ==
    /\ disk = [p \in Paths |-> 0]
    /\ since = [r \in Rules |-> [p \in Paths |-> 0]]
    /\ answers = [q \in Requests |-> NoAnswer]

Edit(p) ==
    /\ disk[p] < MaxEdits
    /\ disk' = [disk EXCEPT ![p] = @ + 1]
    /\ UNCHANGED <<since, answers>>

Invalidate(rs) ==
    /\ since' = [r \in Rules |-> IF r \in rs THEN disk ELSE since[r]]
    /\ UNCHANGED <<disk, answers>>

\* Every active source of the answer is a version the file had since the
\* rule's last invalidation.
FreshEnough(a) ==
    \A k \in Kinds : a.src[k] # None =>
        /\ since[a.rule][a.src[k]] <= a.content[k]
        /\ a.content[k] <= disk[a.src[k]]

Answer(qs) ==
    /\ \A q \in qs : /\ answers[q] = NoAnswer
                     /\ answers'[q] # NoAnswer
                     /\ answers'[q] # Refused => FreshEnough(answers'[q])
    /\ \A q \in Requests \ qs : answers'[q] = answers[q]
    /\ UNCHANGED <<disk, since>>

Next ==
    \/ \E p \in Paths : Edit(p)
    \/ \E rs \in SUBSET Rules : Invalidate(rs)
    \/ \E qs \in SUBSET Requests : Answer(qs)

Spec == Init /\ [][Next]_vars
=============================================================================
