---------------------------- MODULE DurableState ----------------------------
(***************************************************************************)
(* What saving the background's rules promises, whatever the throttling    *)
(* and the order of writes: what is on disk is always a state the memory   *)
(* was in as a whole, later saves are never older ones, and a restart      *)
(* comes back to such a state, losing only the newest changes.             *)
(***************************************************************************)
EXTENDS Naturals, Sequences

CONSTANT Down      \* the memory of a stopped background

VARIABLES
    memory,        \* the state in memory, or Down
    log,           \* the states memory went through, oldest first
    saved,         \* the state on disk
    savedAt        \* its place in log

vars == <<memory, log, saved, savedAt>>

Init ==
    /\ memory = Down
    /\ Len(log) = 1
    /\ saved = log[1]
    /\ savedAt = 1

Change ==
    /\ memory # Down
    /\ memory' \notin {memory, Down}
    /\ log' = Append(log, memory')
    /\ UNCHANGED <<saved, savedAt>>

Save ==
    \E n \in savedAt..Len(log) :
        /\ savedAt' = n
        /\ saved' = log[n]
        /\ UNCHANGED <<memory, log>>

Crash ==
    \E n \in savedAt..Len(log) :
        /\ log' = SubSeq(log, 1, n)
        /\ memory' = Down
        /\ UNCHANGED <<saved, savedAt>>

Load ==
    /\ memory = Down
    /\ memory' = saved
    /\ saved = log[Len(log)]
    /\ UNCHANGED <<log, saved, savedAt>>

Next == Change \/ Save \/ Crash \/ Load

Spec == Init /\ [][Next]_vars
=============================================================================
