------------------------------ MODULE DemoCard ------------------------------
(***************************************************************************)
(* DemoStore: what the demo card of the options page shows.  A run asks    *)
(* the background to launch the demo and then polls the state of the       *)
(* launch until it settles; a generation tells the answers of the current  *)
(* run from those of an earlier one.  What the background answers is       *)
(* DemoLaunch's subject: here it may answer anything it ever answers.      *)
(***************************************************************************)
EXTENDS Integers, FiniteSets

CONSTANTS MaxRuns,      \* bound: runs and resets
          MaxPolls      \* bound: DEMO_UI_WAIT_LIMIT_MS, in polls

ASSUME CardAssumption == MaxRuns \in Nat /\ MaxPolls \in Nat \ {0}

VARIABLES
    status,         \* DemoUiStatus
    generation,
    poll,           \* the scheduled poll, at most one
    awaited         \* answers of the background awaited: RUN_DEMO or GET_DEMO_LAUNCH_STATE

cardVars == <<status, generation, poll, awaited>>

NoPoll == [generation |-> 0, polls |-> 0]
Requests == [kind : {"run", "state"}, generation : 1..MaxRuns, polls : 0..MaxPolls]

CardTypeOK ==
    /\ status \in {"idle", "running", "applied", "failed"}
    /\ generation \in 0..MaxRuns
    /\ poll \in {NoPoll} \cup [generation : 1..MaxRuns, polls : 0..(MaxPolls - 1)]
    /\ awaited \subseteq Requests

CardInit ==
    /\ status = "idle" /\ generation = 0
    /\ poll = NoPoll /\ awaited = {}

\* pollUntilSettled: the timer of the next poll.
Schedule(g, polls) == poll' = [generation |-> g, polls |-> polls]

\* run, up to the request; a run while one is running is refused.
RunDemo ==
    /\ status # "running" /\ generation < MaxRuns
    /\ generation' = generation + 1
    /\ status' = "running"
    /\ poll' = NoPoll
    /\ awaited' = awaited \cup {[kind |-> "run", generation |-> generation + 1, polls |-> 0]}

\* Mutant: the generation is not compared.
NeverDropped(a) == FALSE

\* An answer of an earlier generation is dropped.
Dropped(a) == a.generation # generation

\* run, after the request: refused (or the message failed), or launched.
RunAnswered(a) ==
    /\ a \in awaited /\ a.kind = "run"
    /\ awaited' = awaited \ {a}
    /\ UNCHANGED generation
    /\ \/ Dropped(a) /\ UNCHANGED <<status, poll>>
       \/ ~Dropped(a) /\ status' = "failed" /\ UNCHANGED poll
       \/ ~Dropped(a) /\ UNCHANGED status /\ Schedule(a.generation, 0)

\* The timer fires: the state of the launch is asked for.
PollFires ==
    /\ poll # NoPoll
    /\ poll' = NoPoll
    /\ awaited' = awaited \cup {[kind |-> "state", generation |-> poll.generation, polls |-> poll.polls]}
    /\ UNCHANGED <<status, generation>>

\* The state: applied; failed or vanished, or the message failed; or waiting,
\* and then the next poll unless this was the last one.
StateAnswered(a) ==
    /\ a \in awaited /\ a.kind = "state"
    /\ awaited' = awaited \ {a}
    /\ UNCHANGED generation
    /\ \/ Dropped(a) /\ UNCHANGED <<status, poll>>
       \/ ~Dropped(a) /\ status' \in {"applied", "failed"} /\ UNCHANGED poll
       \/ /\ ~Dropped(a)
          /\ IF a.polls + 1 >= MaxPolls
             THEN status' = "failed" /\ UNCHANGED poll
             ELSE UNCHANGED status /\ Schedule(a.generation, a.polls + 1)

\* reset, called with the first rule: whatever is on its way is of an earlier
\* generation from now on.
ResetCard ==
    /\ generation < MaxRuns
    /\ generation' = generation + 1
    /\ poll' = NoPoll
    /\ status' = "idle"
    /\ UNCHANGED awaited

CardStep ==
    \/ PollFires
    \/ \E a \in awaited : RunAnswered(a) \/ StateAnswered(a)

\* Exactly one thing moves a running card on, a poll or an answer, and nothing
\* of this generation is left over once it has settled.
CardMovesOn ==
    LET mine == {a \in awaited : ~Dropped(a)}
    IN  Cardinality(mine) + (IF poll # NoPoll THEN 1 ELSE 0)
            = (IF status = "running" THEN 1 ELSE 0)
=============================================================================
