------------------------------ MODULE Settings ------------------------------
(***************************************************************************)
(* SettingsService: the settings a background instance holds in memory,    *)
(* their durable copy, and the chain of promises (settingsWrite) that      *)
(* applies the updates one after the other.                                *)
(*                                                                         *)
(* A write is queued, given to storage.set with the settings it computes   *)
(* at that moment (next), done by the browser (landed), and then settled:  *)
(* the service assigns its memory and its caller resumes.                  *)
(***************************************************************************)
EXTENDS Naturals, Sequences, SequencesExt

CONSTANTS Pages,    \* the pages that change the access method
          None

VARIABLES settings, \* the settings in memory
          stored,   \* the settings in the browser's storage
          writes    \* the chain, oldest first

settingsVars == <<settings, stored, writes>>

Methods == {"browser", "native"}
AppSettings == [enabled : BOOLEAN, method : Methods]
Updates == ({"enabled"} \X BOOLEAN) \cup ({"method"} \X Methods)
Writes == [update : Updates, from : Pages \cup {None},
           next : AppSettings \cup {None}, landed : BOOLEAN]

SettingsTypeOK ==
    /\ settings \in AppSettings
    /\ stored \in AppSettings
    /\ writes \in Seq(Writes)

Updated(s, update) == [s EXCEPT ![update[1]] = update[2]]

SettingsInit ==
    /\ settings = [enabled |-> TRUE, method |-> "browser"]
    /\ stored = settings
    /\ writes = << >>

queueSettingsWrite(update, page) ==
    /\ writes' = Append(writes, [update |-> update, from |-> page,
                                 next |-> None, landed |-> FALSE])
    /\ UNCHANGED <<settings, stored>>

\* Mutant: a write does not wait for the one before it.
MayIssueAtOnce(i) == \A j \in 1..(i - 1) : writes[j].next # None

\* A write starts when the one before it has settled.
MayIssue(i) == i = 1

IssueWrite ==
    \E i \in DOMAIN writes :
        /\ MayIssue(i) /\ writes[i].next = None
        /\ writes' = [writes EXCEPT ![i].next = Updated(settings, writes[i].update)]
        /\ UNCHANGED <<settings, stored>>

LandWrite ==
    \E i \in DOMAIN writes :
        /\ writes[i].next # None /\ ~writes[i].landed
        /\ \A j \in 1..(i - 1) : writes[j].landed
        /\ stored' = writes[i].next
        /\ writes' = [writes EXCEPT ![i].landed = TRUE]
        /\ UNCHANGED settings

Landed == writes # << >> /\ Head(writes).landed

SettleWrite ==
    /\ Landed
    /\ settings' = Updated(settings, Head(writes).update)
    /\ writes' = Tail(writes)
    /\ UNCHANGED stored

Issued == writes # << >> /\ Head(writes).next # None /\ ~Head(writes).landed

\* Mutant: the memory is assigned before the write is known to be done.
FailWriteAssigned ==
    /\ Issued
    /\ settings' = Updated(settings, Head(writes).update)
    /\ writes' = Tail(writes)
    /\ UNCHANGED stored

\* storage.set rejects; the chain goes on.
FailWrite ==
    /\ Issued
    /\ writes' = Tail(writes)
    /\ UNCHANGED <<settings, stored>>

\* The background is unloaded and init of the next instance reads the storage:
\* a write already given to the browser may be done, the queued ones are lost.
ReloadSettings ==
    /\ \E s \in {stored} \cup (IF Issued THEN {Head(writes).next} ELSE {}) :
          /\ stored' = s
          /\ settings' = s
    /\ writes' = << >>
-----------------------------------------------------------------------------
\* A write changes the one setting it was asked to change, with the value that
\* was asked for: a toggle of the popup queued behind a change of the access
\* method, or before it, is never undone by the other's older copy.
OnlyItsSetting ==
    [][\A f \in {"enabled", "method"} : stored'[f] # stored[f] =>
          \E w \in ToSet(writes) : ~w.landed /\ w.update = <<f, stored'[f]>>]_settingsVars

\* With no write under way the memory is the durable copy, also after writes
\* that failed: a page is never served by settings a restart would lose.
MemoryIsStored == writes = << >> => settings = stored
=============================================================================
