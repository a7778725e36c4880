--------------------------- MODULE DemoLaunchProofs ---------------------------
(***************************************************************************)
(* Proofs about DemoLaunch, for any tabs, clicks, documents and bounds:    *)
(* memory and session storage keep the launch last set, rapid clicks open  *)
(* one tab, the demo is whole where it is, and no document is handed the   *)
(* demo beside a custom rule.                                              *)
(*                                                                         *)
(* The inductive invariant has four parts.  Storage: the last write under  *)
(* way, or else what is stored, is the launch last set, and nothing was    *)
(* asked for after a read whose result will be taken.  Runs: the run that  *)
(* is busy is the pending one and its number is the latest.  Numbers: any  *)
(* launch known anywhere has an earlier number than the busy run, so a     *)
(* launch it sets is mistaken for none of them.  Documents: what a request *)
(* that captured the current launch may rely on.                           *)
(***************************************************************************)
EXTENDS DemoLaunch, SequenceTheorems, FiniteSetTheorems, TLAPS

Calls == [op : {"read", "write"}, launch : Launches \cup {None}]

Typed ==
    /\ TypeOK
    /\ ops \in Seq(Calls)
    /\ started \in 0..MaxRuns
    /\ failures \in Nat

-----------------------------------------------------------------------------
(* The inductive invariant *)

Reads(i) == ops[i].op = "read"
Writes(i) == ops[i].op = "write"

\* Session storage holds the launch last set when all calls are done.
WillBeMeant ==
    \/ stored = meant /\ \A i \in DOMAIN ops : ~Writes(i)
    \/ \E i \in DOMAIN ops :
          /\ Writes(i) /\ ops[i].launch = meant
          /\ \A j \in DOMAIN ops : i < j => ~Writes(j)

StorageOK ==
    /\ \A i, j \in DOMAIN ops : Reads(i) /\ Reads(j) => i = j
    /\ restoring = "reading" <=> \E i \in DOMAIN ops : Reads(i)
    /\ restoring = "reading" /\ ~overwritten => \A i \in DOMAIN ops : Reads(i) => i = Len(ops)
    /\ ~overwritten /\ restoring # "done" => launch = None
    /\ launch # None => restoring = "done"
    /\ failures = 0 /\ (overwritten \/ restoring = "done") => launch = meant
    /\ failures = 0 => WillBeMeant

BusyPcs == {"loading", "checking", "navigating", "opening"}
Busy == \E c \in Clicks : runs[c].pc \in BusyPcs

RunOK(c) ==
    /\ runs[c].pc # "idle" => pendingRun = c
    /\ runs[c].pc = "restoring" => started < MaxRuns
    /\ runs[c].pc \in BusyPcs =>
          restoring = "done" /\ runs[c].number = started /\ 1 <= started
    /\ runs[c].pc \in BusyPcs \ {"loading"} => runs[c].tab \in Tabs

RunsOK == \A c \in Clicks : RunOK(c)

\* A number the next launch will not have.
Passed(n) == n <= started /\ (Busy => n < started)

Known(l) == l # None => Passed(l.at)

LaunchesKnown ==
    /\ Known(launch)
    /\ Known(stored)
    /\ \A i \in DOMAIN ops : Known(ops[i].launch)

\* The tab is there, or its removal is not lost on this instance.
Here(t) == Open(t) \/ t \in removed \/ t \in lost

DocumentOK(d) ==
    LET r == requests[d] IN
    /\ Known(r.launch)
    /\ r.pc \in {"loading", "executing", "executed", "unexecuted"} =>
          restoring = "done" /\ r.launch \in Launches /\ r.launch.tab = r.tab
    /\ r.pc = "loading" /\ isCurrent(r.launch) => ~hasRule
    /\ r.pc = "executed" /\ isCurrent(r.launch) => Here(r.tab)
    /\ r.pc \in {"executed", "served"} /\ Shown(d) => d \in js

PagesOK ==
    \A t \in Tabs : pages[t] \in Docs =>
        requests[pages[t]] # None /\ requests[pages[t]].tab = t

DocumentsOK ==
    /\ \A d \in Docs : requests[d] # None => DocumentOK(d)
    /\ PagesOK
    /\ css \subseteq js

MeantOK ==
    failures = 0 /\ meant # None /\ meant.status = "applied" => Here(meant.tab)

IInv ==
    /\ Typed
    /\ StorageOK
    /\ RunsOK
    /\ LaunchesKnown
    /\ DocumentsOK
    /\ MeantOK

-----------------------------------------------------------------------------
(* What a step does with the launch *)

\* A launch a step may set: none, or the present one in another state, or the
\* one of the busy run, which is then over.
May(l) ==
    l # None =>
        /\ restoring = "done"
        /\ Passed(l.at)'
        /\ \/ launch # None /\ launch.tab = l.tab /\ launch.at = l.at
           \/ Busy /\ l.at = started
        /\ l.status = "applied" => Here(l.tab)

Sets == \E l \in Launches \cup {None} : setLaunch(l) /\ May(l)

LaunchStep ==
    /\ UNCHANGED failures
    /\ launchStays \/ ensureRestored \/ Sets

\* The part of the type invariant LaunchStep preserves, and the rest.
LaunchTyped ==
    /\ launch \in Launches \cup {None}
    /\ restoring \in {"no", "reading", "done"}
    /\ overwritten \in BOOLEAN
    /\ stored \in Launches \cup {None}
    /\ meant \in Launches \cup {None}
    /\ ops \in Seq(Calls)
    /\ failures \in Nat

RunsTyped ==
    /\ pendingRun \in Clicks \cup {None}
    /\ runs \in [Clicks -> [pc : {"idle", "restoring", "loading", "checking", "navigating", "opening"},
                            number : 0..MaxRuns, tab : Tabs \cup {None}]]
    /\ started \in 0..MaxRuns

DocumentsTyped ==
    /\ requests \in [Docs -> {None} \cup Requests]
    /\ pages \in [Tabs -> {Unopened, Closed, Blank} \cup Docs]
    /\ js \cup css \subseteq Docs

OtherTyped ==
    /\ removed \subseteq Tabs
    /\ lost \subseteq Tabs
    /\ asker \in [pc : {"idle", "restoring", "checking"}, launch : Launches \cup {None}]
    /\ {hasRule, enabled, blocked} \subseteq BOOLEAN

RestTyped == RunsTyped /\ DocumentsTyped /\ OtherTyped

\* The type invariant is the type of its parts.
LEMMA TypedParts == Typed <=> LaunchTyped /\ RestTyped
<1>1. ASSUME Typed PROVE LaunchTyped /\ RestTyped
  <2>1. LaunchTyped
    BY <1>1 DEF Typed, TypeOK, LaunchTyped
  <2>2. RunsTyped
    BY <1>1 DEF Typed, TypeOK, RunsTyped
  <2>3. DocumentsTyped
    BY <1>1 DEF Typed, TypeOK, DocumentsTyped
  <2>4. OtherTyped
    BY <1>1 DEF Typed, TypeOK, OtherTyped
  <2> QED BY <2>1, <2>2, <2>3, <2>4 DEF RestTyped
<1>2. ASSUME LaunchTyped, RestTyped PROVE Typed
  BY <1>2 DEF Typed, TypeOK, LaunchTyped, RestTyped, RunsTyped, DocumentsTyped, OtherTyped
<1> QED BY <1>1, <1>2

\* The same of the state after a step.
LEMMA TypedPartsNext == LaunchTyped' /\ RestTyped' => Typed'
BY DEF Typed, TypeOK, LaunchTyped, RestTyped, RunsTyped, DocumentsTyped, OtherTyped

\* A call is added at the end of those under way.
LEMMA AppendedCall ==
  ASSUME NEW s \in Seq(Calls), NEW call \in Calls
  PROVE  LET n == Len(s) + 1 IN
         /\ Append(s, call) \in Seq(Calls)
         /\ Len(s) \in Nat
         /\ Len(Append(s, call)) = n
         /\ DOMAIN s = 1..Len(s)
         /\ DOMAIN Append(s, call) = 1..n
         /\ Append(s, call)[n] = call
         /\ \A i \in 1..Len(s) : Append(s, call)[i] = s[i]
<1>1. Len(s) \in Nat /\ DOMAIN s = 1..Len(s)
  BY LenProperties
<1>2. Append(s, call) \in Seq(Calls) /\ Len(Append(s, call)) = Len(s) + 1
  BY AppendProperties
<1>3. DOMAIN Append(s, call) = 1..(Len(s) + 1)
  BY <1>2, LenProperties
<1>4. Append(s, call)[Len(s) + 1] = call
  BY AppendProperties
<1>5. \A i \in 1..Len(s) : Append(s, call)[i] = s[i]
  BY <1>1, AppendProperties
<1> QED BY <1>1, <1>2, <1>3, <1>4, <1>5

\* The first call is taken off those under way.
LEMMA TailCalls ==
  ASSUME NEW s \in Seq(Calls), s # << >>
  PROVE  /\ Tail(s) \in Seq(Calls)
         /\ Head(s) \in Calls
         /\ Head(s) = s[1]
         /\ Len(s) \in Nat \ {0}
         /\ DOMAIN s = 1..Len(s)
         /\ Len(Tail(s)) = Len(s) - 1
         /\ DOMAIN Tail(s) = 1..(Len(s) - 1)
         /\ \A i \in 1..(Len(s) - 1) : Tail(s)[i] = s[i + 1]
<1>1. Len(s) \in Nat \ {0} /\ DOMAIN s = 1..Len(s)
  BY LenProperties, EmptySeq
<1>2. Tail(s) \in Seq(Calls) /\ Len(Tail(s)) = Len(s) - 1
  BY HeadTailProperties
<1>3. DOMAIN Tail(s) = 1..(Len(s) - 1)
  BY <1>2, LenProperties
<1>4. Head(s) \in Calls
  BY HeadTailProperties
<1>5. Head(s) = s[1]
  BY HeadTailProperties
<1>6. \A i \in 1..(Len(s) - 1) : Tail(s)[i] = s[i + 1]
  BY <1>1, HeadTailProperties
<1> QED BY <1>1, <1>2, <1>3, <1>4, <1>5, <1>6

\* A launch is kept where nothing is done to it.
LEMMA StorageStays ==
  ASSUME StorageOK, launchStays, UNCHANGED failures
  PROVE  StorageOK'
BY DEF StorageOK, launchStays, session, WillBeMeant, Reads, Writes

\* The launch that is set is written after everything else.
LEMMA SetKeepsStorage ==
  ASSUME LaunchTyped, StorageOK, NEW l \in Launches \cup {None}, setLaunch(l),
         l # None => restoring = "done", UNCHANGED failures
  PROVE  StorageOK' /\ LaunchTyped'
<1> DEFINE call == [op |-> "write", launch |-> l]
           n == Len(ops) + 1
<1>1. call \in Calls /\ call.op = "write" /\ call.launch = l
  BY DEF Calls
<1>2. ops' = Append(ops, call)
  BY DEF setLaunch, Persisted
<1> HIDE DEF call
<1>3. ops \in Seq(Calls)
  BY DEF LaunchTyped
<1>4. /\ ops' \in Seq(Calls)
      /\ Len(ops) \in Nat
      /\ Len(ops') = n
      /\ DOMAIN ops = 1..Len(ops)
      /\ DOMAIN ops' = 1..n
      /\ ops'[n] = call
      /\ \A i \in 1..Len(ops) : ops'[i] = ops[i]
  BY <1>1, <1>2, <1>3, AppendedCall
<1>5. \A i \in DOMAIN ops' : Reads(i)' => i \in DOMAIN ops /\ Reads(i)
  BY <1>1, <1>4 DEF Reads
<1>6. \A i \in DOMAIN ops : i \in DOMAIN ops' /\ (Reads(i) => Reads(i)')
  BY <1>4 DEF Reads
<1>7. WillBeMeant'
  <2>1. n \in DOMAIN ops' /\ ops'[n].op = "write" /\ ops'[n].launch = l
    BY <1>1, <1>4
  <2>2. \A j \in DOMAIN ops' : ~(n < j)
    BY <1>4
  <2>3. meant' = l
    BY DEF setLaunch
  <2> HIDE DEF n
  <2> QED BY <2>1, <2>2, <2>3 DEF WillBeMeant, Writes
<1>8. launch' = l /\ overwritten' = TRUE /\ meant' = l /\ restoring' = restoring /\ stored' = stored
  BY DEF setLaunch
<1>9. StorageOK'
  <2>1. \A i, j \in DOMAIN ops' : Reads(i)' /\ Reads(j)' => i = j
    BY <1>5 DEF StorageOK
  <2>2. (restoring = "reading")' <=> \E i \in DOMAIN ops' : Reads(i)'
    BY <1>5, <1>6, <1>8 DEF StorageOK
  <2> QED BY <2>1, <2>2, <1>7, <1>8 DEF StorageOK
<1>10. LaunchTyped'
  BY <1>4, <1>8 DEF LaunchTyped
<1> QED BY <1>9, <1>10

\* The read is asked for once, and after every write asked for before.
LEMMA AskKeepsStorage ==
  ASSUME LaunchTyped, StorageOK, ensureRestored, UNCHANGED failures
  PROVE  StorageOK' /\ LaunchTyped'
<1> DEFINE call == [op |-> "read", launch |-> None]
           n == Len(ops) + 1
<1>1. call \in Calls /\ call.op = "read"
  BY DEF Calls
<1>2. /\ restoring # "done" /\ restoring' = "reading"
      /\ launch' = launch /\ overwritten' = overwritten /\ stored' = stored /\ meant' = meant
  BY DEF ensureRestored
<1>3. CASE restoring = "no"
  <2>1. ops' = Append(ops, call)
    BY <1>3 DEF ensureRestored
  <2> HIDE DEF call
  <2>2. /\ ops' \in Seq(Calls)
        /\ Len(ops) \in Nat
        /\ Len(ops') = n
        /\ DOMAIN ops = 1..Len(ops)
        /\ DOMAIN ops' = 1..n
        /\ ops'[n] = call
        /\ \A i \in 1..Len(ops) : ops'[i] = ops[i]
    BY <1>1, <2>1, AppendedCall DEF LaunchTyped
  <2>3. \A i \in DOMAIN ops : ~Reads(i)
    BY <1>3 DEF StorageOK
  <2>4. \A i \in DOMAIN ops' : Reads(i)' <=> i = n
    BY <1>1, <2>2, <2>3 DEF Reads
  <2>5. \A i \in DOMAIN ops' : Writes(i)' <=> i \in DOMAIN ops /\ Writes(i)
    BY <1>1, <2>2 DEF Writes
  <2>6. WillBeMeant => WillBeMeant'
    <3>1. CASE stored = meant /\ \A i \in DOMAIN ops : ~Writes(i)
      BY <3>1, <1>2, <2>5 DEF WillBeMeant
    <3>2. ASSUME NEW i \in DOMAIN ops, Writes(i), ops[i].launch = meant,
                 \A j \in DOMAIN ops : i < j => ~Writes(j)
          PROVE  WillBeMeant'
      <4>1. i \in DOMAIN ops' /\ Writes(i)' /\ ops'[i].launch = meant'
        BY <3>2, <1>2, <2>2, <2>5
      <4>2. \A j \in DOMAIN ops' : i < j => ~Writes(j)'
        BY <3>2, <2>5
      <4> QED BY <4>1, <4>2 DEF WillBeMeant
    <3> QED BY <3>1, <3>2 DEF WillBeMeant
  <2>7. n \in DOMAIN ops'
    BY <2>2
  <2>8. Len(ops') = n
    BY <2>2
  <2>9. LaunchTyped'
    BY <1>2, <2>2 DEF LaunchTyped
  <2> HIDE DEF n
  <2>10. \A i, j \in DOMAIN ops' : Reads(i)' /\ Reads(j)' => i = j
    BY <2>4
  <2>11. \E i \in DOMAIN ops' : Reads(i)'
    BY <2>4, <2>7
  <2>12. \A i \in DOMAIN ops' : Reads(i)' => i = Len(ops')
    BY <2>4, <2>8
  <2>13. StorageOK'
    BY <1>2, <1>3, <2>6, <2>10, <2>11, <2>12 DEF StorageOK
  <2> QED BY <2>9, <2>13
<1>4. CASE restoring # "no"
  <2>1. restoring = "reading" /\ ops' = ops
    BY <1>2, <1>4 DEF ensureRestored, LaunchTyped
  <2> QED BY <1>2, <2>1 DEF StorageOK, LaunchTyped, WillBeMeant, Reads, Writes
<1> QED BY <1>3, <1>4

\* Every step with the launch keeps the storage part.
LEMMA LaunchStepKeepsStorage ==
  ASSUME LaunchTyped, StorageOK, LaunchStep
  PROVE  StorageOK' /\ LaunchTyped'
<1>1. CASE launchStays
  <2>1. StorageOK'
    BY <1>1, StorageStays DEF LaunchStep
  <2>2. LaunchTyped'
    BY <1>1 DEF LaunchStep, launchStays, session, LaunchTyped
  <2> QED BY <2>1, <2>2
<1>2. CASE ensureRestored
  BY <1>2, AskKeepsStorage DEF LaunchStep
<1>3. ASSUME NEW l \in Launches \cup {None}, setLaunch(l), May(l)
      PROVE  StorageOK' /\ LaunchTyped'
  <2>1. l # None => restoring = "done"
    BY <1>3 DEF May
  <2> QED BY <1>3, <2>1, SetKeepsStorage DEF LaunchStep
<1> QED BY <1>1, <1>2, <1>3 DEF LaunchStep, Sets

-----------------------------------------------------------------------------
(* Numbers *)

\* A number that is passed stays so.
Ages == \A n \in Nat : Passed(n) => Passed(n)'

\* A launch has a number.
LEMMA LaunchNumber ==
  ASSUME NEW l \in Launches
  PROVE  l.at \in Nat /\ l.tab \in Tabs /\ l # None
BY NoneAssumption DEF Launches

\* What is known stays known.
LEMMA KnownAges ==
  ASSUME NEW l \in Launches \cup {None}, Known(l), Ages
  PROVE  l # None => Passed(l.at)'
BY LaunchNumber DEF Known, Ages

\* A step with the launch makes only a passed number known.
LEMMA LaunchStepKeepsKnown ==
  ASSUME LaunchTyped, LaunchesKnown, LaunchStep, Ages
  PROVE  LaunchesKnown'
<1>1. Known(stored)'
  <2>1. stored' = stored
    BY DEF LaunchStep, Sets, launchStays, setLaunch, ensureRestored, session
  <2> QED BY <2>1, KnownAges DEF LaunchesKnown, LaunchTyped, Known
<1>2. launch' = launch => Known(launch)'
  BY KnownAges DEF LaunchesKnown, LaunchTyped, Known
<1>3. ops \in Seq(Calls) /\ DOMAIN ops = 1..Len(ops) /\ Len(ops) \in Nat
  BY LenProperties DEF LaunchTyped
<1>4. \A i \in DOMAIN ops : \E l \in Launches \cup {None} :
         l = ops[i].launch /\ (l # None => Passed(l.at)')
  <2> TAKE i \in DOMAIN ops
  <2>1. ops[i] \in Calls
    BY <1>3, ElementOfSeq
  <2>2. PICK l \in Launches \cup {None} : l = ops[i].launch
    BY <2>1 DEF Calls
  <2>3. Known(l)
    BY <2>2 DEF LaunchesKnown
  <2>4. l # None => Passed(l.at)'
    BY <2>3, KnownAges
  <2> QED BY <2>2, <2>4
<1>5. ASSUME NEW call \in Calls, ops' = Append(ops, call),
             call.launch # None => Passed(call.launch.at)'
      PROVE  \A i \in DOMAIN ops' : Known(ops[i].launch)'
  <2>1. /\ DOMAIN ops' = 1..(Len(ops) + 1)
        /\ ops'[Len(ops) + 1] = call
        /\ \A i \in 1..Len(ops) : ops'[i] = ops[i]
    BY <1>3, <1>5, AppendedCall
  <2> TAKE i \in DOMAIN ops'
  <2>2. CASE i \in DOMAIN ops
    BY <2>1, <2>2, <1>3, <1>4 DEF Known
  <2>3. CASE i = Len(ops) + 1
    BY <2>1, <2>3, <1>5 DEF Known
  <2> QED BY <2>1, <2>2, <2>3, <1>3
<1>6. ops' = ops => \A i \in DOMAIN ops' : Known(ops[i].launch)'
  BY <1>4 DEF Known
<1>7. CASE launchStays
  BY <1>1, <1>2, <1>6, <1>7 DEF launchStays, session, LaunchesKnown
<1>8. CASE ensureRestored
  <2> DEFINE call == [op |-> "read", launch |-> None]
  <2>1. call \in Calls /\ call.launch = None
    BY DEF Calls
  <2>2. ops' = Append(ops, call) \/ ops' = ops
    BY <1>8 DEF ensureRestored
  <2>3. launch' = launch
    BY <1>8 DEF ensureRestored
  <2> HIDE DEF call
  <2> QED BY <1>1, <1>2, <1>5, <1>6, <2>1, <2>2, <2>3 DEF LaunchesKnown
<1>9. ASSUME NEW l \in Launches \cup {None}, setLaunch(l), May(l)
      PROVE  LaunchesKnown'
  <2> DEFINE call == [op |-> "write", launch |-> l]
  <2>1. call \in Calls /\ call.launch = l
    BY DEF Calls
  <2>2. ops' = Append(ops, call) /\ launch' = l
    BY <1>9 DEF setLaunch, Persisted
  <2>3. l # None => Passed(l.at)'
    BY <1>9 DEF May
  <2>4. Known(launch)'
    BY <2>2, <2>3 DEF Known
  <2> HIDE DEF call
  <2> QED BY <1>1, <1>5, <2>1, <2>2, <2>3, <2>4 DEF LaunchesKnown
<1> QED BY <1>7, <1>8, <1>9 DEF LaunchStep, Sets

\* A step with the launch makes current only what was.
LEMMA StaysCurrent ==
  ASSUME LaunchTyped, RestTyped, LaunchStep, NEW l \in Launches, Passed(l.at), isCurrent(l)'
  PROVE  isCurrent(l)
<1>1. launch' = launch => isCurrent(l)
  BY DEF isCurrent
<1>2. launchStays \/ ensureRestored => launch' = launch
  BY DEF launchStays, ensureRestored
<1>3. ASSUME NEW k \in Launches \cup {None}, setLaunch(k), May(k)
      PROVE  isCurrent(l)
  <2>1. k # None /\ k.tab = l.tab /\ k.at = l.at
    BY <1>3 DEF setLaunch, isCurrent
  <2>2. started \in Nat /\ l.at \in Nat
    BY LaunchNumber DEF RestTyped, RunsTyped
  <2>3. ~(Busy /\ k.at = started)
    BY <2>1, <2>2 DEF Passed
  <2>4. launch # None /\ launch.tab = k.tab /\ launch.at = k.at
    BY <1>3, <2>1, <2>3 DEF May
  <2> QED BY <2>1, <2>4 DEF isCurrent
<1> QED BY <1>1, <1>2, <1>3 DEF LaunchStep, Sets

-----------------------------------------------------------------------------
(* Session storage does a call *)

\* What a call leaves of the calls under way.
LEMMA AfterCall ==
  ASSUME LaunchTyped, StorageOK, ops # << >>, ops' = Tail(ops)
  PROVE  /\ DOMAIN ops = 1..Len(ops) /\ Len(ops) \in Nat \ {0}
         /\ DOMAIN ops' = 1..(Len(ops) - 1)
         /\ Len(ops') = Len(ops) - 1
         /\ ops' \in Seq(Calls)
         /\ Head(ops) = ops[1] /\ Head(ops) \in Calls
         /\ \A i \in DOMAIN ops' : i + 1 \in DOMAIN ops /\ ops'[i] = ops[i + 1]
         /\ \A i \in DOMAIN ops : i # 1 => i - 1 \in DOMAIN ops' /\ ops'[i - 1] = ops[i]
         /\ Head(ops).op = "read" => restoring = "reading" /\ \A i \in DOMAIN ops' : ~Reads(i)'
         /\ Head(ops).op # "read" => ((\E i \in DOMAIN ops : Reads(i)) <=> (\E i \in DOMAIN ops' : Reads(i)'))
         /\ \A i, j \in DOMAIN ops' : Reads(i)' /\ Reads(j)' => i = j
<1>1. /\ DOMAIN ops = 1..Len(ops) /\ Len(ops) \in Nat \ {0}
      /\ DOMAIN ops' = 1..(Len(ops) - 1)
      /\ Len(ops') = Len(ops) - 1
      /\ ops' \in Seq(Calls)
      /\ Head(ops) = ops[1] /\ Head(ops) \in Calls
      /\ \A i \in 1..(Len(ops) - 1) : ops'[i] = ops[i + 1]
  BY TailCalls DEF LaunchTyped
<1>2. \A i \in DOMAIN ops' : i + 1 \in DOMAIN ops /\ ops'[i] = ops[i + 1] /\ i + 1 # 1
  BY <1>1
<1>3. \A i \in DOMAIN ops : i # 1 => i - 1 \in DOMAIN ops' /\ ops'[i - 1] = ops[i]
  BY <1>1
<1>4. \A i \in DOMAIN ops' : Reads(i)' <=> Reads(i + 1)
  BY <1>2 DEF Reads
<1>5. 1 \in DOMAIN ops
  BY <1>1
<1>6. Head(ops).op = "read" => restoring = "reading" /\ \A i \in DOMAIN ops' : ~Reads(i)'
  <2>1. ASSUME Head(ops).op = "read" PROVE Reads(1)
    BY <2>1, <1>1 DEF Reads
  <2> QED BY <2>1, <1>2, <1>4, <1>5 DEF StorageOK
<1>7. ASSUME Head(ops).op # "read"
      PROVE  (\E i \in DOMAIN ops : Reads(i)) <=> (\E i \in DOMAIN ops' : Reads(i)')
  <2>1. ~Reads(1)
    BY <1>1, <1>7 DEF Reads
  <2>2. ASSUME NEW i \in DOMAIN ops, Reads(i) PROVE i - 1 \in DOMAIN ops' /\ Reads(i - 1)'
    <3>1. i # 1
      BY <2>1, <2>2
    <3> QED BY <3>1, <2>2, <1>3 DEF Reads
  <2> QED BY <2>2, <1>2, <1>4
<1>8. \A i, j \in DOMAIN ops' : Reads(i)' /\ Reads(j)' => i = j
  <2> TAKE i, j \in DOMAIN ops'
  <2>1. Reads(i)' /\ Reads(j)' => i + 1 = j + 1
    BY <1>2, <1>4 DEF StorageOK
  <2> QED BY <2>1, <1>1
<1> QED BY <1>1, <1>2, <1>3, <1>6, <1>7, <1>8

\* What is known stays so when calls go and what is stored was known.
LEMMA CallKeepsKnown ==
  ASSUME LaunchesKnown, UNCHANGED <<runs, started>>,
         launch' \in {launch, stored},
         stored' = stored \/ \E i \in DOMAIN ops : stored' = ops[i].launch,
         \A i \in DOMAIN ops' : \E j \in DOMAIN ops : ops'[i] = ops[j]
  PROVE  LaunchesKnown'
<1>1. \A n : Passed(n)' <=> Passed(n)
  BY DEF Passed, Busy
<1>2. Known(launch)'
  BY <1>1 DEF LaunchesKnown, Known
<1>3. Known(stored)'
  BY <1>1 DEF LaunchesKnown, Known
<1>4. \A i \in DOMAIN ops' : Known(ops[i].launch)'
  BY <1>1 DEF LaunchesKnown, Known
<1> QED BY <1>2, <1>3, <1>4 DEF LaunchesKnown

\* The read restores the launch last set, unless that is already in memory.
LEMMA ReadKeepsStorage ==
  ASSUME LaunchTyped, StorageOK, LaunchesKnown, ReadDone
  PROVE  StorageOK' /\ LaunchTyped' /\ LaunchesKnown'
<1>1. /\ ops # << >> /\ Head(ops).op = "read" /\ ops' = Tail(ops)
      /\ restoring' = "done" /\ launch' = Restored
      /\ UNCHANGED <<overwritten, stored, meant, failures, runs, started>>
  BY DEF ReadDone, counters
<1>2. /\ DOMAIN ops = 1..Len(ops) /\ Len(ops) \in Nat \ {0}
      /\ DOMAIN ops' = 1..(Len(ops) - 1)
      /\ ops' \in Seq(Calls)
      /\ Head(ops) = ops[1]
      /\ \A i \in DOMAIN ops' : i + 1 \in DOMAIN ops /\ ops'[i] = ops[i + 1]
      /\ \A i \in DOMAIN ops : i # 1 => i - 1 \in DOMAIN ops' /\ ops'[i - 1] = ops[i]
      /\ restoring = "reading" /\ \A i \in DOMAIN ops' : ~Reads(i)'
  BY <1>1, AfterCall
<1>3. 1 \in DOMAIN ops /\ Reads(1) /\ ~Writes(1)
  BY <1>1, <1>2 DEF Reads, Writes
<1>4. launch' \in {launch, stored}
  BY <1>1 DEF Restored
<1>5. ASSUME failures = 0 PROVE launch' = meant
  <2>1. CASE overwritten
    BY <1>1, <1>5, <2>1 DEF Restored, StorageOK
  <2>2. CASE ~overwritten
    <3>1. launch = None
      BY <1>2, <2>2 DEF StorageOK
    <3>2. Len(ops) = 1
      BY <1>2, <1>3, <2>2 DEF StorageOK
    <3>3. \A i \in DOMAIN ops : ~Writes(i)
      BY <1>2, <1>3, <3>2
    <3>4. stored = meant
      BY <1>5, <3>3 DEF StorageOK, WillBeMeant
    <3> QED BY <1>1, <2>2, <3>1, <3>4 DEF Restored
  <2> QED BY <2>1, <2>2
<1>6. WillBeMeant => WillBeMeant'
  <2>1. CASE stored = meant /\ \A i \in DOMAIN ops : ~Writes(i)
    <3>1. \A i \in DOMAIN ops' : ~Writes(i)'
      BY <2>1, <1>2 DEF Writes
    <3> QED BY <3>1, <2>1, <1>1 DEF WillBeMeant
  <2>2. ASSUME NEW i \in DOMAIN ops, Writes(i), ops[i].launch = meant,
               \A j \in DOMAIN ops : i < j => ~Writes(j)
        PROVE  WillBeMeant'
    <3>1. i # 1
      BY <2>2, <1>3
    <3>2. PICK k \in DOMAIN ops' : k = i - 1
      BY <3>1, <1>2
    <3>3. Writes(k)' /\ ops'[k].launch = meant'
      BY <3>1, <3>2, <2>2, <1>1, <1>2 DEF Writes
    <3>4. ASSUME NEW j \in DOMAIN ops', k < j PROVE ~Writes(j)'
      <4>1. j + 1 \in DOMAIN ops /\ i < j + 1
        BY <3>2, <3>4, <1>2
      <4> QED BY <4>1, <2>2, <1>2 DEF Writes
    <3> QED BY <3>3, <3>4 DEF WillBeMeant
  <2> QED BY <2>1, <2>2 DEF WillBeMeant
<1>7. StorageOK'
  <2>1. \A i, j \in DOMAIN ops' : Reads(i)' /\ Reads(j)' => i = j
    BY <1>2
  <2> QED BY <2>1, <1>1, <1>2, <1>5, <1>6 DEF StorageOK
<1>8. LaunchTyped'
  BY <1>1, <1>2, <1>4 DEF LaunchTyped
<1>9. LaunchesKnown'
  BY <1>1, <1>2, <1>4, CallKeepsKnown
<1> QED BY <1>7, <1>8, <1>9

\* A write that is done is stored.
LEMMA WriteKeepsStorage ==
  ASSUME LaunchTyped, StorageOK, LaunchesKnown, WriteDone
  PROVE  StorageOK' /\ LaunchTyped' /\ LaunchesKnown'
<1>1. /\ ops # << >> /\ Head(ops).op = "write" /\ ops' = Tail(ops)
      /\ stored' = Head(ops).launch
      /\ UNCHANGED <<launch, restoring, overwritten, meant, failures, runs, started>>
  BY DEF WriteDone, counters, memory
<1>2. /\ DOMAIN ops = 1..Len(ops) /\ Len(ops) \in Nat \ {0}
      /\ DOMAIN ops' = 1..(Len(ops) - 1)
      /\ Len(ops') = Len(ops) - 1
      /\ ops' \in Seq(Calls)
      /\ Head(ops) = ops[1] /\ Head(ops) \in Calls
      /\ \A i \in DOMAIN ops' : i + 1 \in DOMAIN ops /\ ops'[i] = ops[i + 1]
      /\ \A i \in DOMAIN ops : i # 1 => i - 1 \in DOMAIN ops' /\ ops'[i - 1] = ops[i]
      /\ (\E i \in DOMAIN ops : Reads(i)) <=> (\E i \in DOMAIN ops' : Reads(i)')
      /\ \A i, j \in DOMAIN ops' : Reads(i)' /\ Reads(j)' => i = j
  BY <1>1, AfterCall
<1>3. 1 \in DOMAIN ops /\ Writes(1)
  BY <1>1, <1>2 DEF Writes
<1>4. stored' \in Launches \cup {None}
  BY <1>1, <1>2 DEF Calls
<1>5. WillBeMeant => WillBeMeant'
  <2>1. CASE stored = meant /\ \A i \in DOMAIN ops : ~Writes(i)
    BY <2>1, <1>3
  <2>2. ASSUME NEW i \in DOMAIN ops, Writes(i), ops[i].launch = meant,
               \A j \in DOMAIN ops : i < j => ~Writes(j)
        PROVE  WillBeMeant'
    <3>1. CASE i = 1
      <4>1. \A j \in DOMAIN ops' : ~Writes(j)'
        <5> TAKE j \in DOMAIN ops'
        <5>1. j + 1 \in DOMAIN ops /\ i < j + 1
          BY <3>1, <1>2
        <5> QED BY <5>1, <2>2, <1>2 DEF Writes
      <4>2. stored' = meant'
        BY <3>1, <2>2, <1>1, <1>2
      <4> QED BY <4>1, <4>2 DEF WillBeMeant
    <3>2. CASE i # 1
      <4>1. PICK k \in DOMAIN ops' : k = i - 1
        BY <3>2, <1>2
      <4>2. Writes(k)' /\ ops'[k].launch = meant'
        BY <3>2, <4>1, <2>2, <1>1, <1>2 DEF Writes
      <4>3. ASSUME NEW j \in DOMAIN ops', k < j PROVE ~Writes(j)'
        <5>1. j + 1 \in DOMAIN ops /\ i < j + 1
          BY <4>1, <4>3, <1>2
        <5> QED BY <5>1, <2>2, <1>2 DEF Writes
      <4> QED BY <4>2, <4>3 DEF WillBeMeant
    <3> QED BY <3>1, <3>2
  <2> QED BY <2>1, <2>2 DEF WillBeMeant
<1>6. StorageOK'
  <2>1. ASSUME restoring = "reading", ~overwritten, NEW i \in DOMAIN ops', Reads(i)'
        PROVE  i = Len(ops')
    <3>1. i + 1 \in DOMAIN ops /\ Reads(i + 1)
      BY <2>1, <1>2 DEF Reads
    <3>2. i + 1 = Len(ops)
      BY <3>1, <2>1 DEF StorageOK
    <3>3. i \in Nat
      BY <1>2
    <3> QED BY <3>2, <3>3, <1>2
  <2>2. (restoring = "reading")' <=> \E i \in DOMAIN ops' : Reads(i)'
    BY <1>1, <1>2 DEF StorageOK
  <2> QED BY <2>1, <2>2, <1>1, <1>2, <1>5 DEF StorageOK
<1>7. LaunchTyped'
  BY <1>1, <1>2, <1>4 DEF LaunchTyped
<1>8. LaunchesKnown'
  BY <1>1, <1>2, <1>3, CallKeepsKnown
<1> QED BY <1>6, <1>7, <1>8

\* A call that fails is counted: storage promises nothing after it.
LEMMA FailureKeepsStorage ==
  ASSUME LaunchTyped, StorageOK, LaunchesKnown, StorageFails
  PROVE  StorageOK' /\ LaunchTyped' /\ LaunchesKnown'
<1>1. /\ ops # << >> /\ ops' = Tail(ops) /\ failures' = failures + 1
      /\ restoring' = IF Head(ops).op = "read" THEN "done" ELSE restoring
      /\ UNCHANGED <<launch, overwritten, stored, meant, runs, started>>
  BY DEF StorageFails
<1>2. /\ DOMAIN ops = 1..Len(ops) /\ Len(ops) \in Nat \ {0}
      /\ DOMAIN ops' = 1..(Len(ops) - 1)
      /\ Len(ops') = Len(ops) - 1
      /\ ops' \in Seq(Calls)
      /\ \A i \in DOMAIN ops' : i + 1 \in DOMAIN ops /\ ops'[i] = ops[i + 1]
      /\ Head(ops).op = "read" => restoring = "reading" /\ \A i \in DOMAIN ops' : ~Reads(i)'
      /\ Head(ops).op # "read" => ((\E i \in DOMAIN ops : Reads(i)) <=> (\E i \in DOMAIN ops' : Reads(i)'))
      /\ \A i, j \in DOMAIN ops' : Reads(i)' /\ Reads(j)' => i = j
  BY <1>1, AfterCall
<1>3. failures' \in Nat /\ failures' # 0
  BY <1>1 DEF LaunchTyped
<1>4. (restoring = "reading")' <=> \E i \in DOMAIN ops' : Reads(i)'
  <2>1. CASE Head(ops).op = "read"
    BY <2>1, <1>1, <1>2
  <2>2. CASE Head(ops).op # "read"
    BY <2>2, <1>1, <1>2 DEF StorageOK
  <2> QED BY <2>1, <2>2
<1>5. ASSUME restoring' = "reading", ~overwritten, NEW i \in DOMAIN ops', Reads(i)'
      PROVE  i = Len(ops')
  <2>1. restoring = "reading"
    BY <1>1, <1>5
  <2>2. i + 1 \in DOMAIN ops /\ Reads(i + 1)
    BY <1>5, <1>2 DEF Reads
  <2>3. i + 1 = Len(ops)
    BY <2>1, <2>2, <1>5 DEF StorageOK
  <2>4. i \in Nat
    BY <1>2
  <2> QED BY <2>3, <2>4, <1>2
<1>6. StorageOK'
  BY <1>1, <1>2, <1>3, <1>4, <1>5 DEF StorageOK
<1>7. LaunchTyped'
  BY <1>1, <1>2, <1>3 DEF LaunchTyped
<1>8. LaunchesKnown'
  BY <1>1, <1>2, CallKeepsKnown
<1> QED BY <1>6, <1>7, <1>8

-----------------------------------------------------------------------------
(* The background is unloaded *)

\* What is left when the read is dropped: the writes, in their order.
LEMMA WithoutReadIs ==
  ASSUME NEW s \in Seq(Calls),
         \A i, j \in DOMAIN s : s[i].op = "read" /\ s[j].op = "read" => i = j
  PROVE  /\ WithoutRead(s) \in Seq(Calls)
         /\ \A i \in DOMAIN WithoutRead(s) :
               WithoutRead(s)[i].op = "write" /\ \E j \in DOMAIN s : WithoutRead(s)[i] = s[j]
         /\ \A i \in DOMAIN s : s[i].op = "write" =>
               \E k \in DOMAIN WithoutRead(s) :
                  /\ WithoutRead(s)[k] = s[i]
                  /\ \A m \in DOMAIN WithoutRead(s) :
                        k < m => \E j \in DOMAIN s : i < j /\ WithoutRead(s)[m] = s[j]
<1> DEFINE w == WithoutRead(s)
           reads == {i \in DOMAIN s : s[i].op = "read"}
           read == CHOOSE i \in reads : TRUE
           n == Len(s) - 1
           from(i) == IF i < read THEN i ELSE i + 1
<1>1. Len(s) \in Nat /\ DOMAIN s = 1..Len(s)
  BY LenProperties
<1>2. \A i \in DOMAIN s : s[i] \in Calls /\ s[i].op \in {"read", "write"}
  <2> TAKE i \in DOMAIN s
  <2>1. s[i] \in Calls
    BY <1>1, ElementOfSeq
  <2> QED BY <2>1 DEF Calls
<1>3. CASE reads = {}
  <2>1. w = s
    BY <1>3 DEF WithoutRead
  <2>2. \A i \in DOMAIN s : s[i].op = "write"
    BY <1>2, <1>3
  <2> HIDE DEF w
  <2>3. \A i \in DOMAIN w : w[i].op = "write" /\ \E j \in DOMAIN s : w[i] = s[j]
    BY <2>1, <2>2
  <2>4. \A i \in DOMAIN s : \E k \in DOMAIN w :
           w[k] = s[i] /\ \A m \in DOMAIN w : k < m => \E j \in DOMAIN s : i < j /\ w[m] = s[j]
    BY <2>1
  <2>5. w \in Seq(Calls)
    BY <2>1
  <2> QED BY <2>3, <2>4, <2>5 DEF w
<1>4. CASE reads # {}
  <2>1. read \in reads
    BY <1>4
  <2>2. w = [i \in 1..n |-> s[from(i)]]
    BY <1>4 DEF WithoutRead
  <2>3. read \in 1..Len(s) /\ s[read].op = "read"
    BY <1>1, <2>1
  <2>4. \A i \in 1..Len(s) : i # read => s[i].op = "write"
    <3> TAKE i \in 1..Len(s)
    <3>1. s[i].op = "read" => i = read
      BY <1>1, <2>3
    <3> QED BY <3>1, <1>1, <1>2
  <2> HIDE DEF read, reads
  <2>5. n \in Nat
    BY <1>1, <2>3
  <2>6. \A i \in 1..n : from(i) \in 1..Len(s) /\ from(i) # read
    BY <1>1, <2>3
  <2>7. \A i, j \in 1..n : i < j => from(i) < from(j)
    BY <1>1, <2>3
  <2>8. \A i \in 1..Len(s) : i # read => \E k \in 1..n : from(k) = i
    <3> TAKE i \in 1..Len(s)
    <3>1. CASE i < read
      <4>1. i \in 1..n /\ from(i) = i
        BY <3>1, <1>1, <2>3
      <4> QED BY <4>1
    <3>2. CASE i > read
      <4>1. i - 1 \in 1..n /\ from(i - 1) = i
        BY <3>2, <1>1, <2>3
      <4> QED BY <4>1
    <3> QED BY <3>1, <3>2, <1>1, <2>3
  <2> HIDE DEF n, from
  <2>9. DOMAIN w = 1..n /\ \A i \in 1..n : w[i] = s[from(i)]
    BY <2>2
  <2>10. w \in [1..n -> Calls]
    <3>1. \A i \in 1..n : s[from(i)] \in Calls
      BY <1>1, <1>2, <2>6
    <3> QED BY <2>2, <3>1
  <2>11. w \in Seq(Calls)
    BY <2>5, <2>10, SeqDef
  <2> HIDE DEF w
  <2>12. \A i \in DOMAIN w : w[i].op = "write" /\ \E j \in DOMAIN s : w[i] = s[j]
    BY <1>1, <2>4, <2>6, <2>9
  <2>13. ASSUME NEW i \in DOMAIN s, s[i].op = "write"
         PROVE  \E k \in DOMAIN w :
                   /\ w[k] = s[i]
                   /\ \A m \in DOMAIN w : k < m => \E j \in DOMAIN s : i < j /\ w[m] = s[j]
    <3>1. i # read
      BY <2>3, <2>13
    <3>2. PICK k \in 1..n : from(k) = i
      BY <1>1, <2>8, <3>1
    <3>3. w[k] = s[i] /\ k \in DOMAIN w
      BY <2>9, <3>2
    <3>4. ASSUME NEW m \in DOMAIN w, k < m
          PROVE  \E j \in DOMAIN s : i < j /\ w[m] = s[j]
      BY <1>1, <2>6, <2>7, <2>9, <3>2, <3>4
    <3> QED BY <3>3, <3>4
  <2> QED BY <2>11, <2>12, <2>13 DEF w
<1> QED BY <1>3, <1>4

\* The next instance finds the launch where this one left it.
LEMMA UnloadKeepsStorage ==
  ASSUME LaunchTyped, StorageOK, LaunchesKnown, RestTyped, Unload
  PROVE  StorageOK' /\ LaunchTyped' /\ LaunchesKnown'
<1>1. /\ launch' = None /\ restoring' = "no" /\ overwritten' = FALSE
      /\ ops' = WithoutRead(ops) /\ runs' = NoRuns
      /\ UNCHANGED <<stored, meant, failures, started>>
  BY DEF Unload
<1>2. \A i, j \in DOMAIN ops : ops[i].op = "read" /\ ops[j].op = "read" => i = j
  BY DEF StorageOK, Reads
<1>3. /\ ops' \in Seq(Calls)
      /\ \A i \in DOMAIN ops' : ops'[i].op = "write" /\ \E j \in DOMAIN ops : ops'[i] = ops[j]
      /\ \A i \in DOMAIN ops : ops[i].op = "write" =>
            \E k \in DOMAIN ops' :
               /\ ops'[k] = ops[i]
               /\ \A m \in DOMAIN ops' :
                     k < m => \E j \in DOMAIN ops : i < j /\ ops'[m] = ops[j]
  <2>1. ops \in Seq(Calls)
    BY DEF LaunchTyped
  <2> QED BY <1>1, <1>2, <2>1, WithoutReadIs
<1>4. WillBeMeant => WillBeMeant'
  <2>1. CASE stored = meant /\ \A i \in DOMAIN ops : ~Writes(i)
    <3>1. \A i \in DOMAIN ops' : ~Writes(i)'
      BY <2>1, <1>3 DEF Writes
    <3> QED BY <3>1, <2>1, <1>1 DEF WillBeMeant
  <2>2. ASSUME NEW i \in DOMAIN ops, Writes(i), ops[i].launch = meant,
               \A j \in DOMAIN ops : i < j => ~Writes(j)
        PROVE  WillBeMeant'
    <3>1. PICK k \in DOMAIN ops' :
             /\ ops'[k] = ops[i]
             /\ \A m \in DOMAIN ops' : k < m => \E j \in DOMAIN ops : i < j /\ ops'[m] = ops[j]
      BY <2>2, <1>3 DEF Writes
    <3>2. Writes(k)' /\ ops'[k].launch = meant'
      BY <3>1, <2>2, <1>1 DEF Writes
    <3>3. \A m \in DOMAIN ops' : k < m => ~Writes(m)'
      BY <3>1, <2>2 DEF Writes
    <3> QED BY <3>2, <3>3 DEF WillBeMeant
  <2> QED BY <2>1, <2>2 DEF WillBeMeant
<1>5. \A i \in DOMAIN ops' : ~Reads(i)'
  BY <1>3 DEF Reads
<1>6. StorageOK'
  BY <1>1, <1>4, <1>5 DEF StorageOK
<1>7. LaunchTyped'
  BY <1>1, <1>3 DEF LaunchTyped
<1>8. LaunchesKnown'
  <2>1. ~Busy'
    BY <1>1 DEF Busy, BusyPcs, NoRuns
  <2>2. \A k \in Nat : Passed(k) => Passed(k)'
    BY <2>1, <1>1 DEF Passed
  <2>3. Ages
    BY <2>2 DEF Ages
  <2>4. Known(launch)'
    BY <1>1 DEF Known
  <2>5. Known(stored)'
    <3>1. PICK l \in Launches \cup {None} : l = stored
      BY DEF LaunchTyped
    <3>2. l # None => Passed(l.at)'
      BY <3>1, <2>3, KnownAges DEF LaunchesKnown
    <3> QED BY <3>1, <3>2, <1>1 DEF Known
  <2>6. \A i \in DOMAIN ops' : Known(ops[i].launch)'
    <3> TAKE i \in DOMAIN ops'
    <3>1. PICK j \in DOMAIN ops : ops'[i] = ops[j]
      BY <1>3
    <3>2. ops[j] \in Calls
      BY LenProperties, ElementOfSeq DEF LaunchTyped
    <3>3. PICK l \in Launches \cup {None} : l = ops[j].launch
      BY <3>2 DEF Calls
    <3>4. l # None => Passed(l.at)'
      BY <3>3, <2>3, KnownAges DEF LaunchesKnown
    <3> QED BY <3>1, <3>3, <3>4 DEF Known
  <2> QED BY <2>4, <2>5, <2>6 DEF LaunchesKnown
<1> QED BY <1>6, <1>7, <1>8

-----------------------------------------------------------------------------
(* Runs *)

\* No run is in progress but that of one click.
Alone(c) == \A e \in Clicks : e # c => runs[e].pc = "idle"

\* The pending run is the only one.
LEMMA PendingIsAlone ==
  ASSUME RunsOK, NEW c \in Clicks, pendingRun \in {None, c}
  PROVE  Alone(c)
BY NoneAssumption DEF RunsOK, RunOK, Alone

\* What becomes of the one run that moves.
LEMMA RunMoves ==
  ASSUME RunsTyped, NEW c \in Clicks, NEW pc, NEW t, At(c, pc, t)
  PROVE  /\ runs'[c].pc = pc /\ runs'[c].tab = t /\ runs'[c].number = runs[c].number
         /\ \A e \in Clicks : e # c => runs'[e] = runs[e]
BY DEF RunsTyped, At

\* The moved run has the type of a run.
LEMMA RunMovesTyped ==
  ASSUME RunsTyped, NEW c \in Clicks, NEW pc, NEW t, At(c, pc, t),
         pc \in {"idle", "restoring", "loading", "checking", "navigating", "opening"},
         t \in Tabs \cup {None}
  PROVE  runs' \in [Clicks -> [pc : {"idle", "restoring", "loading", "checking", "navigating", "opening"},
                               number : 0..MaxRuns, tab : Tabs \cup {None}]]
BY DEF RunsTyped, At

\* Where no run moves, none is disturbed as long as the restore stays done.
LEMMA RunsStay ==
  ASSUME RunsTyped, RunsOK, UNCHANGED <<pendingRun, runs, started>>,
         restoring = "done" => restoring' = "done"
  PROVE  RunsTyped' /\ RunsOK' /\ Ages
<1>1. RunsTyped'
  BY DEF RunsTyped
<1>2. RunsOK'
  BY DEF RunsOK, RunOK
<1>3. Ages
  BY DEF Ages, Passed, Busy
<1> QED BY <1>1, <1>2, <1>3

\* A busy run goes on.
LEMMA RunGoesOn ==
  ASSUME RunsTyped, RunsOK, NEW c \in Clicks, NEW pc, NEW t, At(c, pc, t),
         UNCHANGED <<pendingRun, started>>, runs[c].pc \in BusyPcs,
         pc \in BusyPcs, t \in Tabs, restoring' = "done"
  PROVE  RunsTyped' /\ RunsOK' /\ Ages
<1>1. /\ runs'[c].pc = pc /\ runs'[c].tab = t /\ runs'[c].number = runs[c].number
      /\ \A e \in Clicks : e # c => runs'[e] = runs[e]
  BY RunMoves
<1>2. pendingRun = c /\ runs[c].number = started /\ 1 <= started
  BY DEF RunsOK, RunOK, BusyPcs
<1>3. Alone(c)
  BY <1>2, PendingIsAlone
<1>4. RunOK(c)'
  BY <1>1, <1>2 DEF RunOK, BusyPcs
<1>5. \A e \in Clicks : e # c => RunOK(e)'
  BY <1>1, <1>3 DEF Alone, RunOK, BusyPcs
<1>6. RunsOK'
  BY <1>4, <1>5 DEF RunsOK
<1>7. Busy
  BY DEF Busy
<1>8. Ages
  BY <1>7 DEF Ages, Passed
<1>9. RunsTyped'
  <2>1. pc \in {"idle", "restoring", "loading", "checking", "navigating", "opening"}
    BY DEF BusyPcs
  <2> QED BY <2>1, RunMovesTyped DEF RunsTyped
<1> QED BY <1>6, <1>8, <1>9

\* The one run ends: none is busy.
LEMMA RunFinishes ==
  ASSUME RunsTyped, RunsOK, NEW c \in Clicks, Finish(c), Alone(c), UNCHANGED started
  PROVE  RunsTyped' /\ RunsOK' /\ Ages /\ ~Busy'
<1>1. /\ runs'[c].pc = "idle"
      /\ \A e \in Clicks : e # c => runs'[e] = runs[e]
  BY RunMoves DEF Finish
<1>2. \A e \in Clicks : runs'[e].pc = "idle"
  BY <1>1 DEF Alone
<1>3. ~Busy'
  BY <1>2 DEF Busy, BusyPcs
<1>4. RunsOK'
  BY <1>2 DEF RunsOK, RunOK, BusyPcs
<1>5. Ages
  BY <1>3 DEF Ages, Passed
<1>6. RunsTyped'
  BY RunMovesTyped DEF RunsTyped, Finish
<1> QED BY <1>3, <1>4, <1>5, <1>6

\* A run takes its number, or ends before that.
LEMMA RunStarts ==
  ASSUME RunsTyped, RunsOK, NEW c \in Clicks, startOrFocus(c), Alone(c),
         started < MaxRuns, restoring = "done"
  PROVE  RunsTyped' /\ RunsOK' /\ Ages
<1>1. CASE Offered /\ enabled /\ ~blocked
  <2>1. /\ runs' = [runs EXCEPT ![c].pc = "loading", ![c].number = started + 1]
        /\ started' = started + 1
        /\ pendingRun' = c
        /\ restoring' = restoring
    BY <1>1 DEF startOrFocus, launchStays
  <2>2. started + 1 \in 0..MaxRuns
    BY BoundsAssumption DEF RunsTyped
  <2>3. /\ runs'[c].pc = "loading" /\ runs'[c].number = started + 1
        /\ \A e \in Clicks : e # c => runs'[e] = runs[e]
    BY <2>1 DEF RunsTyped
  <2>4. RunOK(c)'
    BY <2>1, <2>2, <2>3 DEF RunOK, BusyPcs, RunsTyped
  <2>5. \A e \in Clicks : e # c => RunOK(e)'
    BY <2>3 DEF Alone, RunOK, BusyPcs
  <2>6. RunsOK'
    BY <2>4, <2>5 DEF RunsOK
  <2>7. Ages
    BY <2>1 DEF Ages, Passed, RunsTyped
  <2>8. runs' \in [Clicks -> [pc : {"idle", "restoring", "loading", "checking", "navigating", "opening"},
                              number : 0..MaxRuns, tab : Tabs \cup {None}]]
    BY <2>1, <2>2 DEF RunsTyped
  <2>9. RunsTyped'
    BY <2>1, <2>2, <2>8 DEF RunsTyped
  <2> QED BY <2>6, <2>7, <2>9
<1>2. CASE ~(Offered /\ enabled /\ ~blocked)
  BY <1>2, RunFinishes DEF startOrFocus
<1> QED BY <1>1, <1>2

\* A run waits for the restore.
LEMMA RunWaits ==
  ASSUME RunsTyped, RunsOK, NEW c \in Clicks, At(c, "restoring", None), Alone(c),
         pendingRun' = c, UNCHANGED started, started < MaxRuns, runs[c].pc = "idle"
  PROVE  RunsTyped' /\ RunsOK' /\ Ages
<1>1. /\ runs'[c].pc = "restoring"
      /\ \A e \in Clicks : e # c => runs'[e] = runs[e]
  BY RunMoves
<1>2. ~Busy'
  BY <1>1 DEF Busy, BusyPcs, Alone
<1>3. Ages
  BY <1>2 DEF Ages, Passed
<1>4. RunOK(c)'
  BY <1>1 DEF RunOK, BusyPcs
<1>5. \A e \in Clicks : e # c => RunOK(e)'
  BY <1>1 DEF Alone, RunOK, BusyPcs
<1>6. RunsOK'
  BY <1>4, <1>5 DEF RunsOK
<1>7. RunsTyped'
  BY RunMovesTyped DEF RunsTyped
<1> QED BY <1>3, <1>6, <1>7

-----------------------------------------------------------------------------
(* Documents *)

\* A tab stays, or the removal is heard of where the launch is.
HereStays ==
    \A t \in Tabs : Here(t) =>
        Here(t)' \/ (restoring' = "done" /\ (launch' = None \/ launch'.tab # t))

\* The rule that appears ends any launch.
RuleStays == hasRule' => hasRule \/ launch' = None

\* A captured launch that is current was so before.
CurrentStays ==
    \A l \in Launches : restoring = "done" /\ Passed(l.at) /\ isCurrent(l)' => isCurrent(l)

\* The restore is done once.
DoneStays == restoring = "done" => restoring' = "done"

\* Steps with the launch make nothing current that was not, and undo no restore.
LEMMA LaunchStepStays ==
  ASSUME LaunchTyped, RestTyped, LaunchStep
  PROVE  CurrentStays /\ DoneStays
<1>1. CurrentStays
  BY StaysCurrent DEF CurrentStays
<1>2. DoneStays
  BY DEF LaunchStep, Sets, launchStays, setLaunch, ensureRestored, DoneStays
<1> QED BY <1>1, <1>2

\* A request nobody answers relies on what it did.
LEMMA DocumentStays ==
  ASSUME DocumentsTyped, NEW d \in Docs, requests[d] # None, DocumentOK(d),
         requests'[d] = requests[d], Ages, CurrentStays, HereStays, RuleStays, DoneStays,
         js \subseteq js', Shown(d)' => Shown(d)
  PROVE  DocumentOK(d)'
<1> DEFINE r == requests[d]
<1>1. r \in Requests
  BY DEF DocumentsTyped
<1>2. r.launch \in Launches \cup {None} /\ r.tab \in Tabs
  BY <1>1 DEF Requests
<1>3. Known(r.launch)'
  <2>1. PICK l \in Launches \cup {None} : l = r.launch
    BY <1>2
  <2>2. l # None => Passed(l.at)'
    BY <2>1, KnownAges DEF DocumentOK
  <2> QED BY <2>1, <2>2 DEF Known
<1>4. ASSUME r.pc \in {"loading", "executing", "executed", "unexecuted"}, isCurrent(r.launch)'
      PROVE  /\ isCurrent(r.launch)
             /\ launch' # None /\ launch'.tab = r.tab
  <2>1. restoring = "done" /\ r.launch \in Launches /\ r.launch.tab = r.tab
    BY <1>4 DEF DocumentOK
  <2>2. PICK l \in Launches : l = r.launch
    BY <2>1
  <2>3. Passed(l.at)
    BY <2>2, LaunchNumber DEF DocumentOK, Known
  <2>4. launch' # None /\ launch'.tab = l.tab /\ launch'.at = l.at
    BY <1>4, <2>2 DEF isCurrent
  <2>5. isCurrent(l)
    BY <2>1, <2>3, <2>4 DEF CurrentStays, isCurrent
  <2> QED BY <2>1, <2>2, <2>4, <2>5
<1> DEFINE r2 == requests'[d]
<1>5. r2.pc \in {"loading", "executing", "executed", "unexecuted"} =>
         restoring' = "done" /\ r2.launch \in Launches /\ r2.launch.tab = r2.tab
  BY DEF DocumentOK, DoneStays
<1>6. r2.pc = "loading" /\ isCurrent(requests[d].launch)' => ~hasRule'
  <2>1. ASSUME r2.pc = "loading", isCurrent(requests[d].launch)' PROVE ~hasRule'
    <3>1. isCurrent(r.launch) /\ launch' # None
      BY <2>1, <1>4 DEF isCurrent
    <3> QED BY <2>1, <3>1 DEF DocumentOK, RuleStays
  <2> QED BY <2>1
<1>7. r2.pc = "executed" /\ isCurrent(requests[d].launch)' => Here(requests[d].tab)'
  <2>1. ASSUME r2.pc = "executed", isCurrent(requests[d].launch)' PROVE Here(requests[d].tab)'
    <3>1. isCurrent(r.launch) /\ launch' # None /\ launch'.tab = r.tab
      BY <2>1, <1>4 DEF isCurrent
    <3>2. Here(r.tab)
      BY <2>1, <3>1 DEF DocumentOK
    <3>3. PICK t \in Tabs : t = r.tab
      BY <1>2
    <3>4. Here(t)'
      BY <3>1, <3>2, <3>3 DEF HereStays
    <3> QED BY <3>3, <3>4 DEF Here, Open
  <2> QED BY <2>1
<1>8. r2.pc \in {"executed", "served"} /\ Shown(d)' => d \in js'
  BY DEF DocumentOK
<1>9. Known(requests[d].launch)'
  BY <1>3 DEF Known
<1> QED BY <1>5, <1>6, <1>7, <1>8, <1>9 DEF DocumentOK

\* What a tab shows instead is no document that asked for anything.
PagesQuiet == \A t \in Tabs : pages'[t] = pages[t] \/ pages'[t] \in {Unopened, Closed, Blank}

\* No document is the number of a page without one.
LEMMA DocumentIsNumber ==
  ASSUME NEW d \in Docs
  PROVE  d \in Nat /\ d \notin {Unopened, Closed, Blank}
<1>1. MaxDocuments \in Nat
  BY BoundsAssumption
<1>2. d \in Nat /\ d >= 1
  BY <1>1 DEF Docs
<1> QED BY <1>2 DEF Unopened, Closed, Blank

\* Where no request and no script moves, the documents keep what they rely on.
LEMMA DocumentsStay ==
  ASSUME DocumentsTyped, DocumentsOK, UNCHANGED <<requests, js, css>>, PagesQuiet,
         pages' \in [Tabs -> {Unopened, Closed, Blank} \cup Docs],
         Ages, CurrentStays, HereStays, RuleStays, DoneStays
  PROVE  DocumentsTyped' /\ DocumentsOK'
<1>1. DocumentsTyped'
  BY DEF DocumentsTyped
<1>2. \A d \in Docs, t \in Tabs : pages'[t] = d => pages[t] = d
  BY DocumentIsNumber DEF PagesQuiet
<1>3. ASSUME NEW d \in Docs, requests'[d] # None PROVE DocumentOK(d)'
  <2>1. requests[d] # None /\ DocumentOK(d) /\ requests'[d] = requests[d]
    BY <1>3 DEF DocumentsOK
  <2>2. requests[d] \in Requests
    BY <2>1 DEF DocumentsTyped
  <2>3. requests[d].tab \in Tabs
    BY <2>2 DEF Requests
  <2>4. Shown(d)' => Shown(d)
    BY <2>1, <2>3, <1>2 DEF Shown
  <2>5. js \subseteq js'
    OBVIOUS
  <2> QED BY <2>1, <2>4, <2>5, DocumentStays
<1>4. PagesOK'
  BY <1>2 DEF DocumentsOK, PagesOK
<1>5. css' \subseteq js'
  BY DEF DocumentsOK
<1> QED BY <1>1, <1>3, <1>4, <1>5 DEF DocumentsOK

\* The launch last set stays with its tab.
LEMMA MeantStays ==
  ASSUME LaunchTyped, MeantOK, StorageOK', HereStays, UNCHANGED meant,
         failures' = 0 => failures = 0
  PROVE  MeantOK'
<1>1. ASSUME failures' = 0, meant' # None, meant'.status = "applied"
      PROVE  Here(meant.tab)'
  <2>1. Here(meant.tab)
    BY <1>1 DEF MeantOK
  <2>2. PICK t \in Tabs : t = meant.tab
    BY <1>1, LaunchNumber DEF LaunchTyped
  <2>3. restoring' = "done" => launch' = meant
    BY <1>1 DEF StorageOK
  <2>4. Here(t)'
    BY <2>1, <2>2, <2>3, <1>1 DEF HereStays
  <2> QED BY <2>2, <2>4 DEF Here, Open
<1> QED BY <1>1 DEF MeantOK

\* A step with the launch binds an applied launch only to a tab that is there.
LEMMA LaunchStepKeepsMeant ==
  ASSUME LaunchTyped, MeantOK, StorageOK', HereStays, LaunchStep
  PROVE  MeantOK'
<1>1. UNCHANGED failures
  BY DEF LaunchStep
<1>2. ASSUME NEW l \in Launches \cup {None}, setLaunch(l), May(l) PROVE MeantOK'
  <2>1. meant' = l /\ launch' = l
    BY <1>2 DEF setLaunch
  <2>2. ASSUME l # None, l.status = "applied" PROVE Here(l.tab)'
    <3>1. PICK t \in Tabs : t = l.tab
      BY <2>2, LaunchNumber
    <3>2. Here(t)
      BY <1>2, <2>2, <3>1 DEF May
    <3>3. Here(t)'
      BY <2>1, <2>2, <3>1, <3>2 DEF HereStays
    <3> QED BY <3>1, <3>3
  <2>3. ASSUME meant' # None, meant'.status = "applied" PROVE Here(meant.tab)'
    BY <2>1, <2>2, <2>3 DEF Here, Open
  <2> QED BY <2>3 DEF MeantOK
<1>3. UNCHANGED meant => MeantOK'
  BY <1>1, MeantStays
<1>4. launchStays \/ ensureRestored => UNCHANGED meant
  BY DEF launchStays, ensureRestored
<1> QED BY <1>2, <1>3, <1>4 DEF LaunchStep, Sets

\* A step that touches the launch and no document.
LEMMA QuietStep ==
  ASSUME IInv, LaunchStep, RunsTyped', RunsOK', Ages, OtherTyped', HereStays, RuleStays,
         UNCHANGED <<requests, js, css>>, PagesQuiet,
         pages' \in [Tabs -> {Unopened, Closed, Blank} \cup Docs]
  PROVE  IInv'
<1>1. LaunchTyped /\ RunsTyped /\ DocumentsTyped /\ RestTyped
  BY TypedParts DEF IInv, RestTyped
<1>2. StorageOK' /\ LaunchTyped'
  BY <1>1, LaunchStepKeepsStorage DEF IInv
<1>3. LaunchesKnown'
  BY <1>1, LaunchStepKeepsKnown DEF IInv
<1>4. CurrentStays /\ DoneStays
  BY <1>1, LaunchStepStays
<1>5. DocumentsTyped' /\ DocumentsOK'
  BY <1>1, <1>4, DocumentsStay DEF IInv
<1>6. MeantOK'
  BY <1>1, <1>2, LaunchStepKeepsMeant DEF IInv
<1>7. Typed'
  <2>1. RestTyped'
    BY <1>5 DEF RestTyped
  <2> QED BY <1>2, <2>1, TypedPartsNext
<1> QED BY <1>2, <1>3, <1>5, <1>6, <1>7 DEF IInv

\* A tab that nothing happens to stays.
LEMMA NothingRemoved ==
  ASSUME UNCHANGED removals, \A t \in Tabs : Open(t) => Open(t)'
  PROVE  HereStays
BY DEF HereStays, Here, removals

\* The answer to a document moves on.
LEMMA DocumentMoves ==
  ASSUME IInv, LaunchStep, UNCHANGED <<runner, pages>>, NEW d \in Docs, requests[d] # None,
         NEW r \in Requests, requests' = [requests EXCEPT ![d] = r], r.tab = requests[d].tab,
         js \subseteq js', js' \subseteq Docs, css' \subseteq js', DocumentOK(d)'
  PROVE  IInv'
<1>1. LaunchTyped /\ RunsTyped /\ DocumentsTyped /\ OtherTyped /\ RestTyped
  BY TypedParts DEF IInv, RestTyped
<1>2. UNCHANGED <<removals, pendingRun, runs, asker, settings, started>>
  BY DEF runner, counters
<1>3. StorageOK' /\ LaunchTyped'
  BY <1>1, LaunchStepKeepsStorage DEF IInv
<1>4. CurrentStays /\ DoneStays
  BY <1>1, LaunchStepStays
<1>5. RunsTyped' /\ RunsOK' /\ Ages
  BY <1>1, <1>2, <1>4, RunsStay DEF IInv, DoneStays
<1>6. OtherTyped'
  BY <1>1, <1>2 DEF OtherTyped, removals, settings
<1>7. LaunchesKnown'
  BY <1>1, <1>5, LaunchStepKeepsKnown DEF IInv
<1>8. HereStays
  BY <1>2, NothingRemoved DEF Open
<1>9. MeantOK'
  BY <1>1, <1>3, <1>8, LaunchStepKeepsMeant DEF IInv
<1>10. RuleStays
  BY <1>2 DEF RuleStays, settings
<1>11. /\ requests'[d] = r
       /\ \A e \in Docs : e # d => requests'[e] = requests[e]
       /\ requests' \in [Docs -> {None} \cup Requests]
  BY <1>1 DEF DocumentsTyped
<1>12. DocumentsTyped'
  BY <1>1, <1>11 DEF DocumentsTyped
<1>13. ASSUME NEW e \in Docs, requests'[e] # None PROVE DocumentOK(e)'
  <2>1. CASE e = d
    BY <2>1
  <2>2. CASE e # d
    <3>1. requests'[e] = requests[e] /\ requests[e] # None
      BY <1>11, <1>13, <2>2
    <3>2. DocumentOK(e)
      BY <3>1 DEF IInv, DocumentsOK
    <3>3. Shown(e)' => Shown(e)
      BY <3>1 DEF Shown
    <3> QED BY <1>1, <1>4, <1>5, <1>8, <1>10, <3>1, <3>2, <3>3, DocumentStays
  <2> QED BY <2>1, <2>2
<1>14. PagesOK'
  <2>1. r # None
    BY NoneAssumption
  <2> QED BY <1>11, <2>1 DEF IInv, DocumentsOK, PagesOK
<1>15. DocumentsOK'
  BY <1>13, <1>14 DEF DocumentsOK
<1>16. Typed'
  <2>1. RestTyped'
    BY <1>5, <1>6, <1>12 DEF RestTyped
  <2> QED BY <1>3, <2>1, TypedPartsNext
<1> QED BY <1>3, <1>5, <1>7, <1>9, <1>15, <1>16 DEF IInv

-----------------------------------------------------------------------------
(* The steps of a run *)

\* What a step of a run leaves alone.
LEMMA OthersStay ==
  ASSUME UNCHANGED others, OtherTyped
  PROVE  /\ OtherTyped' /\ RuleStays
         /\ UNCHANGED <<removals, asker, requests, settings, failures>>
BY DEF others, OtherTyped, RuleStays, removals, settings

\* Setting nothing is always allowed.
LEMMA MayEnd == May(None)
BY DEF May

\* A step of a run that leaves the pages alone.
LEMMA RunStep ==
  ASSUME IInv, LaunchStep, RunsTyped', RunsOK', Ages, UNCHANGED <<others, web>>
  PROVE  IInv'
<1>1. OtherTyped /\ DocumentsTyped
  BY TypedParts DEF IInv, RestTyped
<1>2. OtherTyped' /\ RuleStays /\ UNCHANGED <<removals, requests>>
  BY <1>1, OthersStay
<1>3. UNCHANGED <<pages, js, css>>
  BY DEF web
<1>4. HereStays
  BY <1>2, <1>3, NothingRemoved DEF Open
<1>5. PagesQuiet /\ pages' \in [Tabs -> {Unopened, Closed, Blank} \cup Docs]
  BY <1>1, <1>3 DEF PagesQuiet, DocumentsTyped
<1> QED BY <1>2, <1>3, <1>4, <1>5, QuietStep

\* A run is clicked.
LEMMA RunClicked ==
  ASSUME IInv, NEW c \in Clicks, run(c)
  PROVE  IInv'
<1>1. LaunchTyped /\ RunsTyped
  BY TypedParts DEF IInv, RestTyped
<1>2. Alone(c)
  BY PendingIsAlone DEF IInv, run
<1>3. CASE restoring = "done" /\ startOrFocus(c)
  <2>1. RunsTyped' /\ RunsOK' /\ Ages
    BY <1>1, <1>2, <1>3, RunStarts DEF IInv, run, BeginRun
  <2>2. LaunchStep /\ UNCHANGED <<others, web>>
    BY <1>3 DEF startOrFocus, LaunchStep, others
  <2> QED BY <2>1, <2>2, RunStep
<1>4. CASE ensureRestored /\ At(c, "restoring", None) /\ pendingRun' = c
           /\ UNCHANGED <<others, started, web>>
  <2>1. RunsTyped' /\ RunsOK' /\ Ages
    BY <1>1, <1>2, <1>4, RunWaits DEF IInv, run, BeginRun
  <2>2. LaunchStep /\ UNCHANGED <<others, web>>
    BY <1>4 DEF LaunchStep, others
  <2> QED BY <2>1, <2>2, RunStep
<1> QED BY <1>3, <1>4 DEF run, BeginRun

\* A run that waited for the restore goes on.
LEMMA RunResumed ==
  ASSUME IInv, NEW c \in Clicks, ResumeRun(c)
  PROVE  IInv'
<1>1. LaunchTyped /\ RunsTyped
  BY TypedParts DEF IInv, RestTyped
<1>2. pendingRun = c /\ started < MaxRuns
  BY DEF IInv, RunsOK, RunOK, ResumeRun
<1>3. Alone(c)
  BY <1>2, PendingIsAlone DEF IInv
<1>4. RunsTyped' /\ RunsOK' /\ Ages
  BY <1>1, <1>2, <1>3, RunStarts DEF IInv, ResumeRun
<1>5. LaunchStep /\ UNCHANGED <<others, web>>
  BY DEF ResumeRun, startOrFocus, LaunchStep, others
<1> QED BY <1>4, <1>5, RunStep

\* A busy run is alone, and knows what it began with.
LEMMA BusyRun ==
  ASSUME IInv, NEW c \in Clicks, runs[c].pc \in BusyPcs
  PROVE  /\ LaunchTyped /\ RunsTyped /\ Alone(c) /\ Busy
         /\ restoring = "done" /\ pendingRun = c
         /\ runs[c].number = started /\ started \in 1..MaxRuns
<1>1. LaunchTyped /\ RunsTyped
  BY TypedParts DEF IInv, RestTyped
<1>2. RunOK(c) /\ runs[c].pc # "idle"
  BY DEF IInv, RunsOK, BusyPcs
<1>3. pendingRun = c
  BY <1>2 DEF RunOK
<1>4. restoring = "done" /\ runs[c].number = started /\ 1 <= started
  BY <1>2 DEF RunOK
<1>5. started \in 1..MaxRuns
  BY <1>1, <1>4, BoundsAssumption DEF RunsTyped
<1>6. Alone(c)
  BY <1>3, PendingIsAlone DEF IInv
<1>7. Busy
  BY DEF Busy
<1> QED BY <1>1, <1>3, <1>4, <1>5, <1>6, <1>7

\* The busy run ends without a launch of its own.
LEMMA RunEndsQuietly ==
  ASSUME IInv, NEW c \in Clicks, runs[c].pc \in BusyPcs, Finish(c), launchStays,
         UNCHANGED <<others, started, web>>
  PROVE  IInv'
<1>1. RunsTyped' /\ RunsOK' /\ Ages
  BY BusyRun, RunFinishes DEF IInv
<1>2. LaunchStep /\ UNCHANGED <<others, web>>
  BY DEF LaunchStep, others
<1> QED BY <1>1, <1>2, RunStep

\* The busy run ends with the launch it sets.
LEMMA RunEndsArmed ==
  ASSUME IInv, NEW c \in Clicks, runs[c].pc \in {"navigating", "opening"}, Finish(c),
         setLaunch(Armed(runs[c].tab, runs[c].number)), UNCHANGED <<others, started, web>>
  PROVE  IInv'
<1> DEFINE l == Armed(runs[c].tab, runs[c].number)
<1>1. runs[c].pc \in BusyPcs \ {"loading"}
  BY DEF BusyPcs
<1>2. /\ LaunchTyped /\ RunsTyped /\ Alone(c) /\ Busy
      /\ restoring = "done"
      /\ runs[c].number = started /\ started \in 1..MaxRuns
  BY <1>1, BusyRun
<1>3. RunsTyped' /\ RunsOK' /\ Ages /\ ~Busy'
  BY <1>2, RunFinishes DEF IInv
<1>4. runs[c].tab \in Tabs
  BY <1>1 DEF IInv, RunsOK, RunOK
<1>5. PICK k \in Launches : k = l /\ k.at = started /\ k.status = "waiting"
  <2>1. l = [tab |-> runs[c].tab, at |-> started, status |-> "waiting", failure |-> ""]
    BY <1>2 DEF Armed
  <2> HIDE DEF l
  <2>2. l.at = started /\ l.status = "waiting"
    BY <2>1
  <2>3. l \in Launches
    BY <2>1, <1>2, <1>4 DEF Launches, Statuses, Failures
  <2> QED BY <2>2, <2>3
<1>6. Passed(k.at)'
  BY <1>2, <1>3, <1>5 DEF Passed
<1>7. May(k)
  BY <1>2, <1>5, <1>6 DEF May
<1>8. setLaunch(k)
  BY <1>5
<1>9. LaunchStep /\ UNCHANGED <<others, web>>
  BY <1>7, <1>8 DEF LaunchStep, Sets, others
<1> QED BY <1>3, <1>9, RunStep

\* The busy run asks for a tab of its own.
LEMMA RunOpensTab ==
  ASSUME IInv, NEW c \in Clicks, runs[c].pc \in BusyPcs, openTab(c), UNCHANGED <<others, started>>
  PROVE  IInv'
<1>1. /\ LaunchTyped /\ RunsTyped /\ Alone(c)
      /\ restoring = "done" /\ pendingRun = c
      /\ OtherTyped /\ DocumentsTyped
  BY BusyRun, TypedParts DEF IInv, RestTyped
<1>2. OtherTyped' /\ RuleStays /\ UNCHANGED <<removals, requests, js, css>>
  BY <1>1, OthersStay DEF openTab
<1>3. LaunchStep
  BY MayEnd DEF openTab, LaunchStep, Sets, others
<1>4. ASSUME NEW t \in Tabs, pages[t] = Unopened, pages' = [pages EXCEPT ![t] = Blank],
             At(c, "opening", t), UNCHANGED pendingRun
      PROVE  IInv'
  <2>1. restoring' = "done"
    BY <1>1 DEF openTab, setLaunch
  <2>2. "opening" \in BusyPcs
    BY DEF BusyPcs
  <2>3. RunsTyped' /\ RunsOK' /\ Ages
    BY <1>1, <1>4, <2>1, <2>2, RunGoesOn DEF IInv
  <2>4. PagesQuiet /\ pages' \in [Tabs -> {Unopened, Closed, Blank} \cup Docs]
    BY <1>1, <1>4 DEF PagesQuiet, DocumentsTyped
  <2>5. \A u \in Tabs : Open(u) => Open(u)'
    BY <1>1, <1>4 DEF Open, DocumentsTyped, Unopened, Closed, Blank
  <2>6. HereStays
    BY <1>2, <2>5, NothingRemoved
  <2> QED BY <1>2, <1>3, <2>3, <2>4, <2>6, QuietStep
<1>5. ASSUME Finish(c), UNCHANGED pages PROVE IInv'
  <2>1. RunsTyped' /\ RunsOK' /\ Ages
    BY <1>1, <1>5, RunFinishes DEF IInv
  <2>2. UNCHANGED <<others, web>>
    BY <1>2, <1>5 DEF web
  <2> QED BY <1>3, <2>1, <2>2, RunStep
<1> QED BY <1>4, <1>5 DEF openTab

\* The steps of a busy run.
LEMMA RunMoved ==
  ASSUME IInv, NEW c \in Clicks, Run(c)
  PROVE  IInv'
<1>1. ASSUME NEW pc \in BusyPcs, NEW t \in Tabs, runs[c].pc \in BusyPcs, At(c, pc, t),
             launchStays, UNCHANGED <<others, started, pendingRun, web>>
      PROVE  IInv'
  <2>1. LaunchTyped /\ RunsTyped /\ restoring = "done"
    BY <1>1, BusyRun
  <2>2. restoring' = "done"
    BY <2>1, <1>1 DEF launchStays
  <2>3. RunsTyped' /\ RunsOK' /\ Ages
    BY <1>1, <2>1, <2>2, RunGoesOn DEF IInv
  <2>4. LaunchStep /\ UNCHANGED <<others, web>>
    BY <1>1 DEF LaunchStep, others
  <2> QED BY <2>3, <2>4, RunStep
<1>2. CASE RunLoaded(c)
  <2>1. runs[c].pc \in BusyPcs
    BY <1>2 DEF RunLoaded, BusyPcs
  <2>2. CASE launch # None /\ At(c, "checking", launch.tab) /\ launchStays
             /\ UNCHANGED <<pendingRun, web>>
    <3>1. PICK t \in Tabs : t = launch.tab
      BY <2>1, <2>2, BusyRun, LaunchNumber DEF LaunchTyped
    <3>2. At(c, "checking", t) /\ "checking" \in BusyPcs
      BY <2>2, <3>1 DEF BusyPcs
    <3> QED BY <1>1, <1>2, <2>1, <2>2, <3>2 DEF RunLoaded
  <2>3. CASE openTab(c)
    BY <1>2, <2>1, <2>3, RunOpensTab DEF RunLoaded
  <2> QED BY <1>2, <2>2, <2>3 DEF RunLoaded
<1>3. CASE RunUnloaded(c)
  <2>1. runs[c].pc \in BusyPcs
    BY <1>3 DEF RunUnloaded, BusyPcs
  <2> QED BY <1>3, <2>1, RunEndsQuietly DEF RunUnloaded
<1>4. CASE TabChecked(c)
  <2>1. runs[c].pc \in BusyPcs \ {"loading"}
    BY <1>4 DEF TabChecked, BusyPcs
  <2>2. CASE At(c, "navigating", runs[c].tab) /\ launchStays /\ UNCHANGED <<pendingRun, web>>
    <3>1. PICK t \in Tabs : t = runs[c].tab
      BY <2>1 DEF IInv, RunsOK, RunOK
    <3>2. At(c, "navigating", t) /\ "navigating" \in BusyPcs
      BY <2>2, <3>1 DEF BusyPcs
    <3> QED BY <1>1, <1>4, <2>1, <2>2, <3>2 DEF TabChecked
  <2>3. CASE openTab(c)
    BY <1>4, <2>1, <2>3, RunOpensTab DEF TabChecked
  <2> QED BY <1>4, <2>2, <2>3 DEF TabChecked
<1>5. CASE Navigated(c)
  <2>1. runs[c].pc \in {"navigating", "opening"}
    BY <1>5 DEF Navigated
  <2> QED BY <1>5, <2>1, RunEndsArmed DEF Navigated
<1>6. CASE NavigationFailed(c)
  <2>1. runs[c].pc \in BusyPcs
    BY <1>6 DEF NavigationFailed, BusyPcs
  <2> QED BY <1>6, <2>1, RunOpensTab DEF NavigationFailed
<1>7. CASE Opened(c)
  <2>1. runs[c].pc \in {"navigating", "opening"} /\ runs[c].pc \in BusyPcs
    BY <1>7 DEF Opened, BusyPcs
  <2>2. CASE Offered
    BY <1>7, <2>1, <2>2, RunEndsArmed DEF Opened
  <2>3. CASE ~Offered
    BY <1>7, <2>1, <2>3, RunEndsQuietly DEF Opened
  <2> QED BY <2>2, <2>3
<1> QED BY <1>2, <1>3, <1>4, <1>5, <1>6, <1>7 DEF Run

-----------------------------------------------------------------------------
(* The steps of a request *)

\* What a request is and relies on.
LEMMA TheRequest ==
  ASSUME IInv, NEW d \in Docs, requests[d] # None
  PROVE  /\ requests[d] \in Requests /\ DocumentOK(d)
         /\ requests[d].tab \in Tabs
         /\ requests[d].launch \in Launches \cup {None}
         /\ LaunchTyped /\ DocumentsTyped
         /\ css \subseteq js /\ js \subseteq Docs
<1>1. LaunchTyped /\ DocumentsTyped
  BY TypedParts DEF IInv, RestTyped
<1>2. requests[d] \in Requests
  BY <1>1 DEF DocumentsTyped
<1>3. requests[d].tab \in Tabs /\ requests[d].launch \in Launches \cup {None}
  BY <1>2 DEF Requests
<1>4. DocumentOK(d) /\ css \subseteq js
  BY DEF IInv, DocumentsOK
<1>5. js \subseteq Docs
  BY <1>1 DEF DocumentsTyped
<1> QED BY <1>1, <1>2, <1>3, <1>4, <1>5

\* While a request is served no number passes back.
LEMMA ServingAges ==
  ASSUME UNCHANGED runner
  PROVE  /\ \A n : Passed(n)' <=> Passed(n)
         /\ UNCHANGED <<removals, pendingRun, runs, asker, hasRule, enabled, blocked, started, failures>>
BY DEF runner, counters, settings, Passed, Busy

\* The launch of a request is known after the step too.
LEMMA RequestKnown ==
  ASSUME IInv, NEW d \in Docs, requests[d] # None, UNCHANGED runner,
         requests'[d].launch = requests[d].launch
  PROVE  Known(requests[d].launch)'
<1>1. Known(requests[d].launch)
  BY TheRequest DEF DocumentOK
<1> QED BY <1>1, ServingAges DEF Known

\* A request that ends, or waits, relies on nothing.
LEMMA RequestSettles ==
  ASSUME IInv, LaunchStep, UNCHANGED <<runner, pages, js>>, css' \subseteq js',
         NEW d \in Docs, requests[d] # None, NEW pc \in {"over", "restoring"}, To(d, pc)
  PROVE  IInv'
<1> DEFINE r == [requests[d] EXCEPT !.pc = pc]
<1>1. /\ requests[d] \in Requests /\ requests[d].tab \in Tabs
      /\ DocumentsTyped /\ js \subseteq Docs
  BY TheRequest
<1>2. requests' = [requests EXCEPT ![d] = r]
  BY DEF To
<1>3. r \in Requests /\ r.tab = requests[d].tab /\ r.launch = requests[d].launch /\ r.pc = pc
  BY <1>1 DEF Requests
<1> HIDE DEF r
<1>4. requests'[d] = r
  BY <1>1, <1>2 DEF DocumentsTyped
<1>5. Known(requests[d].launch)'
  BY <1>3, <1>4, RequestKnown
<1>6. DocumentOK(d)'
  BY <1>3, <1>4, <1>5 DEF DocumentOK
<1>7. js \subseteq js' /\ js' \subseteq Docs
  BY <1>1
<1> QED BY <1>2, <1>3, <1>6, <1>7, DocumentMoves

\* Ending a launch with a reason is a step with the launch.
LEMMA FailIsLaunchStep ==
  ASSUME LaunchTyped, StorageOK, LaunchesKnown, Ages, NEW l, NEW reason \in Failures, fail(l, reason),
         UNCHANGED failures
  PROVE  LaunchStep
<1>1. CASE ~isCurrent(l)
  BY <1>1 DEF fail, LaunchStep
<1>2. CASE isCurrent(l)
  <2> DEFINE k == [launch EXCEPT !.status = "failed", !.failure = reason]
  <2>1. launch \in Launches /\ launch # None
    BY <1>2 DEF isCurrent, LaunchTyped
  <2>2. k \in Launches /\ k.tab = launch.tab /\ k.at = launch.at /\ k.status = "failed"
    BY <2>1 DEF Launches, Statuses
  <2>3. setLaunch(k)
    BY <1>2 DEF fail
  <2> HIDE DEF k
  <2>4. PICK j \in Launches : j = k
    BY <2>2
  <2>5. PICK m \in Launches : m = launch
    BY <2>1
  <2>6. Passed(m.at)'
    BY <2>1, <2>5, LaunchNumber DEF Ages, LaunchesKnown, Known
  <2>7. restoring = "done"
    BY <2>1 DEF StorageOK
  <2>8. j.at = m.at /\ j.tab = launch.tab /\ j.at = launch.at /\ j.status = "failed"
    BY <2>2, <2>4, <2>5
  <2>9. Passed(j.at)'
    BY <2>6, <2>8
  <2>10. May(j)
    BY <2>1, <2>7, <2>8, <2>9 DEF May
  <2>11. setLaunch(j)
    BY <2>3, <2>4
  <2> QED BY <2>10, <2>11 DEF LaunchStep, Sets
<1> QED BY <1>1, <1>2

\* The launch part of the invariant, in the form the steps of a request use.
LEMMA ServingFails ==
  ASSUME IInv, NEW l, NEW reason \in Failures, fail(l, reason), UNCHANGED runner
  PROVE  LaunchStep
<1>1. LaunchTyped /\ StorageOK /\ LaunchesKnown
  BY TypedParts DEF IInv
<1>2. Ages /\ UNCHANGED failures
  BY ServingAges DEF Ages
<1> QED BY <1>1, <1>2, FailIsLaunchStep

\* A request is captured, or answered without the demo.
LEMMA RequestHandled ==
  ASSUME IInv, NEW d \in Docs, requests[d] # None, restoring = "done", handleDocumentRequest(d)
  PROVE  IInv'
<1> DEFINE r == requests[d]
           bound == launch # None /\ launch.tab = r.tab
           served == bound /\ r.url = "target" /\ Offered
<1>1. /\ r \in Requests /\ r.tab \in Tabs /\ LaunchTyped /\ DocumentsTyped
      /\ css \subseteq js /\ js \subseteq Docs
  BY TheRequest
<1>2. UNCHANGED <<runner, pages, js, css>>
  BY DEF handleDocumentRequest, web
<1>3. UNCHANGED failures
  BY <1>2, ServingAges
<1>4. ASSUME To(d, "over"), LaunchStep PROVE IInv'
  <2>1. css' \subseteq js'
    BY <1>1, <1>2
  <2> QED BY <1>2, <1>4, <2>1, RequestSettles
<1>5. CASE To(d, "over") /\ launchStays
  BY <1>3, <1>4, <1>5 DEF LaunchStep
<1>6. CASE To(d, "over") /\ setLaunch(None)
  BY <1>3, <1>4, <1>6, MayEnd DEF LaunchStep, Sets
<1>7. CASE To(d, "over") /\ (fail(launch, "paused") \/ fail(launch, "siteDisabled"))
  <2>1. PICK l \in Launches \cup {None} : l = launch
    BY <1>1 DEF LaunchTyped
  <2>2. PICK reason \in Failures : fail(l, reason)
    BY <1>7, <2>1 DEF Failures
  <2>3. LaunchStep
    BY <1>2, <2>2, ServingFails
  <2> QED BY <1>4, <1>7, <2>3
<1>8. CASE /\ served
           /\ requests' = [requests EXCEPT ![d].pc = "loading", ![d].launch = launch]
           /\ launchStays
  <2> DEFINE r2 == [r EXCEPT !.pc = "loading", !.launch = launch]
  <2>1. launch \in Launches /\ launch.tab = r.tab /\ ~hasRule
    BY <1>1, <1>8 DEF LaunchTyped, Offered
  <2>2. /\ r2 \in Requests /\ r2.tab = r.tab /\ r2.pc = "loading" /\ r2.launch = launch
    BY <1>1, <2>1 DEF Requests
  <2>3. requests' = [requests EXCEPT ![d] = r2]
    BY <1>8
  <2> HIDE DEF r2
  <2>4. requests'[d] = r2
    BY <2>3, <1>1 DEF DocumentsTyped
  <2>5. launch' = launch /\ restoring' = "done" /\ hasRule' = hasRule
    BY <1>2, <1>8, ServingAges DEF launchStays
  <2>6. Known(requests[d].launch)'
    <3>1. Known(launch)
      BY DEF IInv, LaunchesKnown
    <3> QED BY <1>2, <2>2, <2>4, <3>1, ServingAges DEF Known
  <2>7. DocumentOK(d)'
    BY <2>1, <2>2, <2>4, <2>5, <2>6 DEF DocumentOK
  <2>8. LaunchStep
    BY <1>3, <1>8 DEF LaunchStep
  <2>9. js \subseteq js' /\ js' \subseteq Docs /\ css' \subseteq js'
    BY <1>1, <1>2
  <2> QED BY <1>2, <2>2, <2>3, <2>7, <2>8, <2>9, DocumentMoves
<1> QED BY <1>5, <1>6, <1>7, <1>8 DEF handleDocumentRequest

\* A document asks, or goes on when the restore is done.
LEMMA RequestAsked ==
  ASSUME IInv, NEW d \in Docs, Request(d) \/ ResumeRequest(d)
  PROVE  IInv'
<1>1. requests[d] # None
  BY DEF Request, ResumeRequest
<1>2. CASE restoring = "done" /\ handleDocumentRequest(d)
  BY <1>1, <1>2, RequestHandled
<1>3. CASE ensureRestored /\ To(d, "restoring") /\ UNCHANGED <<runner, web>>
  <2>1. UNCHANGED <<runner, pages, js>> /\ css' \subseteq js'
    BY <1>1, <1>3, TheRequest DEF web
  <2>2. LaunchStep
    BY <1>3, ServingAges DEF LaunchStep
  <2> QED BY <1>1, <1>3, <2>1, <2>2, RequestSettles
<1> QED BY <1>2, <1>3 DEF Request, ResumeRequest

\* A step that takes a captured request on, the launch as it is.
LEMMA RequestGoesOn ==
  ASSUME IInv, NEW d \in Docs, requests[d] # None, launchStays, UNCHANGED <<runner, pages, css>>,
         requests[d].pc \in {"loading", "executing"},
         NEW pc \in {"executing", "executed", "unexecuted"}, To(d, pc),
         js' = js \/ js' = js \cup {d},
         pc = "executed" => Open(requests[d].tab) /\ (Shown(d) => d \in js')
  PROVE  IInv'
<1> DEFINE r == [requests[d] EXCEPT !.pc = pc]
<1>1. /\ requests[d] \in Requests /\ requests[d].tab \in Tabs /\ DocumentsTyped
      /\ css \subseteq js /\ js \subseteq Docs /\ DocumentOK(d)
  BY TheRequest
<1>2. requests' = [requests EXCEPT ![d] = r]
  BY DEF To
<1>3. r \in Requests /\ r.tab = requests[d].tab /\ r.launch = requests[d].launch /\ r.pc = pc
  BY <1>1 DEF Requests
<1> HIDE DEF r
<1>4. requests'[d] = r
  BY <1>1, <1>2 DEF DocumentsTyped
<1>5. Known(requests[d].launch)'
  BY <1>3, <1>4, RequestKnown
<1>6. restoring' = "done" /\ r.launch \in Launches /\ r.launch.tab = r.tab
  BY <1>1, <1>3 DEF DocumentOK, launchStays
<1>7. pc = "executed" => Here(requests[d].tab)'
  BY <1>3, <1>4 DEF Here, Open
<1>8. pc = "executed" /\ Shown(d)' => d \in js'
  BY <1>3, <1>4 DEF Shown
<1>9. DocumentOK(d)'
  BY <1>3, <1>4, <1>5, <1>6, <1>7, <1>8 DEF DocumentOK
<1>10. js \subseteq js' /\ js' \subseteq Docs /\ css' \subseteq js'
  BY <1>1
<1>11. LaunchStep
  BY ServingAges DEF LaunchStep
<1> QED BY <1>2, <1>3, <1>9, <1>10, <1>11, DocumentMoves

\* The script ran: the launch it was of is applied where it is.
LEMMA RequestServed ==
  ASSUME IInv, NEW d \in Docs, requests[d] # None, requests[d].pc = "executed",
         To(d, "served"), UNCHANGED <<runner, web>>,
         IF isCurrent(requests[d].launch)
         THEN setLaunch([launch EXCEPT !.status = "applied", !.failure = ""])
         ELSE launchStays
  PROVE  IInv'
<1> DEFINE r == [requests[d] EXCEPT !.pc = "served"]
<1>1. /\ requests[d] \in Requests /\ requests[d].tab \in Tabs /\ DocumentsTyped /\ LaunchTyped
      /\ css \subseteq js /\ js \subseteq Docs /\ DocumentOK(d)
  BY TheRequest
<1>2. UNCHANGED <<pages, js, css>> /\ UNCHANGED failures
  BY ServingAges DEF web
<1>3. requests' = [requests EXCEPT ![d] = r]
  BY DEF To
<1>4. r \in Requests /\ r.tab = requests[d].tab /\ r.launch = requests[d].launch /\ r.pc = "served"
  BY <1>1 DEF Requests
<1> HIDE DEF r
<1>5. requests'[d] = r
  BY <1>1, <1>3 DEF DocumentsTyped
<1>6. Known(requests[d].launch)'
  BY <1>4, <1>5, RequestKnown
<1>7. Shown(d)' => d \in js'
  BY <1>1, <1>2, <1>4, <1>5 DEF Shown, DocumentOK
<1>8. DocumentOK(d)'
  BY <1>4, <1>5, <1>6, <1>7 DEF DocumentOK
<1>9. LaunchStep
  <2>1. CASE ~isCurrent(requests[d].launch)
    BY <2>1, <1>2 DEF LaunchStep
  <2>2. CASE isCurrent(requests[d].launch)
    <3> DEFINE k == [launch EXCEPT !.status = "applied", !.failure = ""]
    <3>1. launch \in Launches /\ launch # None /\ launch.tab = requests[d].tab
      BY <2>2, <1>1 DEF isCurrent, LaunchTyped, DocumentOK
    <3>2. k \in Launches /\ k.tab = launch.tab /\ k.at = launch.at
      BY <3>1 DEF Launches, Statuses, Failures
    <3>3. setLaunch(k)
      BY <2>2
    <3> HIDE DEF k
    <3>4. PICK j \in Launches : j = k /\ j.tab = launch.tab /\ j.at = launch.at
      BY <3>2
    <3>5. Passed(j.at)
      <4>1. Passed(launch.at)
        BY <3>1 DEF IInv, LaunchesKnown, Known
      <4> QED BY <3>4, <4>1
    <3>6. Passed(j.at)'
      BY <3>5, ServingAges
    <3>7. Here(j.tab)
      BY <2>2, <1>1, <3>1, <3>4 DEF DocumentOK
    <3>8. restoring = "done"
      BY <3>1 DEF IInv, StorageOK
    <3>9. May(j)
      BY <3>1, <3>4, <3>6, <3>7, <3>8 DEF May
    <3>10. setLaunch(j)
      BY <3>3, <3>4
    <3> QED BY <1>2, <3>9, <3>10 DEF LaunchStep, Sets
  <2> QED BY <2>1, <2>2
<1>10. js \subseteq js' /\ js' \subseteq Docs /\ css' \subseteq js'
  BY <1>1, <1>2
<1> QED BY <1>2, <1>3, <1>4, <1>8, <1>9, <1>10, DocumentMoves

\* The steps of a request that is served.
LEMMA RequestMoved ==
  ASSUME IInv, NEW d \in Docs, Serve(d)
  PROVE  IInv'
<1>1. requests[d] # None
  BY DEF Serve, Request, SourcesLoaded, SourcesFailed, Execute, Executed, Styled
<1>2. /\ requests[d].launch \in Launches \cup {None}
      /\ css \subseteq js
  BY <1>1, TheRequest
<1>3. PICK l \in Launches \cup {None} : l = requests[d].launch
  BY <1>2
<1>4. ASSUME To(d, "over"), launchStays \/ \E reason \in Failures : fail(l, reason),
             UNCHANGED <<runner, pages, js>>, css' \subseteq js'
      PROVE  IInv'
  <2>1. LaunchStep
    BY <1>4, ServingFails, ServingAges DEF LaunchStep
  <2> QED BY <1>1, <1>4, <2>1, RequestSettles
<1>5. CASE Request(d)
  BY <1>5, RequestAsked
<1>6. CASE SourcesLoaded(d)
  <2>1. CASE isCurrent(requests[d].launch)
    BY <1>1, <1>6, <2>1, RequestGoesOn DEF SourcesLoaded, web
  <2>2. CASE ~isCurrent(requests[d].launch)
    <3>1. css' \subseteq js'
      BY <1>2, <1>6 DEF SourcesLoaded, web
    <3> QED BY <1>4, <1>6, <2>2, <3>1 DEF SourcesLoaded, web
  <2> QED BY <2>1, <2>2
<1>7. CASE SourcesFailed(d)
  <2>1. css' \subseteq js'
    BY <1>2, <1>7 DEF SourcesFailed, web
  <2>2. \E reason \in Failures : fail(l, reason)
    BY <1>3, <1>7 DEF SourcesFailed, Failures
  <2> QED BY <1>4, <1>7, <2>1, <2>2 DEF SourcesFailed, web
<1>8. CASE Execute(d)
  <2>1. CASE /\ Open(requests[d].tab)
             /\ js' = IF Shown(d) THEN js \cup {d} ELSE js
             /\ To(d, "executed")
    BY <1>1, <1>8, <2>1, RequestGoesOn DEF Execute
  <2>2. CASE To(d, "unexecuted") /\ UNCHANGED js
    BY <1>1, <1>8, <2>2, RequestGoesOn DEF Execute
  <2> QED BY <1>8, <2>1, <2>2 DEF Execute
<1>9. CASE Executed(d)
  <2>1. CASE Ran(requests[d].pc)
    BY <1>1, <1>9, <2>1, RequestServed DEF Executed, Ran
  <2>2. CASE ~Ran(requests[d].pc)
    <3>1. css' \subseteq js'
      BY <1>2, <1>9 DEF Executed, web
    <3>2. \E reason \in Failures : fail(l, reason)
      BY <1>3, <1>9, <2>2 DEF Executed, Failures
    <3> QED BY <1>4, <1>9, <2>2, <3>1, <3>2 DEF Executed, web
  <2> QED BY <2>1, <2>2
<1>10. CASE Styled(d)
  <2>1. DocumentOK(d) /\ (Shown(d) => d \in js)
    BY <1>1, <1>10, TheRequest DEF Styled, DocumentOK
  <2>2. css' \subseteq js'
    BY <1>2, <1>10, <2>1 DEF Styled
  <2> QED BY <1>4, <1>10, <2>2 DEF Styled
<1> QED BY <1>5, <1>6, <1>7, <1>8, <1>9, <1>10 DEF Serve

-----------------------------------------------------------------------------
(* The state, the tabs and the settings *)

\* A step that touches neither runs, documents nor scripts.
LEMMA OtherStep ==
  ASSUME IInv, LaunchStep, UNCHANGED <<pendingRun, runs, started, requests, js, css>>,
         OtherTyped', HereStays, RuleStays, PagesQuiet,
         pages' \in [Tabs -> {Unopened, Closed, Blank} \cup Docs]
  PROVE  IInv'
<1>1. LaunchTyped /\ RestTyped /\ RunsTyped
  BY TypedParts DEF IInv, RestTyped
<1>2. DoneStays
  BY <1>1, LaunchStepStays
<1>3. RunsTyped' /\ RunsOK' /\ Ages
  BY <1>1, <1>2, RunsStay DEF IInv, DoneStays
<1> QED BY <1>3, QuietStep

\* The types in the form the steps below use.
LEMMA TheTypes ==
  ASSUME IInv
  PROVE  /\ LaunchTyped /\ OtherTyped /\ DocumentsTyped
         /\ StorageOK /\ LaunchesKnown
BY TypedParts DEF IInv, RestTyped

\* A step that asks for the state leaves the rest alone.
LEMMA AskerStep ==
  ASSUME IInv, LaunchStep, UNCHANGED page,
         asker' \in [pc : {"idle", "restoring", "checking"}, launch : Launches \cup {None}]
  PROVE  IInv'
<1>1. /\ UNCHANGED <<removals, removed, lost, pendingRun, runs, started, requests, pages, js, css>>
      /\ UNCHANGED <<hasRule, enabled, blocked>>
  BY DEF page, web, settings, counters, removals
<1>2. OtherTyped'
  BY <1>1, TheTypes DEF OtherTyped
<1>3. HereStays
  BY <1>1, NothingRemoved DEF Open
<1>4. RuleStays
  BY <1>1 DEF RuleStays
<1>5. PagesQuiet /\ pages' \in [Tabs -> {Unopened, Closed, Blank} \cup Docs]
  BY <1>1, TheTypes DEF PagesQuiet, DocumentsTyped
<1> QED BY <1>1, <1>2, <1>3, <1>4, <1>5, OtherStep

\* Asking for the state.
LEMMA AskedState ==
  ASSUME IInv, askState
  PROVE  IInv'
<1>1. LaunchStep /\ UNCHANGED page
  BY DEF askState, LaunchStep, page, counters
<1>2. CASE asker' = Idle
  <2>1. Idle \in [pc : {"idle", "restoring", "checking"}, launch : Launches \cup {None}]
    BY DEF Idle
  <2> QED BY <1>1, <1>2, <2>1, AskerStep
<1>3. CASE launch # None /\ asker' = [pc |-> "checking", launch |-> launch]
  <2>1. asker' \in [pc : {"idle", "restoring", "checking"}, launch : Launches \cup {None}]
    BY <1>3, TheTypes DEF LaunchTyped
  <2> QED BY <1>1, <2>1, AskerStep
<1> QED BY <1>2, <1>3 DEF askState

\* The steps of getState.
LEMMA StateMoved ==
  ASSUME IInv, getState \/ ResumeState \/ StateChecked
  PROVE  IInv'
<1>1. CASE askState
  BY <1>1, AskedState
<1>2. CASE /\ ensureRestored
           /\ asker' = [pc |-> "restoring", launch |-> None]
           /\ UNCHANGED page
  <2>1. LaunchStep
    BY <1>2 DEF LaunchStep, page, counters
  <2>2. asker' \in [pc : {"idle", "restoring", "checking"}, launch : Launches \cup {None}]
    BY <1>2
  <2> QED BY <1>2, <2>1, <2>2, AskerStep
<1>3. CASE /\ asker' = Idle
           /\ fail(asker.launch, "notConfirmed") \/ setLaunch(None)
           /\ UNCHANGED page
  <2>1. asker' \in [pc : {"idle", "restoring", "checking"}, launch : Launches \cup {None}]
    BY <1>3 DEF Idle
  <2>2. UNCHANGED failures /\ Ages
    BY <1>3 DEF page, counters, Ages, Passed, Busy
  <2>3. asker.launch \in Launches \cup {None}
    BY TheTypes DEF OtherTyped
  <2>4. PICK l \in Launches \cup {None} : l = asker.launch
    BY <2>3
  <2>5. CASE fail(asker.launch, "notConfirmed")
    <3>1. "notConfirmed" \in Failures /\ fail(l, "notConfirmed")
      BY <2>4, <2>5 DEF Failures
    <3>2. LaunchStep
      BY <2>2, <3>1, TheTypes, FailIsLaunchStep
    <3> QED BY <1>3, <2>1, <3>2, AskerStep
  <2>6. CASE setLaunch(None)
    <3>1. LaunchStep
      BY <2>2, <2>6, MayEnd DEF LaunchStep, Sets
    <3> QED BY <1>3, <2>1, <3>1, AskerStep
  <2> QED BY <1>3, <2>5, <2>6
<1> QED BY <1>1, <1>2, <1>3 DEF getState, ResumeState, StateChecked

\* Forgetting a tab is a step with the launch, which is then not on that tab.
LEMMA Forgets ==
  ASSUME IInv, NEW t \in Tabs, forgetTab(t), UNCHANGED failures
  PROVE  /\ LaunchStep
         /\ restoring' = restoring
         /\ launch' = None \/ launch'.tab # t
<1>1. CASE launch # None /\ launch.tab = t
  BY <1>1, MayEnd DEF forgetTab, LaunchStep, Sets, setLaunch
<1>2. CASE ~(launch # None /\ launch.tab = t)
  BY <1>2 DEF forgetTab, LaunchStep, launchStays
<1> QED BY <1>1, <1>2

\* A tab is closed: its removal is heard of now, or waits for the restore.
LEMMA TabClosed ==
  ASSUME IInv, NEW t \in Tabs, CloseTab(t)
  PROVE  IInv'
<1>1. /\ pages' = [pages EXCEPT ![t] = Closed]
      /\ UNCHANGED <<lost, pendingRun, runs, started, asker, requests, js, css, hasRule,
                     enabled, blocked, failures>>
  BY DEF CloseTab, calls, settings, counters
<1>2. pages' \in [Tabs -> {Unopened, Closed, Blank} \cup Docs]
  BY <1>1, TheTypes DEF DocumentsTyped
<1>3. PagesQuiet
  BY <1>1, TheTypes DEF DocumentsTyped, PagesQuiet
<1>4. \A u \in Tabs : u # t /\ Open(u) => Open(u)'
  BY <1>1, TheTypes DEF DocumentsTyped, Open
<1>5. RuleStays
  BY <1>1 DEF RuleStays
<1>6. CASE restoring = "done" /\ forgetTab(t) /\ UNCHANGED removed
  <2>1. LaunchStep /\ restoring' = "done" /\ (launch' = None \/ launch'.tab # t)
    BY <1>1, <1>6, Forgets
  <2>2. HereStays
    BY <1>1, <1>4, <1>6, <2>1 DEF HereStays, Here
  <2>3. OtherTyped'
    BY <1>1, <1>6, TheTypes DEF OtherTyped
  <2> QED BY <1>1, <1>2, <1>3, <1>5, <2>1, <2>2, <2>3, OtherStep
<1>7. CASE ensureRestored /\ removed' = removed \cup {t}
  <2>1. LaunchStep
    BY <1>1, <1>7 DEF LaunchStep
  <2>2. HereStays
    BY <1>1, <1>4, <1>7 DEF HereStays, Here
  <2>3. OtherTyped'
    BY <1>1, <1>7, TheTypes DEF OtherTyped
  <2> QED BY <1>1, <1>2, <1>3, <1>5, <2>1, <2>2, <2>3, OtherStep
<1> QED BY <1>6, <1>7 DEF CloseTab

\* A removal that waited for the restore is heard of.
LEMMA RemovalResumed ==
  ASSUME IInv, NEW t \in Tabs, ResumeRemoved(t)
  PROVE  IInv'
<1>1. /\ restoring = "done" /\ forgetTab(t) /\ removed' = removed \ {t}
      /\ UNCHANGED <<lost, pendingRun, runs, started, asker, requests, pages, js, css, hasRule,
                     enabled, blocked, failures>>
  BY DEF ResumeRemoved, calls, settings, counters, web
<1>2. LaunchStep /\ restoring' = "done" /\ (launch' = None \/ launch'.tab # t)
  BY <1>1, Forgets
<1>3. HereStays
  <2>1. \A u \in Tabs : Open(u) => Open(u)'
    BY <1>1 DEF Open
  <2>2. \A u \in Tabs : u # t /\ Here(u) => Here(u)'
    BY <1>1, <2>1 DEF Here
  <2> QED BY <1>2, <2>2 DEF HereStays
<1>4. OtherTyped'
  BY <1>1, TheTypes DEF OtherTyped
<1>5. PagesQuiet /\ pages' \in [Tabs -> {Unopened, Closed, Blank} \cup Docs]
  BY <1>1, TheTypes DEF PagesQuiet, DocumentsTyped
<1>6. RuleStays
  BY <1>1 DEF RuleStays
<1> QED BY <1>1, <1>2, <1>3, <1>4, <1>5, <1>6, OtherStep

\* A custom rule is added, or a setting changed.
LEMMA SettingChanged ==
  ASSUME IInv, addInjection \/ changeSetting
  PROVE  IInv'
<1>1. /\ UNCHANGED <<removals, removed, lost, pendingRun, runs, asker, requests, pages, js, css,
                     started, failures>>
      /\ hasRule' \in BOOLEAN /\ enabled' \in BOOLEAN /\ blocked' \in BOOLEAN
  <2>1. hasRule \in BOOLEAN /\ enabled \in BOOLEAN /\ blocked \in BOOLEAN
    BY TheTypes DEF OtherTyped
  <2>2. CASE addInjection
    BY <2>1, <2>2 DEF addInjection, calls, web, removals
  <2>3. CASE changeSetting
    BY <2>1, <2>3 DEF changeSetting, calls, web, removals
  <2> QED BY <2>2, <2>3
<1>2. LaunchStep
  <2>1. CASE addInjection
    BY <1>1, <2>1, MayEnd DEF addInjection, LaunchStep, Sets
  <2>2. CASE changeSetting
    BY <1>1, <2>2 DEF changeSetting, LaunchStep
  <2> QED BY <2>1, <2>2
<1>3. RuleStays
  <2>1. CASE addInjection
    BY <2>1 DEF addInjection, setLaunch, RuleStays
  <2>2. CASE changeSetting
    BY <2>2 DEF changeSetting, RuleStays
  <2> QED BY <2>1, <2>2
<1>4. OtherTyped'
  BY <1>1, TheTypes DEF OtherTyped
<1>5. HereStays
  BY <1>1, NothingRemoved DEF Open
<1>6. PagesQuiet /\ pages' \in [Tabs -> {Unopened, Closed, Blank} \cup Docs]
  BY <1>1, TheTypes DEF PagesQuiet, DocumentsTyped
<1> QED BY <1>1, <1>2, <1>3, <1>4, <1>5, <1>6, OtherStep

\* A document is loaded: no earlier one is shown in its tab.
LEMMA DocumentLoaded ==
  ASSUME IInv, NEW t \in Tabs, NEW url \in Urls, Load(t, url)
  PROVE  IInv'
<1>1. PICK d \in Docs :
        /\ Open(t) /\ requests[d] = None
        /\ requests' = [requests EXCEPT ![d] =
                          [tab |-> t, url |-> url, launch |-> None, pc |-> "asking"]]
        /\ pages' = [pages EXCEPT ![t] = d]
        /\ launchStays
        /\ UNCHANGED <<removals, calls, js, css, settings, counters>>
  BY DEF Load
<1> DEFINE r == [tab |-> t, url |-> url, launch |-> None, pc |-> "asking"]
<1>2. r \in Requests /\ r.tab = t /\ r.launch = None /\ r.pc = "asking"
  BY DEF Requests
<1>3. requests' = [requests EXCEPT ![d] = r]
  BY <1>1
<1> HIDE DEF r
<1>4. r # None
  BY <1>2, NoneAssumption
<1>5. /\ LaunchTyped /\ RunsTyped /\ DocumentsTyped /\ OtherTyped /\ RestTyped
  BY TypedParts DEF IInv, RestTyped
<1>6. UNCHANGED <<removals, removed, lost, pendingRun, runs, asker, js, css, hasRule, enabled, blocked,
                  started, failures>>
  BY <1>1 DEF calls, settings, counters, removals
<1>7. LaunchStep
  BY <1>1, <1>6 DEF LaunchStep
<1>8. StorageOK' /\ LaunchTyped'
  BY <1>5, <1>7, LaunchStepKeepsStorage DEF IInv
<1>9. CurrentStays /\ DoneStays
  BY <1>5, <1>7, LaunchStepStays
<1>10. RunsTyped' /\ RunsOK' /\ Ages
  BY <1>5, <1>6, <1>9, RunsStay DEF IInv, DoneStays
<1>11. OtherTyped'
  BY <1>5, <1>6 DEF OtherTyped
<1>12. LaunchesKnown'
  BY <1>5, <1>7, <1>10, LaunchStepKeepsKnown DEF IInv
<1>13. /\ requests'[d] = r
       /\ \A e \in Docs : e # d => requests'[e] = requests[e]
       /\ requests' \in [Docs -> {None} \cup Requests]
       /\ pages'[t] = d
       /\ \A u \in Tabs : u # t => pages'[u] = pages[u]
       /\ pages' \in [Tabs -> {Unopened, Closed, Blank} \cup Docs]
  BY <1>1, <1>2, <1>3, <1>5 DEF DocumentsTyped
<1>14. \A u \in Tabs : Open(u) => Open(u)'
  BY <1>13, DocumentIsNumber DEF Open
<1>15. HereStays
  BY <1>6, <1>14, NothingRemoved
<1>16. MeantOK'
  BY <1>5, <1>7, <1>8, <1>15, LaunchStepKeepsMeant DEF IInv
<1>17. RuleStays
  BY <1>6 DEF RuleStays
<1>18. DocumentsTyped'
  BY <1>5, <1>6, <1>13 DEF DocumentsTyped
<1>19. DocumentOK(d)'
  BY <1>2, <1>13 DEF DocumentOK, Known
<1>20. ASSUME NEW e \in Docs, e # d, requests'[e] # None PROVE DocumentOK(e)'
  <2>1. requests'[e] = requests[e] /\ requests[e] # None
    BY <1>13, <1>20
  <2>2. DocumentOK(e)
    BY <2>1 DEF IInv, DocumentsOK
  <2>3. requests[e] \in Requests
    BY <2>1, <1>5 DEF DocumentsTyped
  <2>4. requests[e].tab \in Tabs
    BY <2>3 DEF Requests
  <2>5. Shown(e)' => Shown(e)
    BY <2>1, <2>4, <1>13, <1>20 DEF Shown
  <2>6. js \subseteq js'
    BY <1>6
  <2> QED BY <1>5, <1>9, <1>10, <1>15, <1>17, <2>1, <2>2, <2>5, <2>6, DocumentStays
<1>21. PagesOK'
  <2>1. ASSUME NEW u \in Tabs, pages'[u] \in Docs
        PROVE  requests'[pages'[u]] # None /\ requests'[pages'[u]].tab = u
    <3>1. CASE u = t
      BY <3>1, <1>2, <1>4, <1>13
    <3>2. CASE u # t
      <4>1. pages'[u] = pages[u] /\ pages[u] \in Docs
        BY <2>1, <3>2, <1>13
      <4>2. requests[pages[u]] # None /\ requests[pages[u]].tab = u
        BY <4>1 DEF IInv, DocumentsOK, PagesOK
      <4>3. pages[u] # d
        BY <4>2, <1>1
      <4> QED BY <4>1, <4>2, <4>3, <1>13
    <3> QED BY <3>1, <3>2
  <2> QED BY <2>1 DEF PagesOK
<1>22. DocumentsOK'
  <2>1. css' \subseteq js'
    BY <1>6 DEF IInv, DocumentsOK
  <2> QED BY <1>19, <1>20, <1>21, <2>1 DEF DocumentsOK
<1>23. Typed'
  <2>1. RestTyped'
    BY <1>10, <1>11, <1>18 DEF RestTyped
  <2> QED BY <1>8, <2>1, TypedPartsNext
<1> QED BY <1>8, <1>10, <1>12, <1>16, <1>22, <1>23 DEF IInv

-----------------------------------------------------------------------------
(* Storage, and the background unloaded *)

\* Session storage does a call.
LEMMA StorageMoved ==
  ASSUME IInv, Storage
  PROVE  IInv'
<1>1. /\ LaunchTyped /\ RunsTyped /\ DocumentsTyped /\ OtherTyped /\ RestTyped
      /\ StorageOK /\ LaunchesKnown /\ RunsOK /\ DocumentsOK /\ MeantOK
  BY TypedParts DEF IInv, RestTyped
<1>2. StorageOK' /\ LaunchTyped' /\ LaunchesKnown'
  BY <1>1, ReadKeepsStorage, WriteKeepsStorage, FailureKeepsStorage DEF Storage
<1>3. /\ UNCHANGED <<removals, removed, lost, meant, pendingRun, runs, asker, requests, pages, js, css,
                     hasRule, enabled, blocked, started>>
      /\ failures' = failures \/ failures' = failures + 1
  BY DEF Storage, ReadDone, WriteDone, StorageFails, memory, removals, web, settings, counters
<1>4. restoring' = restoring \/ restoring' = "done"
  BY DEF Storage, ReadDone, WriteDone, StorageFails, memory
<1>5. launch' = launch \/ restoring # "done"
  <2>1. CASE ReadDone
    <3>1. ops # << >> /\ ops' = Tail(ops) /\ Head(ops).op = "read"
      BY <2>1 DEF ReadDone
    <3>2. restoring = "reading"
      BY <1>1, <3>1, AfterCall
    <3> QED BY <3>2
  <2>2. CASE WriteDone
    BY <2>2 DEF WriteDone, memory
  <2>3. CASE StorageFails
    BY <2>3 DEF StorageFails
  <2> QED BY <2>1, <2>2, <2>3 DEF Storage
<1>6. CurrentStays
  BY <1>5 DEF CurrentStays, isCurrent
<1>7. DoneStays
  BY <1>4 DEF DoneStays
<1>8. RunsTyped' /\ RunsOK' /\ Ages
  BY <1>1, <1>3, <1>7, RunsStay DEF DoneStays
<1>9. HereStays
  BY <1>3, NothingRemoved DEF Open
<1>10. RuleStays
  BY <1>3 DEF RuleStays
<1>11. PagesQuiet /\ pages' \in [Tabs -> {Unopened, Closed, Blank} \cup Docs]
  BY <1>1, <1>3 DEF PagesQuiet, DocumentsTyped
<1>12. DocumentsTyped' /\ DocumentsOK'
  BY <1>1, <1>3, <1>6, <1>7, <1>8, <1>9, <1>10, <1>11, DocumentsStay
<1>13. failures' = 0 => failures = 0
  BY <1>1, <1>3 DEF LaunchTyped
<1>14. MeantOK'
  BY <1>1, <1>2, <1>3, <1>9, <1>13, MeantStays
<1>15. OtherTyped'
  BY <1>1, <1>3 DEF OtherTyped
<1>16. Typed'
  <2>1. RestTyped'
    BY <1>8, <1>12, <1>15 DEF RestTyped
  <2> QED BY <1>2, <2>1, TypedPartsNext
<1> QED BY <1>2, <1>8, <1>12, <1>14, <1>16 DEF IInv

\* The background is unloaded: the next instance has the launch in storage,
\* and relies on nothing this one had in progress.
LEMMA Unloaded ==
  ASSUME IInv, Unload
  PROVE  IInv'
<1>1. /\ LaunchTyped /\ RunsTyped /\ DocumentsTyped /\ OtherTyped /\ RestTyped
      /\ StorageOK /\ LaunchesKnown /\ DocumentsOK /\ MeantOK
  BY TypedParts DEF IInv, RestTyped
<1>2. StorageOK' /\ LaunchTyped' /\ LaunchesKnown'
  BY <1>1, UnloadKeepsStorage
<1>3. /\ removed' = {} /\ lost' = lost \cup removed
      /\ pendingRun' = None /\ runs' = NoRuns /\ asker' = Idle
      /\ UNCHANGED <<meant, pages, js, css, hasRule, enabled, blocked, started, failures>>
  BY DEF Unload, web, settings
<1>4. RunsTyped'
  <2>1. [pc |-> "idle", number |-> 0, tab |-> None] \in
          [pc : {"idle", "restoring", "loading", "checking", "navigating", "opening"},
           number : 0..MaxRuns, tab : Tabs \cup {None}]
    BY BoundsAssumption
  <2> QED BY <1>1, <1>3, <2>1 DEF RunsTyped, NoRuns
<1>5. \A c \in Clicks : runs'[c].pc = "idle"
  BY <1>3 DEF NoRuns
<1>6. RunsOK' /\ ~Busy'
  BY <1>5 DEF RunsOK, RunOK, Busy, BusyPcs
<1>7. Ages
  BY <1>3, <1>6 DEF Ages, Passed
<1>8. OtherTyped'
  <2>1. asker' \in [pc : {"idle", "restoring", "checking"}, launch : Launches \cup {None}]
    BY <1>3 DEF Idle
  <2> QED BY <1>1, <1>3, <2>1 DEF OtherTyped
<1>9. \A t \in Tabs : Here(t) => Here(t)'
  BY <1>3 DEF Here, Open
<1>10. HereStays
  BY <1>9 DEF HereStays
<1>11. MeantOK'
  BY <1>1, <1>2, <1>3, <1>10, MeantStays
<1>12. \A d \in Docs :
         \/ requests'[d] = requests[d]
            /\ (requests[d] = None \/ requests[d].pc \in {"asking", "served"})
         \/ requests[d] # None /\ requests'[d] = [requests[d] EXCEPT !.pc = "over"]
  BY DEF Unload
<1>13. ASSUME NEW d \in Docs, requests[d] # None
       PROVE  /\ requests[d] \in Requests /\ requests'[d] \in Requests
              /\ requests'[d].tab = requests[d].tab
              /\ requests'[d].launch = requests[d].launch
              /\ requests'[d].pc \in {"asking", "served", "over"}
              /\ requests'[d].pc = "served" => requests[d].pc = "served"
  <2>1. requests[d] \in Requests
    BY <1>1, <1>13 DEF DocumentsTyped
  <2>2. CASE requests'[d] = requests[d] /\ requests[d].pc \in {"asking", "served"}
    BY <2>1, <2>2
  <2>3. CASE requests'[d] = [requests[d] EXCEPT !.pc = "over"]
    BY <2>1, <2>3 DEF Requests
  <2> QED BY <1>12, <1>13, <2>2, <2>3
<1>14. DocumentsTyped'
  <2>1. \A d \in Docs : requests'[d] \in {None} \cup Requests
    BY <1>12, <1>13
  <2>2. requests' \in [Docs -> {None} \cup Requests]
    BY <2>1 DEF Unload
  <2> QED BY <1>1, <1>3, <2>2 DEF DocumentsTyped
<1>15. ASSUME NEW d \in Docs, requests'[d] # None PROVE DocumentOK(d)'
  <2>1. requests[d] # None
    BY <1>12, <1>15
  <2>2. DocumentOK(d)
    BY <1>1, <2>1 DEF DocumentsOK
  <2>3. requests[d].launch \in Launches \cup {None}
    BY <1>13, <2>1 DEF Requests
  <2>4. PICK l \in Launches \cup {None} : l = requests[d].launch
    BY <2>3
  <2>5. l # None => Passed(l.at)'
    BY <1>7, <2>2, <2>4, KnownAges DEF DocumentOK
  <2>6. Known(requests[d].launch)'
    BY <1>13, <2>1, <2>4, <2>5 DEF Known
  <2>7. requests'[d].pc \in {"executed", "served"} /\ Shown(d)' => d \in js'
    BY <1>3, <1>13, <2>1, <2>2 DEF DocumentOK, Shown
  <2> QED BY <1>13, <2>1, <2>6, <2>7 DEF DocumentOK
<1>16. PagesOK'
  <2>1. ASSUME NEW t \in Tabs, pages'[t] \in Docs
        PROVE  requests'[pages'[t]] # None /\ requests'[pages'[t]].tab = t
    <3>1. PICK d \in Docs : d = pages[t] /\ pages'[t] = d
      BY <1>3, <2>1
    <3>2. requests[d] # None /\ requests[d].tab = t
      BY <1>1, <3>1 DEF DocumentsOK, PagesOK
    <3>3. requests'[d] \in Requests /\ requests'[d].tab = t
      BY <1>13, <3>2
    <3> QED BY <3>1, <3>3, NoneAssumption
  <2> QED BY <2>1 DEF PagesOK
<1>17. DocumentsOK'
  BY <1>1, <1>3, <1>15, <1>16 DEF DocumentsOK
<1>18. Typed'
  <2>1. RestTyped'
    BY <1>4, <1>8, <1>14 DEF RestTyped
  <2> QED BY <1>2, <2>1, TypedPartsNext
<1> QED BY <1>2, <1>6, <1>11, <1>17, <1>18 DEF IInv
-----------------------------------------------------------------------------
(* The theorems *)

\* Nothing has happened yet.
LEMMA Initially ==
  ASSUME Init
  PROVE  IInv
<1> USE DEF Init
<1>1. DOMAIN ops = {} /\ ops \in Seq(Calls)
  BY EmptySeq
<1>2. \A c \in Clicks : runs[c].pc = "idle"
  BY DEF NoRuns
<1>3. Typed
  <2>1. [pc |-> "idle", number |-> 0, tab |-> None] \in
          [pc : {"idle", "restoring", "loading", "checking", "navigating", "opening"},
           number : 0..MaxRuns, tab : Tabs \cup {None}]
    BY BoundsAssumption
  <2>2. RunsTyped
    BY <2>1, BoundsAssumption DEF RunsTyped, NoRuns
  <2>3. DocumentsTyped
    BY DEF DocumentsTyped
  <2>4. OtherTyped
    BY DEF OtherTyped, Idle
  <2>5. LaunchTyped
    BY <1>1 DEF LaunchTyped
  <2> QED BY <2>2, <2>3, <2>4, <2>5, TypedParts DEF RestTyped
<1>4. StorageOK
  BY <1>1 DEF StorageOK, WillBeMeant
<1>5. RunsOK
  BY <1>2 DEF RunsOK, RunOK, BusyPcs
<1>6. LaunchesKnown
  BY <1>1 DEF LaunchesKnown, Known
<1>7. PagesOK
  BY DocumentIsNumber DEF PagesOK
<1>8. DocumentsOK
  BY <1>7 DEF DocumentsOK
<1>9. MeantOK
  BY DEF MeantOK
<1> QED BY <1>3, <1>4, <1>5, <1>6, <1>8, <1>9 DEF IInv

\* A stuttering step changes nothing.
LEMMA Stutters ==
  ASSUME IInv, UNCHANGED vars
  PROVE  IInv'
BY DEF vars, memory, removals, session, web, settings, counters, IInv, Typed, TypeOK,
       StorageOK, WillBeMeant, Reads, Writes, RunsOK, RunOK, LaunchesKnown, Known, Passed, Busy,
       DocumentsOK, DocumentOK, isCurrent, Here, Open, Shown, PagesOK, MeantOK

\* The inductive invariant holds in every state, for any tabs, clicks and
\* bounds.
THEOREM Invariance == Spec => []IInv
<1>1. Init => IInv
  BY Initially
<1>2. ASSUME IInv, [Next]_vars PROVE IInv'
  <2>1. CASE Resume
    BY <1>2, <2>1, RunResumed, RequestAsked, RemovalResumed, StateMoved DEF Resume
  <2>2. CASE Event
    BY <1>2, <2>2, StorageMoved, RunClicked, RunMoved, RequestMoved, StateMoved, TabClosed,
       DocumentLoaded, SettingChanged, Unloaded DEF Event
  <2>3. CASE UNCHANGED vars
    BY <1>2, <2>3, Stutters
  <2> QED BY <1>2, <2>1, <2>2, <2>3 DEF Next
<1> QED BY <1>1, <1>2, PTL DEF Spec

\* No launch is lost or brought back: memory has the launch last set when the
\* restore is done, and session storage when its calls are, through any number
\* of unloads.
THEOREM LaunchIsNeverLost == Spec => []LaunchIsKept
<1>1. ASSUME IInv PROVE LaunchIsKept
  <2>1. TypeOK
    BY <1>1 DEF IInv, Typed
  <2>2. LaunchIsMeant
    BY <1>1 DEF IInv, StorageOK, LaunchIsMeant
  <2>3. ASSUME ops = << >>, failures = 0 PROVE stored = meant
    <3>1. DOMAIN ops = {}
      BY <2>3
    <3> QED BY <1>1, <2>3, <3>1 DEF IInv, StorageOK, WillBeMeant
  <2> QED BY <2>1, <2>2, <2>3 DEF LaunchIsKept, StoredIsMeant
<1> QED BY <1>1, Invariance, PTL

\* However many clicks there are, one run at a time opens or navigates a tab.
THEOREM ClicksShareATab == Spec => []OneTabAtATime
<1>1. ASSUME IInv PROVE OneTabAtATime
  <2> DEFINE opening == {c \in Clicks : runs[c].pc \in {"navigating", "opening"}}
  <2>1. opening \subseteq {pendingRun}
    BY <1>1 DEF IInv, RunsOK, RunOK
  <2>2. opening = {} \/ opening = {pendingRun}
    BY <2>1
  <2>3. Cardinality({}) = 0 /\ Cardinality({pendingRun}) = 1
    BY FS_EmptySet, FS_Singleton
  <2> HIDE DEF opening
  <2>4. Cardinality(opening) <= 1
    BY <2>2, <2>3
  <2> QED BY <2>4 DEF OneTabAtATime, opening
<1> QED BY <1>1, Invariance, PTL

\* The style is only where the script ran, and an applied launch is on a tab
\* that is there, or whose removal no living instance was told of.
THEOREM AppliedIsWhole == Spec => []DemoIsWhole
<1>1. ASSUME IInv PROVE DemoIsWhole
  <2>1. css \subseteq js
    BY <1>1 DEF IInv, DocumentsOK
  <2>2. ASSUME launch # None, launch.status = "applied", failures = 0, ~Resuming
        PROVE  Open(launch.tab) \/ launch.tab \in lost
    <3>1. restoring = "done" /\ launch = meant
      BY <1>1, <2>2 DEF IInv, StorageOK
    <3>2. removed = {}
      BY <2>2, <3>1 DEF Resuming
    <3>3. Here(launch.tab)
      BY <1>1, <2>2, <3>1 DEF IInv, MeantOK
    <3> QED BY <3>2, <3>3 DEF Here
  <2> QED BY <2>1, <2>2 DEF DemoIsWhole, AppliedTabIsOpen
<1> QED BY <1>1, Invariance, PTL

\* A step that serves a document serves it beside no rule.
LEMMA ServesBesideNoRule ==
  ASSUME IInv, [Next]_vars, NEW d \in Docs, requests'[d] # None,
         requests'[d].pc = "executing", requests[d].pc # "executing"
  PROVE  ~hasRule
<1>1. requests \in [Docs -> {None} \cup Requests]
  BY TheTypes DEF DocumentsTyped
<1>2. requests' # requests
  BY <1>1
<1>3. ASSUME NEW e \in Docs, NEW pc, To(e, pc), pc # "executing", requests[e] # None PROVE FALSE
  <2>1. requests[e] \in Requests
    BY <1>1, <1>3
  <2>2. requests'[e].pc = pc
    BY <1>1, <1>3, <2>1 DEF To, Requests
  <2>3. \A f \in Docs : f # e => requests'[f] = requests[f]
    BY <1>1, <1>3 DEF To
  <2> QED BY <1>3, <2>2, <2>3
<1>4. ASSUME NEW e \in Docs, requests[e] # None, handleDocumentRequest(e) PROVE FALSE
  <2>1. CASE To(e, "over")
    BY <1>3, <1>4, <2>1
  <2>2. CASE requests' = [requests EXCEPT ![e].pc = "loading", ![e].launch = launch]
    <3>1. requests[e] \in Requests
      BY <1>1, <1>4
    <3>2. requests'[e].pc = "loading"
      BY <1>1, <2>2, <3>1 DEF Requests
    <3>3. \A f \in Docs : f # e => requests'[f] = requests[f]
      BY <1>1, <2>2
    <3> QED BY <3>2, <3>3
  <2> QED BY <1>4, <2>1, <2>2 DEF handleDocumentRequest
<1>5. ASSUME NEW e \in Docs, SourcesLoaded(e) PROVE ~hasRule
  <2>1. requests[e] # None /\ requests[e].pc = "loading"
    BY <1>5 DEF SourcesLoaded
  <2>2. CASE ~isCurrent(requests[e].launch)
    BY <1>3, <1>5, <2>1, <2>2 DEF SourcesLoaded
  <2>3. CASE isCurrent(requests[e].launch)
    <3>1. DocumentOK(e)
      BY <2>1, TheRequest
    <3> QED BY <2>1, <2>3, <3>1 DEF DocumentOK
  <2> QED BY <2>2, <2>3
<1>6. ASSUME NEW e \in Docs, Serve(e) \/ ResumeRequest(e), ~SourcesLoaded(e) PROVE FALSE
  <2>1. requests[e] # None
    BY <1>6 DEF Serve, ResumeRequest, Request, SourcesFailed, Execute, Executed, Styled
  <2>2. CASE handleDocumentRequest(e)
    BY <1>4, <2>1, <2>2
  <2>3. CASE \E pc \in {"over", "restoring", "executed", "unexecuted", "served"} : To(e, pc)
    BY <1>3, <2>1, <2>3
  <2> QED BY <1>6, <2>2, <2>3
          DEF Serve, ResumeRequest, Request, SourcesFailed, Execute, Executed, Styled
<1>7. ASSUME NEW t \in Tabs, NEW url \in Urls, Load(t, url) PROVE FALSE
  <2>1. PICK e \in Docs : requests' = [requests EXCEPT ![e] =
                            [tab |-> t, url |-> url, launch |-> None, pc |-> "asking"]]
    BY <1>7 DEF Load
  <2>2. requests'[e].pc = "asking" /\ \A f \in Docs : f # e => requests'[f] = requests[f]
    BY <1>1, <2>1
  <2> QED BY <2>2
<1>8. ASSUME Unload PROVE FALSE
  BY <1>1, <1>8 DEF Unload, Requests
<1>9. CASE Resume
  <2>1. ASSUME NEW c \in Clicks, ResumeRun(c) PROVE FALSE
    BY <1>2, <2>1 DEF ResumeRun, startOrFocus, others
  <2>2. ASSUME NEW t \in Tabs, ResumeRemoved(t) PROVE FALSE
    BY <1>2, <2>2 DEF ResumeRemoved
  <2>3. ~ResumeState
    BY <1>2 DEF ResumeState, askState, page
  <2>4. ~(\E e \in Docs : ResumeRequest(e))
    BY <1>6, <1>2 DEF ResumeRequest, SourcesLoaded
  <2> QED BY <1>9, <2>1, <2>2, <2>3, <2>4 DEF Resume
<1>10. CASE Event
  <2>1. ~Storage
    BY <1>2 DEF Storage, ReadDone, WriteDone, StorageFails
  <2>2. ASSUME NEW c \in Clicks, run(c) \/ Run(c) PROVE FALSE
    BY <1>2, <2>2 DEF run, BeginRun, startOrFocus, Run, RunLoaded, RunUnloaded, TabChecked,
       Navigated, NavigationFailed, Opened, others
  <2>3. ~getState /\ ~StateChecked
    BY <1>2 DEF getState, StateChecked, askState, page
  <2>4. ASSUME NEW t \in Tabs, CloseTab(t) PROVE FALSE
    BY <1>2, <2>4 DEF CloseTab
  <2>5. ~addInjection /\ ~changeSetting
    BY <1>2 DEF addInjection, changeSetting
  <2>6. ASSUME NEW e \in Docs, Serve(e) PROVE ~hasRule
    BY <1>5, <1>6, <2>6
  <2> QED BY <1>7, <1>8, <1>10, <2>1, <2>2, <2>3, <2>4, <2>5, <2>6 DEF Event
<1> QED BY <1>2, <1>9, <1>10 DEF Next, vars

\* A custom rule is authoritative: whatever a request captured, whatever was
\* loading when the rule was added, no document is handed the demo script while
\* a rule exists.
THEOREM RulesComeFirst == Spec => NoDemoBesideRules
<1> DEFINE Beside == \A d \in Docs : (requests'[d] # None /\ requests'[d].pc = "executing"
                                      /\ requests[d].pc # "executing") => ~hasRule
<1>1. IInv /\ [Next]_vars => [Beside]_vars
  BY ServesBesideNoRule
<1> HIDE DEF Beside
<1>2. Spec => [][Beside]_vars
  BY <1>1, Invariance, PTL DEF Spec
<1> QED BY <1>2 DEF NoDemoBesideRules, Beside
=============================================================================
