----------------------------- MODULE SourceCache -----------------------------
(***************************************************************************)
(* The bounded stale-while-revalidate cache of rule sources, class         *)
(* InjectionSourceCache of background/injection-source-cache.ts.           *)
(*                                                                         *)
(* Pages (Requests) resolve a rule under a descriptor: the paths of its    *)
(* active JavaScript and CSS.  A hit is answered at once and refreshed in  *)
(* the background, a miss waits for the refresh.  The two files of a       *)
(* refresh are read one by one while they may be edited; the rule may be   *)
(* invalidated or the cache cleared at any moment.  A refresh is the       *)
(* promise of one load: its then/catch callback (Publish, Reject), its     *)
(* finally callback (Finally) and the continuation of each waiting page    *)
(* (Return) are separate microtasks, between which others may run.         *)
(*                                                                         *)
(* A file's content is abstracted to the number of times it was edited.    *)
(* A request starts at most one load, so a load (a promise) is named by    *)
(* the request that started it.                                            *)
(***************************************************************************)
EXTENDS Integers, Sequences, FiniteSets, SequencesExt

CONSTANTS
    Rules, Paths, Requests,
    Descriptors,     \* the descriptors pages ask for: [Kinds -> path or None]
    FileBytes,       \* bytes of each version of each file
    MaximumEntries, MaximumBytes,
    None,            \* undefined: an inactive source, an absent Map entry
    Pending, Failed, \* a source still being read, a source that could not be
    NoAnswer, Refused,
    MaxEdits, MaxVersion, MaxEpoch   \* bounds of the model

Kinds == {"js", "css"}
Versions == 0..MaxEdits

ASSUME BoundsAssumption ==
    /\ MaximumEntries \in Nat \ {0}
    /\ MaximumBytes \in Nat
    /\ MaxEdits \in Nat
    /\ MaxVersion \in Nat
    /\ MaxEpoch \in Nat

ASSUME DescriptorAssumption ==
    /\ Descriptors \subseteq [Kinds -> Paths \cup {None}]
    /\ FileBytes \in [Paths -> [Versions -> Nat]]
    /\ None \notin Paths \cup Descriptors \cup Rules \cup Requests

ASSUME ReadingAssumption ==
    /\ {Pending, Failed, None} \cap Versions = {}
    /\ Pending # Failed /\ Pending # None /\ Failed # None

ASSUME AnswerAssumption ==
    /\ NoAnswer # Refused
    /\ {NoAnswer, Refused} \cap
         [rule : Rules, src : Descriptors, content : [Kinds -> Versions \cup {None}]] = {}

VARIABLES
    disk,               \* version of each file now
    entries,            \* the Map of cached snapshots, oldest first
    totalBytes,
    inFlight,           \* loads registered in the inFlight map
    versions,           \* invalidation generation of each rule
    activeDescriptors,  \* last descriptor asked for (None: none)
    epoch,
    load,               \* the refresh started by each request
    request,            \* progress of each call of resolve
    since               \* history: versions on disk at the last invalidation

vars == <<disk, entries, totalBytes, inFlight, versions, activeDescriptors,
          epoch, load, request, since>>

Readings == Versions \cup {Pending, Failed, None}

Contents == [Kinds -> Versions \cup {None}]
Snapshots == [rule : Rules, src : Descriptors, content : Contents]
Entries == [rule : Rules, src : Descriptors, content : Contents, byteLength : Nat]
Loads == [state : {"none", "reading", "snapshot", "null"}, finished : BOOLEAN,
          rule : Rules \cup {None}, src : Descriptors \cup {None},
          version : Nat, epoch : Nat, content : [Kinds -> Readings]]

TypeOK ==
    /\ disk \in [Paths -> Versions]
    /\ entries \in Seq(Entries)
    /\ totalBytes \in Int
    /\ inFlight \subseteq Requests
    /\ versions \in [Rules -> Nat]
    /\ activeDescriptors \in [Rules -> Descriptors \cup {None}]
    /\ epoch \in Nat
    /\ load \in [Requests -> Loads]
    /\ request \in [Requests -> [state : {"idle", "waiting", "answered"},
                                 load : Requests \cup {None},
                                 answer : Snapshots \cup {NoAnswer, Refused}]]
    /\ since \in [Rules -> [Paths -> Versions]]

-----------------------------------------------------------------------------
(* Helpers *)

RuleAt(es, r) == {i \in DOMAIN es : es[i].rule = r}

\* The Map without the rule's entry, and the bytes that entry accounted for.
Without(es, r) ==
    IF RuleAt(es, r) = {} THEN es
    ELSE RemoveAt(es, CHOOSE i \in RuleAt(es, r) : TRUE)

BytesOf(es, r) ==
    IF RuleAt(es, r) = {} THEN 0
    ELSE es[CHOOSE i \in RuleAt(es, r) : TRUE].byteLength

RemoveEntry(r) ==
    /\ entries' = Without(entries, r)
    /\ totalBytes' = totalBytes - BytesOf(entries, r)

Cached(r, d) == \E i \in DOMAIN entries : entries[i].rule = r /\ entries[i].src = d

KindBytes(src, content, k) ==
    IF src[k] = None THEN 0 ELSE FileBytes[src[k]][content[k]]

snapshotByteLength(src, content) ==
    KindBytes(src, content, "js") + KindBytes(src, content, "css")

\* Bytes of the n oldest entries.
OldestBytes(es) ==
    LET sum[n \in 0..Len(es)] ==
            IF n = 0 THEN 0 ELSE sum[n - 1] + es[n].byteLength
    IN sum

\* How many of the oldest entries the eviction loop removes: the least number
\* after which both limits hold (all of them at the most).
Evicted(es, bytes) ==
    LET fits(n) == /\ Len(es) - n <= MaximumEntries
                   /\ bytes - OldestBytes(es)[n] <= MaximumBytes
    IN CHOOSE n \in 0..Len(es) :
           /\ n = Len(es) \/ fits(n)
           /\ \A m \in 0..(n - 1) : ~fits(m)

\* Mutant: replacing an entry forgets to give its bytes back.
StoreKeepingReplacedBytes(r, src, content) ==
    LET bytes == snapshotByteLength(src, content)
        others == Without(entries, r)
        added == Append(others, [rule |-> r, src |-> src, content |-> content,
                                 byteLength |-> bytes])
        n == Evicted(added, totalBytes + bytes)
    IN IF bytes > MaximumBytes
       THEN entries' = others /\ totalBytes' = totalBytes
       ELSE /\ entries' = SubSeq(added, n + 1, Len(added))
            /\ totalBytes' = totalBytes + bytes - OldestBytes(added)[n]

\* store: replaces the rule's entry, drops an oversized one, evicts the oldest.
Store(r, src, content) ==
    LET bytes == snapshotByteLength(src, content)
        others == Without(entries, r)
        rest == totalBytes - BytesOf(entries, r)
        added == Append(others, [rule |-> r, src |-> src, content |-> content,
                                 byteLength |-> bytes])
        n == Evicted(added, rest + bytes)
    IN IF bytes > MaximumBytes
       THEN entries' = others /\ totalBytes' = rest
       ELSE /\ entries' = SubSeq(added, n + 1, Len(added))
            /\ totalBytes' = rest + bytes - OldestBytes(added)[n]

\* Mutant: refreshes are not deduplicated.
ExistingNone(r, d) == {}

\* The promise registered under the key of this descriptor generation.
Existing(r, d) ==
    {l \in inFlight : /\ load[l].rule = r
                      /\ load[l].version = versions[r]
                      /\ load[l].src = d}

StartLoad(q, r, d) ==
    /\ load' = [load EXCEPT ![q] =
                  [state |-> "reading", finished |-> FALSE, rule |-> r, src |-> d,
                   version |-> versions[r], epoch |-> epoch,
                   content |-> [k \in Kinds |->
                                  IF d[k] = None THEN None ELSE Pending]]]
    /\ inFlight' = inFlight \cup {q}

\* Mutants: a settled refresh does not check the global, the rule's generation.
isCurrentInAnyEpoch(l) ==
    /\ versions[load[l].rule] = load[l].version
    /\ activeDescriptors[load[l].rule] = load[l].src
isCurrentInAnyVersion(l) ==
    /\ epoch = load[l].epoch
    /\ activeDescriptors[load[l].rule] = load[l].src

isCurrent(l) ==
    /\ epoch = load[l].epoch
    /\ versions[load[l].rule] = load[l].version
    /\ activeDescriptors[load[l].rule] = load[l].src

Reading(l) == load[l].state = "reading"
\* Mutant: a load with an unreadable file never settles.
ReadCompleteIfReadable(l) == \A k \in Kinds : load[l].content[k] \notin {Pending, Failed}
ReadComplete(l) == \A k \in Kinds : load[l].content[k] # Pending
ReadFailed(l) == \E k \in Kinds : load[l].content[k] = Failed
Settled(l) == load[l].state \in {"snapshot", "null"}

Snapshot(l) == [rule |-> load[l].rule, src |-> load[l].src,
                content |-> load[l].content]
NoContent == [k \in Kinds |-> None]
NoLoad == [state |-> "none", finished |-> FALSE, rule |-> None, src |-> None,
           version |-> 0, epoch |-> 0, content |-> NoContent]

\* The callback returned null: nothing of what was read is kept.
SettleNull(l) == load' = [load EXCEPT ![l].state = "null", ![l].content = NoContent]

\* Mutant: resolve wraps the refresh result without checking it for null.
ResultUnchecked(l) == Snapshot(l)
ResultOf(l) == IF load[l].state = "snapshot" THEN Snapshot(l) ELSE Refused
-----------------------------------------------------------------------------
(* The operations *)

Init ==
    /\ disk = [p \in Paths |-> 0]
    /\ entries = << >>
    /\ totalBytes = 0
    /\ inFlight = {}
    /\ versions = [r \in Rules |-> 0]
    /\ activeDescriptors = [r \in Rules |-> None]
    /\ epoch = 0
    /\ load = [q \in Requests |-> NoLoad]
    /\ request = [q \in Requests |->
                    [state |-> "idle", load |-> None, answer |-> NoAnswer]]
    /\ since = [r \in Rules |-> [p \in Paths |-> 0]]

\* The file is saved by the user's editor.
Edit(p) ==
    /\ disk[p] < MaxEdits
    /\ disk' = [disk EXCEPT ![p] = @ + 1]
    /\ UNCHANGED <<entries, totalBytes, inFlight, versions, activeDescriptors,
                   epoch, load, request, since>>

\* refresh: joins the promise registered under the key or starts a load.
Refresh(q, r, d) ==
    IF Existing(r, d) # {} THEN UNCHANGED <<load, inFlight>> ELSE StartLoad(q, r, d)

\* resolve, with a matching entry: touched, answered, refreshed behind.
ResolveHit(q, r, d) ==
    /\ request[q].state = "idle"
    /\ activeDescriptors' = [activeDescriptors EXCEPT ![r] = d]
    /\ \E i \in RuleAt(entries, r) :
          /\ entries[i].src = d
          /\ entries' = Append(RemoveAt(entries, i), entries[i])
          /\ request' = [request EXCEPT ![q] =
                [state |-> "answered", load |-> None,
                 answer |-> [rule |-> r, src |-> d, content |-> entries[i].content]]]
    /\ Refresh(q, r, d)
    /\ UNCHANGED <<disk, totalBytes, versions, epoch, since>>

\* resolve, without one: an obsolete entry is removed and the page waits.
ResolveMiss(q, r, d) ==
    /\ request[q].state = "idle"
    /\ ~Cached(r, d)
    /\ activeDescriptors' = [activeDescriptors EXCEPT ![r] = d]
    /\ RemoveEntry(r)
    /\ Refresh(q, r, d)
    /\ \E l \in (IF Existing(r, d) # {} THEN Existing(r, d) ELSE {q}) :
          request' = [request EXCEPT ![q] =
                        [state |-> "waiting", load |-> l, answer |-> NoAnswer]]
    /\ UNCHANGED <<disk, versions, epoch, since>>

\* One file of the load is read, at any moment, or cannot be.
ReadSource(l, k) ==
    /\ Reading(l)
    /\ load[l].content[k] = Pending
    /\ \E c \in {disk[load[l].src[k]], Failed} :
          load' = [load EXCEPT ![l].content[k] = c]
    /\ UNCHANGED <<disk, entries, totalBytes, inFlight, versions,
                   activeDescriptors, epoch, request, since>>

\* The then callback: an obsolete result is dropped, a failed read removes the
\* entry, a complete snapshot is stored.
Publish(l) ==
    /\ Reading(l)
    /\ ReadComplete(l)
    /\ IF ~isCurrent(l) THEN
          /\ SettleNull(l)
          /\ UNCHANGED <<entries, totalBytes>>
       ELSE IF ReadFailed(l) THEN
          /\ RemoveEntry(load[l].rule)
          /\ SettleNull(l)
       ELSE
          /\ Store(load[l].rule, load[l].src, load[l].content)
          /\ load' = [load EXCEPT ![l].state = "snapshot"]
    /\ UNCHANGED <<disk, inFlight, versions, activeDescriptors, epoch, request,
                   since>>

\* The catch callback: the load itself rejected.
Reject(l) ==
    /\ Reading(l)
    /\ IF isCurrent(l) THEN RemoveEntry(load[l].rule) ELSE UNCHANGED <<entries, totalBytes>>
    /\ SettleNull(l)
    /\ UNCHANGED <<disk, inFlight, versions, activeDescriptors, epoch, request,
                   since>>

\* Mutant: the finally callback deletes whatever is registered under its key.
FinallyUnconditional(l) ==
    /\ Settled(l)
    /\ ~load[l].finished
    /\ load' = [load EXCEPT ![l].finished = TRUE]
    /\ inFlight' = {m \in inFlight : \/ load[m].rule # load[l].rule
                                     \/ load[m].version # load[l].version
                                     \/ load[m].src # load[l].src}
    /\ UNCHANGED <<disk, entries, totalBytes, versions, activeDescriptors, epoch,
                   request, since>>

\* The finally callback unregisters the promise, if it is still registered; a
\* settled promise keeps its result only.
Finally(l) ==
    /\ Settled(l)
    /\ ~load[l].finished
    /\ load' = [load EXCEPT ![l] =
                  IF @.state = "null" THEN [NoLoad EXCEPT !.state = "null", !.finished = TRUE]
                  ELSE [@ EXCEPT !.finished = TRUE]]
    /\ inFlight' = inFlight \ {l}
    /\ UNCHANGED <<disk, entries, totalBytes, versions, activeDescriptors, epoch,
                   request, since>>

\* resolve continues after its await.
Return(q) ==
    /\ request[q].state = "waiting"
    /\ load[request[q].load].finished
    /\ request' = [request EXCEPT ![q].state = "answered",
                                  ![q].answer = ResultOf(request[q].load)]
    /\ UNCHANGED <<disk, entries, totalBytes, inFlight, versions,
                   activeDescriptors, epoch, load, since>>

invalidate(r) ==
    /\ versions[r] < MaxVersion
    /\ RemoveEntry(r)
    /\ activeDescriptors' = [activeDescriptors EXCEPT ![r] = None]
    /\ versions' = [versions EXCEPT ![r] = @ + 1]
    /\ since' = [since EXCEPT ![r] = disk]
    /\ UNCHANGED <<disk, inFlight, epoch, load, request>>

clear ==
    /\ epoch < MaxEpoch
    /\ entries' = << >>
    /\ inFlight' = {}
    /\ activeDescriptors' = [r \in Rules |-> None]
    /\ versions' = [r \in Rules |-> 0]
    /\ totalBytes' = 0
    /\ epoch' = epoch + 1
    /\ since' = [r \in Rules |-> disk]
    /\ UNCHANGED <<disk, load, request>>

resolve(q) ==
    \E r \in Rules, d \in Descriptors : ResolveHit(q, r, d) \/ ResolveMiss(q, r, d)

Next ==
    \/ \E p \in Paths : Edit(p)
    \/ \E q \in Requests : resolve(q)
    \/ \E l \in Requests, k \in Kinds : ReadSource(l, k)
    \/ \E l \in Requests : Publish(l) \/ Reject(l) \/ Finally(l)
    \/ \E q \in Requests : Return(q)
    \/ \E r \in Rules : invalidate(r)
    \/ clear

Spec == Init /\ [][Next]_vars

\* Every read ends (the readers below time out) and microtasks run.
Fairness ==
    /\ \A l \in Requests : /\ WF_vars(\E k \in Kinds : ReadSource(l, k))
                            /\ WF_vars(Publish(l))
                            /\ WF_vars(Finally(l))
    /\ \A q \in Requests : WF_vars(Return(q))

FairSpec == Spec /\ Fairness
-----------------------------------------------------------------------------
(* Properties *)

\* What is cached is what the rule asks for now, and no cached content is older
\* than the rule's last invalidation: a late refresh never brings it back.
EntriesCurrent ==
    \A i \in DOMAIN entries :
        LET e == entries[i] IN
        /\ activeDescriptors[e.rule] = e.src
        /\ \A k \in Kinds : e.src[k] # None =>
              e.content[k] >= since[e.rule][e.src[k]]

\* The Map holds one entry per rule and stays within both limits, and the
\* running byte counter is exact whatever was removed, replaced or evicted.
CacheBounded ==
    /\ \A i, j \in DOMAIN entries : entries[i].rule = entries[j].rule => i = j
    /\ Len(entries) <= MaximumEntries
    /\ totalBytes <= MaximumBytes
    /\ totalBytes = OldestBytes(entries)[Len(entries)]

\* A load that is still running and belongs to the present generation.
Outstanding(l) ==
    /\ Reading(l)
    /\ load[l].epoch = epoch
    /\ versions[load[l].rule] = load[l].version

\* One generation of a descriptor is never read by two loads at a time, even
\* when an older load with the same key finishes after a clear.
NoDuplicateRefresh ==
    \A l, m \in Requests :
        /\ Outstanding(l) /\ Outstanding(m)
        /\ load[l].rule = load[m].rule
        /\ load[l].src = load[m].src
        => l = m

\* Every page that asked is answered, whatever was joined, cleared or failed.
EveryRequestAnswered ==
    \A q \in Requests : request[q].state = "waiting" ~> request[q].state = "answered"

\* A refreshed entry is never replaced by an older reading of the same files.
NeverBackwards ==
    [][\A i \in DOMAIN entries, j \in DOMAIN entries' :
         /\ entries[i].rule = entries'[j].rule
         /\ entries[i].src = entries'[j].src
         => \A k \in Kinds : entries[i].src[k] # None =>
              entries'[j].content[k] >= entries[i].content[k]]_vars

\* The promise seen from the pages: what a request is answered with.
Answered(q) ==
    CASE request[q].state = "waiting" ->
           IF Settled(request[q].load) THEN ResultOf(request[q].load) ELSE NoAnswer
      [] OTHER -> request[q].answer

Promise == INSTANCE FreshSources WITH answers <- [q \in Requests |-> Answered(q)]

\* Every answer holds contents the files had since the rule's last
\* invalidation, at the moment the answer is chosen.
AnswersFresh == Promise!Spec
=============================================================================
