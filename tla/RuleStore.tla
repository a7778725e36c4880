------------------------------ MODULE RuleStore ------------------------------
(***************************************************************************)
(* The rules and the blocklist of the background (class Injections of      *)
(* background/injections.ts): the handlers that change them, the throttled *)
(* persistence, and the restart of a background that the browser may stop  *)
(* at any moment.                                                          *)
(*                                                                         *)
(* updateStorage is throttled with a leading and a trailing call: the      *)
(* first change is written at once, those of the following window with one *)
(* write at its end.  Writes reach browser.storage in the order they were  *)
(* issued, later and one by one; each may fail, which is only logged.      *)
(* The cache of sources is abstracted to the rule each entry was read for  *)
(* (SourceCache is about the rest of it).  Paths and file contents, ids    *)
(* and the order of the rules are left out.                                *)
(***************************************************************************)
EXTENDS Naturals, Sequences, SequencesExt

CONSTANTS
    Rules,           \* identifiers given to rules (nanoid)
    Hosts,           \* hostnames
    RawSites,        \* sites as older versions saved them
    HostOf,          \* [RawSites -> Hosts]: what normalizeRuleSite makes of them
    Drafts,          \* what a user may enter: [site, path]
    InitialStates,   \* what storage may hold at the first start
    None,            \* no rule; a flag that is not stored
    Malformed,       \* a stored value that is no rule
    Down,            \* for DurableState
    MaxChanges, MaxWrites    \* bounds of the model

Kinds == {"js", "css"}
CurrentSchema == 2
Sites == Hosts \cup RawSites

RuleRecords == [site : Hosts, path : [Kinds -> BOOLEAN], flag : [Kinds -> BOOLEAN],
                enabled : BOOLEAN]
States == [rules : [Rules -> RuleRecords \cup {None}], blocklist : SUBSET Hosts]

\* As any version may have stored them.
StoredRules == [site : Sites, path : [Kinds -> BOOLEAN],
                flag : [Kinds -> BOOLEAN \cup {None}], enabled : BOOLEAN]
\* schema 0: nothing stored; rev is the place in log (history).
StoredStates ==
    [schema : 0..3, rev : Nat,
     state : [rules : [Rules -> StoredRules \cup {None, Malformed}], blocklist : SUBSET Hosts]]

\* A site that is no hostname is None; a path is empty, absolute, a file URL or
\* something else.
Texts == {"none", "absolute", "url", "other"}

ASSUME DraftsAssumption ==
    /\ Drafts \subseteq [site : Sites \cup {None}, path : [Kinds -> Texts]]
    /\ HostOf \in [RawSites -> Hosts]
    /\ None \notin Sites
    /\ {None, Malformed} \cap (StoredRules \cup BOOLEAN) = {}
    /\ Down \notin States
    /\ Hosts \cap RawSites = {}

\* What earlier versions may have left.  Flags came with their reset, so that
\* no version has saved a switched-off file a rule does not have.
ASSUME StorageAssumption ==
    \A s \in InitialStates :
        /\ [schema |-> s.schema, state |-> s.state, rev |-> 1] \in StoredStates
        /\ \A r \in Rules, k \in Kinds :
              s.state.rules[r] \in StoredRules /\ s.state.rules[r].flag[k] = FALSE
                  => s.state.rules[r].path[k]

VARIABLES
    phase,       \* "loading" until init is done, "ready", "broken" if it rejected
    rules, blocklist,
    cached,      \* the rule whose sources the cache holds
    window,      \* "open", or "closed" for UPDATE_STORAGE_TIMEOUT_MS after a write
    again,       \* updateStorage was called in a closed window
    writes,      \* storage.set calls the browser has not done yet
    stored,      \* what browser.storage holds
    failed,      \* the last write failed
    log          \* history: the states memory went through

memory == <<rules, blocklist, cached>>
throttled == <<window, again>>
vars == <<phase, rules, blocklist, cached, window, again, writes, stored, failed, log>>

NoRules == [r \in Rules |-> None]
Content == [rules |-> rules, blocklist |-> blocklist]

TypeOK ==
    /\ phase \in {"loading", "ready", "broken"}
    /\ Content \in States
    /\ cached \in [Rules -> RuleRecords \cup {None}]
    /\ window \in {"open", "closed"}
    /\ again \in BOOLEAN
    /\ writes \in Seq(StoredStates)
    /\ stored \in StoredStates
    /\ failed \in BOOLEAN
    /\ log \in Seq(States)
-----------------------------------------------------------------------------
(* Restoring *)

\* normalizeRuleSite, of a site saved by any version.
NormalSite(s) == IF s \in RawSites THEN HostOf[s] ELSE s

\* Mutant: a rule without flags stays without.
NormalRuleKeepingFlags(rule) ==
    IF rule \notin StoredRules THEN None ELSE [rule EXCEPT !.site = NormalSite(@)]

\* Missing flags mean enabled.
Flagged(rule) == [rule EXCEPT !.flag = [k \in Kinds |-> IF @[k] = None THEN TRUE ELSE @[k]]]

\* normalizeInjectionRule, of what isInjectionRule accepts, and the site of init.
NormalRule(rule) ==
    IF rule \notin StoredRules THEN None ELSE [Flagged(rule) EXCEPT !.site = NormalSite(@)]

migrateV1ToV2(stale) ==
    [r \in Rules |-> IF stale[r] \in StoredRules THEN Flagged(stale[r]) ELSE stale[r]]

\* normalizeStoredInjectionsState: what is no rule is left out.
Loaded(s) ==
    LET current == IF s.schema = 1 THEN migrateV1ToV2(s.state.rules) ELSE s.state.rules
    IN [rules |-> [r \in Rules |-> NormalRule(current[r])], blocklist |-> s.state.blocklist]

\* The stored schema is older, or a site had to be normalized.
Repaired(s) ==
    \/ s.schema = 1
    \/ \E r \in Rules : s.state.rules[r] \in StoredRules /\ s.state.rules[r].site \in RawSites
-----------------------------------------------------------------------------
(* The rule editor *)

normalizeRuleFilePath(text) == IF text = "absolute" THEN "url" ELSE text

Normalized(draft) ==
    [site |-> NormalSite(draft.site),
     path |-> [k \in Kinds |-> normalizeRuleFilePath(draft.path[k])]]

\* The fields validateInjectionInput finds wrong.
validateInjectionInput(draft) ==
    {field \in {"site", "missingSource"} \cup Kinds :
       CASE field = "site" -> draft.site \notin Hosts
         [] field = "missingSource" -> \A k \in Kinds : draft.path[k] = "none"
         [] OTHER -> draft.path[field] = "other"}

\* What the background is asked to save, each path present or not.
Inputs ==
    {[site |-> d.site, path |-> [k \in Kinds |-> d.path[k] = "url"]] :
       d \in {e \in {Normalized(draft) : draft \in Drafts} : validateInjectionInput(e) = {}}}
-----------------------------------------------------------------------------
(* Persistence *)

Write(content, rev) ==
    writes' = Append(writes, [schema |-> CurrentSchema, state |-> content, rev |-> rev])

\* Mutant: a call in a closed window is dropped.
updateStorageLeadingOnly(content, rev) ==
    IF window = "open"
    THEN Write(content, rev) /\ window' = "closed" /\ again' = FALSE
    ELSE UNCHANGED <<writes, window, again>>

\* updateStorage, called with the state the handler leaves in memory.
updateStorage(content, rev) ==
    IF window = "open"
    THEN Write(content, rev) /\ window' = "closed" /\ again' = FALSE
    ELSE again' = TRUE /\ UNCHANGED <<writes, window>>

\* Mutant: the rules are persisted before the blocklist follows them.
BecomeSavingEarly(newRules, newBlocklist) ==
    LET new == [rules |-> newRules, blocklist |-> newBlocklist] IN
    /\ Len(log) < MaxChanges
    /\ Len(writes) < MaxWrites
    /\ rules' = newRules
    /\ blocklist' = newBlocklist
    /\ log' = IF new = Content THEN log ELSE Append(log, new)
    /\ updateStorage([new EXCEPT !.blocklist = blocklist], Len(log'))
    /\ UNCHANGED <<phase, stored, failed>>

\* What every handler ends with: the new memory, remembered and persisted.
Become(newRules, newBlocklist) ==
    LET new == [rules |-> newRules, blocklist |-> newBlocklist] IN
    /\ Len(log) < MaxChanges
    /\ Len(writes) < MaxWrites
    /\ rules' = newRules
    /\ blocklist' = newBlocklist
    /\ log' = IF new = Content THEN log ELSE Append(log, new)
    /\ updateStorage(new, Len(log'))
    /\ UNCHANGED <<phase, stored, failed>>

\* The window ends: the calls made in it are served by one write.
Timer ==
    /\ window = "closed"
    /\ Len(writes) < MaxWrites
    /\ IF again THEN Write(Content, Len(log)) /\ window' = "closed"
                ELSE UNCHANGED writes /\ window' = "open"
    /\ again' = FALSE
    /\ UNCHANGED <<phase, memory, stored, failed, log>>

\* History of a stopped background: the states up to the last one that is
\* still to be saved, or is.
Remembered(left) ==
    SubSeq(log, 1, IF left = << >> THEN stored.rev ELSE Last(left).rev)

\* The browser does the oldest write, or cannot.
WriteDone ==
    /\ writes # << >>
    /\ stored' = Head(writes)
    /\ failed' = FALSE
    /\ writes' = Tail(writes)
    /\ UNCHANGED <<phase, memory, throttled, log>>

WriteFailed ==
    /\ writes # << >>
    /\ failed' = TRUE
    /\ writes' = Tail(writes)
    /\ log' = IF phase = "ready" THEN log ELSE Remembered(Tail(writes))
    /\ UNCHANGED <<phase, memory, throttled, stored>>
-----------------------------------------------------------------------------
(* Start, stop *)

Init ==
    /\ phase = "loading"
    /\ rules = NoRules
    /\ blocklist = {}
    /\ cached = NoRules
    /\ window = "open"
    /\ again = FALSE
    /\ writes = << >>
    /\ stored \in {[schema |-> s.schema, state |-> s.state, rev |-> 1] : s \in InitialStates}
    /\ failed = FALSE
    /\ log = <<Loaded(stored)>>

\* init, after storage.get: the handlers it gates are released.
load ==
    /\ phase = "loading"
    /\ writes = << >>
    /\ phase' = "ready"
    /\ rules' = Loaded(stored).rules
    /\ blocklist' = Loaded(stored).blocklist
    /\ cached' = NoRules
    /\ IF Repaired(stored) THEN updateStorage(Loaded(stored), Len(log))
                           ELSE UNCHANGED <<writes, throttled>>
    /\ failed' = FALSE
    /\ UNCHANGED <<stored, log>>

\* storage.get rejects: every gated handler rejects until the next start.
loadFails ==
    /\ phase = "loading"
    /\ phase' = "broken"
    /\ UNCHANGED <<memory, throttled, writes, stored, failed, log>>

\* The browser stops the background; of the issued writes it still does the
\* first ones.
Stop ==
    /\ phase # "loading"
    /\ \E n \in 0..Len(writes) : writes' = SubSeq(writes, 1, n)
    /\ log' = Remembered(writes')
    /\ phase' = "loading"
    /\ rules' = NoRules
    /\ blocklist' = {}
    /\ cached' = NoRules
    /\ window' = "open"
    /\ again' = FALSE
    /\ UNCHANGED <<stored, failed>>
-----------------------------------------------------------------------------
(* The handlers, behind the readiness gate *)

invalidate(rs) == cached' = [r \in Rules |-> IF r \in rs THEN None ELSE cached[r]]

RulesOf(h) == {r \in Rules : rules[r] # None /\ rules[r].site = h}

addInjection(r, input, enabled) ==
    /\ phase = "ready"
    /\ rules[r] = None
    /\ LET new == [site |-> input.site, path |-> input.path,
                   flag |-> [k \in Kinds |-> TRUE], enabled |-> enabled]
       IN Become([rules EXCEPT ![r] = new], blocklist)
    /\ UNCHANGED cached

\* Mutant: an edit keeps the flag of a file it removes.
EditedKeepingFlags(rule, input) == [rule EXCEPT !.site = input.site, !.path = input.path]

\* Clearing a path resets its flag.
Edited(rule, input) ==
    [rule EXCEPT !.site = input.site, !.path = input.path,
                 !.flag = [k \in Kinds |-> IF input.path[k] THEN @[k] ELSE TRUE]]

updateInjection(r, input) ==
    /\ phase = "ready"
    /\ rules[r] # None
    /\ Become([rules EXCEPT ![r] = Edited(@, input)], blocklist)
    /\ invalidate({r})

setInjectionFileEnabled(r, k, enabled) ==
    /\ phase = "ready"
    /\ rules[r] # None
    /\ rules[r].path[k]
    /\ Become([rules EXCEPT ![r].flag[k] = enabled], blocklist)
    /\ invalidate({r})

\* With the last rule of a site its place on the blocklist goes too.
removeInjection(r) ==
    /\ phase = "ready"
    /\ rules[r] # None
    /\ LET site == rules[r].site
           freed == IF RulesOf(site) = {r} THEN {site} ELSE {}
       IN Become([rules EXCEPT ![r] = None], blocklist \ freed)
    /\ invalidate({r})

\* enableInjection, disableInjection
setInjectionEnabled(r, enabled) ==
    /\ phase = "ready"
    /\ rules[r] # None
    /\ Become([rules EXCEPT ![r].enabled = enabled], blocklist)
    /\ invalidate({r})

enableInjectionsForSite(h) ==
    /\ phase = "ready"
    /\ Become(rules, blocklist \ {h})
    /\ invalidate(RulesOf(h))

\* Mutant: blocking a site leaves what its rules have cached.
disableInjectionsForSiteKeepingCache(h) ==
    /\ phase = "ready"
    /\ h \notin blocklist
    /\ Become(rules, blocklist \cup {h})
    /\ UNCHANGED cached

disableInjectionsForSite(h) ==
    /\ phase = "ready"
    /\ h \notin blocklist
    /\ Become(rules, blocklist \cup {h})
    /\ invalidate(RulesOf(h))

fileActive(r, k) == rules[r].enabled /\ rules[r].path[k] /\ rules[r].flag[k]

\* A page asks: the cache may come to hold the active rules of its host.  (A
\* refresh that a later change overtakes is dropped: see SourceCache.)
getPageInjections(h) ==
    /\ phase = "ready"
    /\ h \notin blocklist
    /\ \E r \in RulesOf(h) :
          /\ \E k \in Kinds : fileActive(r, k)
          /\ cached' = [cached EXCEPT ![r] = rules[r]]
    /\ UNCHANGED <<phase, rules, blocklist, throttled, writes, stored, failed, log>>

clearSourceCache ==
    /\ phase = "ready"
    /\ cached' = NoRules
    /\ UNCHANGED <<phase, rules, blocklist, throttled, writes, stored, failed, log>>

Handlers ==
    \/ \E r \in Rules, input \in Inputs, enabled \in BOOLEAN : addInjection(r, input, enabled)
    \/ \E r \in Rules, input \in Inputs : updateInjection(r, input)
    \/ \E r \in Rules, k \in Kinds, enabled \in BOOLEAN : setInjectionFileEnabled(r, k, enabled)
    \/ \E r \in Rules : removeInjection(r)
    \/ \E r \in Rules, enabled \in BOOLEAN : setInjectionEnabled(r, enabled)
    \/ \E h \in Hosts : enableInjectionsForSite(h) \/ disableInjectionsForSite(h)
    \/ \E h \in Hosts : getPageInjections(h)
    \/ clearSourceCache

Next == Handlers \/ Timer \/ WriteDone \/ WriteFailed \/ load \/ loadFails \/ Stop

Spec == Init /\ [][Next]_vars

\* Timers fire, the browser does the writes.  Nothing is assumed of the users
\* nor of the browser keeping the background alive.
FairSpec == Spec /\ WF_vars(Timer) /\ WF_vars(WriteDone \/ WriteFailed)
-----------------------------------------------------------------------------
(* Properties *)

\* When nothing is left to be written and the last write did not fail, storage
\* holds the memory, whole, in the current form: no handler forgets to persist,
\* persists before it is done, or loses its call in the throttle.
QuietIsSaved ==
    phase = "ready" /\ window = "open" /\ writes = << >> /\ ~failed =>
        Loaded(stored) = Content /\ ~Repaired(stored)

\* A file a rule does not have is never switched off, so that adding it later
\* does not resurrect a disabled state, through edits and restarts.
NoStaleFlags ==
    phase = "ready" =>
        \A r \in Rules, k \in Kinds :
            rules[r] # None /\ ~rules[r].flag[k] => rules[r].path[k]

\* Rule mutations invalidate the cache immediately: what is cached was read for
\* the rule as it is now, on a site that is not blocked.
CachedAsTheRuleIs ==
    \A r \in Rules : cached[r] # None => cached[r] = rules[r] /\ rules[r].site \notin blocklist

\* What a restart comes back to is a state the rules were in as a whole.
Recoverable ==
    INSTANCE DurableState WITH
        memory <- IF phase = "ready" THEN Content ELSE Down,
        saved <- Loaded(stored), savedAt <- stored.rev

NeverTorn == Recoverable!Spec

\* A running background saves its latest state, or its last write failed.
EventuallySaved ==
    []<>(phase # "ready" \/ failed \/ Loaded(stored) = Content)
=============================================================================
