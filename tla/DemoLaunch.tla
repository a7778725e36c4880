------------------------------ MODULE DemoLaunch ------------------------------
(***************************************************************************)
(* The built-in demo of the Safari build: class DemoLaunchService of       *)
(* background/demo-launch-service.ts.  Run Demo binds one launch to a tab; *)
(* the documents of that tab are then served the demo instead of rules.    *)
(* Every method awaits the browser in its middle, so runs, documents,      *)
(* state requests, removed tabs and the first custom rule interleave; the  *)
(* background may be unloaded at any moment, which the launch survives in  *)
(* session storage.                                                        *)
(***************************************************************************)
EXTENDS Integers, Sequences, FiniteSets

CONSTANTS
    Tabs, Clicks, None,
    MaxDocuments, MaxRuns, MaxChanges, MaxUnloads, MaxFailures   \* bounds of the model

ASSUME BoundsAssumption ==
    {MaxDocuments, MaxRuns, MaxChanges, MaxUnloads, MaxFailures} \subseteq Nat

Docs == 1..MaxDocuments

VARIABLES
    launch,       \* the launch, or None
    restoring,    \* "no", "reading", "done": the one-time restore
    overwritten,
    removed,      \* tabs whose removal waits for the restore
    pendingRun,   \* the click whose run is shared, or None
    runs,         \* [Clicks -> startOrFocus in progress]
    asker,        \* getState in progress
    requests,     \* [Docs -> handleDocumentRequest of a document, or None]
    stored, ops,  \* session storage and the calls it has not done yet
    pages,        \* [Tabs -> the document shown, or Unopened, Closed, Blank]
    js, css,      \* documents the demo script ran in, the demo style was added to
    hasRule, enabled, blocked,   \* a custom rule exists; Pause; example.com is disabled
    started, changes, unloads, failures,  \* counters for the bounds
    meant,        \* history: the launch last set by any instance
    lost          \* history: removed tabs of which an unloaded instance never heard

removals == <<removed, lost>>
memory == <<launch, restoring, overwritten, removals>>
session == <<stored, ops>>
web == <<pages, js, css>>
settings == <<hasRule, enabled, blocked>>
counters == <<started, changes, unloads, failures>>
vars == <<memory, pendingRun, runs, asker, requests, session, web, settings, counters, meant>>

Statuses == {"waiting", "applied", "failed"}
Failures == {"", "paused", "siteDisabled", "sourcesUnavailable", "notConfirmed"}
Launches == [tab : Tabs, at : 1..MaxRuns, status : Statuses, failure : Failures]
Urls == {"target", "other"}
Requests ==
    [tab : Tabs, url : Urls, launch : Launches \cup {None},
     pc : {"asking", "restoring", "loading", "executing", "executed", "unexecuted",
           "served", "over"}]

ASSUME NoneAssumption == None \notin Clicks \cup Tabs \cup Launches \cup Requests

Unopened == -2
Closed == -1
Blank == 0

Idle == [pc |-> "idle", launch |-> None]
NoRuns == [c \in Clicks |-> [pc |-> "idle", number |-> 0, tab |-> None]]

TypeOK ==
    /\ launch \in Launches \cup {None}
    /\ restoring \in {"no", "reading", "done"}
    /\ overwritten \in BOOLEAN
    /\ removed \subseteq Tabs
    /\ pendingRun \in Clicks \cup {None}
    /\ runs \in [Clicks -> [pc : {"idle", "restoring", "loading", "checking", "navigating", "opening"},
                            number : 0..MaxRuns, tab : Tabs \cup {None}]]
    /\ asker \in [pc : {"idle", "restoring", "checking"}, launch : Launches \cup {None}]
    /\ requests \in [Docs -> {None} \cup Requests]
    /\ stored \in Launches \cup {None}
    /\ pages \in [Tabs -> {Unopened, Closed, Blank} \cup Docs]
    /\ js \cup css \subseteq Docs
    /\ {hasRule, enabled, blocked} \subseteq BOOLEAN
    /\ meant \in Launches \cup {None}
    /\ lost \subseteq Tabs

Open(t) == pages[t] \notin {Unopened, Closed}
Shown(d) == pages[requests[d].tab] = d

\* isBuiltInDemoOffered, in the build that ships the demo
Offered == ~hasRule

\* Mutant: any launch of the tab counts as the captured one.
isCurrentOnTab(l) == launch # None /\ launch.tab = l.tab

\* isCurrent
isCurrent(l) == launch # None /\ launch.tab = l.tab /\ launch.at = l.at

\* A launch as run sets it; number stands for the clock, which no two runs share.
Armed(t, number) == [tab |-> t, at |-> number, status |-> "waiting", failure |-> ""]

Persisted(l) == Append(ops, [op |-> "write", launch |-> l])

\* setLaunch
setLaunch(l) ==
    /\ launch' = l /\ overwritten' = TRUE
    /\ ops' = Persisted(l)
    /\ meant' = l
    /\ UNCHANGED <<restoring, stored>>

launchStays == UNCHANGED <<launch, restoring, overwritten, session, meant>>

\* fail
fail(l, reason) ==
    IF isCurrent(l)
    THEN setLaunch([launch EXCEPT !.status = "failed", !.failure = reason])
    ELSE launchStays

\* ensureRestored, up to its await
ensureRestored ==
    /\ restoring # "done"
    /\ restoring' = "reading"
    /\ ops' = IF restoring = "no" THEN Append(ops, [op |-> "read", launch |-> None]) ELSE ops
    /\ UNCHANGED <<launch, overwritten, stored, meant>>

\* forgetTab
forgetTab(t) ==
    IF launch # None /\ launch.tab = t THEN setLaunch(None) ELSE launchStays
-----------------------------------------------------------------------------
(* Session storage: calls are done in the order they were made. *)

\* Mutant: the stored launch wins over what was written meanwhile.
RestoredOver == IF stored # None /\ launch = None THEN stored ELSE launch

\* ensureRestored: the launch when the read is done
Restored == IF stored # None /\ launch = None /\ ~overwritten THEN stored ELSE launch

ReadDone ==
    /\ ops # << >> /\ Head(ops).op = "read"
    /\ ops' = Tail(ops)
    /\ restoring' = "done"
    /\ launch' = Restored
    /\ UNCHANGED <<overwritten, stored, meant, removals, pendingRun, runs, asker, requests,
                   web, settings, counters>>

WriteDone ==
    /\ ops # << >> /\ Head(ops).op = "write"
    /\ ops' = Tail(ops)
    /\ stored' = Head(ops).launch
    /\ UNCHANGED <<memory, meant, pendingRun, runs, asker, requests, web, settings, counters>>

\* A call fails: a write leaves the old value, a read restores nothing.
StorageFails ==
    /\ ops # << >> /\ failures < MaxFailures
    /\ failures' = failures + 1
    /\ ops' = Tail(ops)
    /\ restoring' = IF Head(ops).op = "read" THEN "done" ELSE restoring
    /\ UNCHANGED <<launch, overwritten, removals, stored, meant, pendingRun, runs, asker,
                   requests, web, settings, started, changes, unloads>>
-----------------------------------------------------------------------------
(* run, startOrFocus *)

At(c, pc, t) == runs' = [runs EXCEPT ![c] = [@ EXCEPT !.pc = pc, !.tab = t]]

\* Mutant: the shared promise is not forgotten.
FinishStuck(c) == At(c, "idle", None) /\ UNCHANGED pendingRun

\* The promise of run settles.
Finish(c) ==
    /\ At(c, "idle", None)
    /\ pendingRun' = IF pendingRun = c THEN None ELSE pendingRun

others == <<removals, asker, requests, settings, changes, unloads, failures>>

\* From the checks to the first load of the sources.
startOrFocus(c) ==
    /\ IF Offered /\ enabled /\ ~blocked
       THEN /\ runs' = [runs EXCEPT ![c].pc = "loading", ![c].number = started + 1]
            /\ started' = started + 1
            /\ pendingRun' = c
       ELSE /\ Finish(c)
            /\ UNCHANGED started
    /\ launchStays
    /\ UNCHANGED <<others, web>>

BeginRun(c) ==
    /\ runs[c].pc = "idle"
    /\ started < MaxRuns
    /\ \/ restoring = "done" /\ startOrFocus(c)
       \/ /\ ensureRestored
          /\ At(c, "restoring", None)
          /\ pendingRun' = c
          /\ UNCHANGED <<others, started, web>>

\* Mutant: each click runs on its own.
runUnshared(c) == BeginRun(c)

\* run: a click while a run is pending only waits for its result.
run(c) == pendingRun = None /\ BeginRun(c)

ResumeRun(c) ==
    /\ runs[c].pc = "restoring" /\ restoring = "done"
    /\ startOrFocus(c)

\* The launch is dropped and a new tab asked for; opening it may fail at once.
openTab(c) ==
    /\ setLaunch(None)
    /\ \/ \E t \in Tabs : /\ pages[t] = Unopened
                          /\ pages' = [pages EXCEPT ![t] = Blank]
                          /\ At(c, "opening", t)
          /\ UNCHANGED pendingRun
       \/ Finish(c) /\ UNCHANGED pages
    /\ UNCHANGED <<js, css>>

RunLoaded(c) ==
    /\ runs[c].pc = "loading"
    /\ \/ /\ launch # None
          /\ At(c, "checking", launch.tab)
          /\ launchStays
          /\ UNCHANGED <<pendingRun, web>>
       \/ launch = None /\ openTab(c)
    /\ UNCHANGED <<others, started>>

RunUnloaded(c) ==
    /\ runs[c].pc = "loading"
    /\ Finish(c)
    /\ launchStays
    /\ UNCHANGED <<others, started, web>>

TabChecked(c) ==
    /\ runs[c].pc = "checking"
    /\ \/ /\ Open(runs[c].tab)
          /\ At(c, "navigating", runs[c].tab)
          /\ launchStays
          /\ UNCHANGED <<pendingRun, web>>
       \/ ~Open(runs[c].tab) /\ openTab(c)
    /\ UNCHANGED <<others, started>>

Navigated(c) ==
    /\ runs[c].pc = "navigating"
    /\ setLaunch(Armed(runs[c].tab, runs[c].number))
    /\ Finish(c)
    /\ UNCHANGED <<others, started, web>>

NavigationFailed(c) ==
    /\ runs[c].pc = "navigating"
    /\ openTab(c)
    /\ UNCHANGED <<others, started>>

Opened(c) ==
    /\ runs[c].pc = "opening"
    /\ IF Offered THEN setLaunch(Armed(runs[c].tab, runs[c].number)) ELSE launchStays
    /\ Finish(c)
    /\ UNCHANGED <<others, started, web>>
-----------------------------------------------------------------------------
(* handleDocumentRequest *)

runner == <<removals, pendingRun, runs, asker, settings, counters>>

To(d, pc) == requests' = [requests EXCEPT ![d].pc = pc]

\* From the capture of the launch to the first await.
handleDocumentRequest(d) ==
    LET r == requests[d]
        bound == launch # None /\ launch.tab = r.tab
        served == bound /\ r.url = "target" /\ Offered
    IN /\ \/ /\ ~bound
             /\ To(d, "over")
             /\ launchStays
          \/ /\ bound /\ ~served
             /\ To(d, "over")
             /\ setLaunch(None)
          \/ /\ served /\ ~enabled
             /\ To(d, "over")
             /\ fail(launch, "paused")
          \/ /\ served /\ enabled /\ blocked
             /\ To(d, "over")
             /\ fail(launch, "siteDisabled")
          \/ /\ served /\ enabled /\ ~blocked
             /\ requests' = [requests EXCEPT ![d].pc = "loading", ![d].launch = launch]
             /\ launchStays
       /\ UNCHANGED <<runner, web>>

Request(d) ==
    /\ requests[d] # None /\ requests[d].pc = "asking"
    /\ \/ restoring = "done" /\ handleDocumentRequest(d)
       \/ ensureRestored /\ To(d, "restoring") /\ UNCHANGED <<runner, web>>

\* Mutant: a request is resumed only if a launch was restored.
ResumeRequestIfRestored(d) ==
    /\ requests[d] # None /\ requests[d].pc = "restoring" /\ restoring = "done"
    /\ launch # None
    /\ handleDocumentRequest(d)

ResumeRequest(d) ==
    /\ requests[d] # None /\ requests[d].pc = "restoring" /\ restoring = "done"
    /\ handleDocumentRequest(d)

\* Mutant: what happened while the sources loaded is not looked at.
SourcesLoadedUnchecked(d) ==
    /\ requests[d] # None /\ requests[d].pc = "loading"
    /\ To(d, "executing")
    /\ launchStays
    /\ UNCHANGED <<runner, web>>

SourcesLoaded(d) ==
    /\ requests[d] # None /\ requests[d].pc = "loading"
    /\ To(d, IF isCurrent(requests[d].launch) THEN "executing" ELSE "over")
    /\ launchStays
    /\ UNCHANGED <<runner, web>>

SourcesFailed(d) ==
    /\ requests[d] # None /\ requests[d].pc = "loading"
    /\ To(d, "over")
    /\ fail(requests[d].launch, "sourcesUnavailable")
    /\ UNCHANGED <<runner, web>>

\* The browser runs the function in the document the tab shows then; it does
\* nothing in a document with another token, which is no error.
Execute(d) ==
    /\ requests[d] # None /\ requests[d].pc = "executing"
    /\ \/ /\ Open(requests[d].tab)
          /\ js' = IF Shown(d) THEN js \cup {d} ELSE js
          /\ To(d, "executed")
       \/ To(d, "unexecuted") /\ UNCHANGED js
    /\ launchStays
    /\ UNCHANGED <<runner, pages, css>>

Ran(pc) == pc = "executed"

\* After executeScript: an executed script is completed by the style.
Executed(d) ==
    /\ requests[d] # None /\ requests[d].pc \in {"executed", "unexecuted"}
    /\ LET l == requests[d].launch IN
       IF Ran(requests[d].pc)
       THEN /\ To(d, "served")
            /\ IF isCurrent(l) THEN setLaunch([launch EXCEPT !.status = "applied", !.failure = ""])
                               ELSE launchStays
       ELSE To(d, "over") /\ fail(l, "notConfirmed")
    /\ UNCHANGED <<runner, web>>

\* The content script gets the answer, unless its document is gone.
Styled(d) ==
    /\ requests[d] # None /\ requests[d].pc = "served"
    /\ css' = IF Shown(d) THEN css \cup {d} ELSE css
    /\ To(d, "over")
    /\ launchStays
    /\ UNCHANGED <<runner, pages, js>>
-----------------------------------------------------------------------------
(* getState *)

page == <<removals, pendingRun, runs, requests, web, settings, counters>>

\* Up to its first await: a launch that waits may have waited long enough.
askState ==
    /\ \/ asker' = Idle
       \/ /\ launch # None /\ launch.status = "waiting"
          /\ asker' = [pc |-> "checking", launch |-> launch]
    /\ launchStays
    /\ UNCHANGED page

getState ==
    /\ asker.pc = "idle"
    /\ \/ restoring = "done" /\ askState
       \/ /\ ensureRestored
          /\ asker' = [pc |-> "restoring", launch |-> None]
          /\ UNCHANGED page

ResumeState == asker.pc = "restoring" /\ restoring = "done" /\ askState

\* After getTab.
StateChecked ==
    /\ asker.pc = "checking"
    /\ \/ ~isCurrent(asker.launch) /\ askState
       \/ /\ isCurrent(asker.launch)
          /\ asker' = Idle
          /\ IF Open(asker.launch.tab) THEN fail(asker.launch, "notConfirmed")
                                       ELSE setLaunch(None)
          /\ UNCHANGED page
-----------------------------------------------------------------------------
(* Tabs, settings and the background's own life *)

calls == <<pendingRun, runs, asker>>

\* A tab shows a new document, whose content script asks for its injections.
Load(t, url) ==
    \E d \in Docs :
        /\ Open(t)
        /\ requests[d] = None /\ \A e \in Docs : e < d => requests[e] # None
        /\ requests' = [requests EXCEPT ![d] =
                          [tab |-> t, url |-> url, launch |-> None, pc |-> "asking"]]
        /\ pages' = [pages EXCEPT ![t] = d]
        /\ launchStays
        /\ UNCHANGED <<removals, calls, js, css, settings, counters>>

\* onTabRemoved
CloseTab(t) ==
    /\ Open(t)
    /\ pages' = [pages EXCEPT ![t] = Closed]
    /\ \/ restoring = "done" /\ forgetTab(t) /\ UNCHANGED removed
       \/ ensureRestored /\ removed' = removed \cup {t}
    /\ UNCHANGED <<lost, calls, requests, js, css, settings, counters>>

ResumeRemoved(t) ==
    /\ t \in removed /\ restoring = "done"
    /\ forgetTab(t)
    /\ removed' = removed \ {t}
    /\ UNCHANGED <<lost, calls, requests, web, settings, counters>>

\* addInjection ends any launch.
addInjection ==
    /\ changes < MaxChanges
    /\ changes' = changes + 1
    /\ hasRule' = TRUE
    /\ setLaunch(None)
    /\ UNCHANGED <<removals, calls, requests, web, enabled, blocked, started, unloads, failures>>

\* The last rule is removed, Pause or the site's switch is used.
changeSetting ==
    /\ changes < MaxChanges
    /\ changes' = changes + 1
    /\ \/ hasRule /\ hasRule' = FALSE /\ UNCHANGED <<enabled, blocked>>
       \/ enabled' = ~enabled /\ UNCHANGED <<hasRule, blocked>>
       \/ blocked' = ~blocked /\ UNCHANGED <<hasRule, enabled>>
    /\ launchStays
    /\ UNCHANGED <<removals, calls, requests, web, started, unloads, failures>>

\* The calls of session storage but the read, of which there is at most one.
WithoutRead(s) ==
    LET reads == {i \in DOMAIN s : s[i].op = "read"}
        read == CHOOSE i \in reads : TRUE
    IN IF reads = {} THEN s
       ELSE [i \in 1..(Len(s) - 1) |-> s[IF i < read THEN i ELSE i + 1]]

\* The background is unloaded; the next event starts a new instance.  Writes
\* it has asked for are done, its calls are never answered.
Unload ==
    /\ unloads < MaxUnloads
    /\ unloads' = unloads + 1
    /\ launch' = None /\ restoring' = "no" /\ overwritten' = FALSE
    /\ removed' = {} /\ lost' = lost \cup removed
    /\ pendingRun' = None /\ runs' = NoRuns
    /\ asker' = Idle
    /\ requests' = [d \in Docs |->
         IF requests[d] = None \/ requests[d].pc \in {"asking", "served"} THEN requests[d]
         ELSE [requests[d] EXCEPT !.pc = "over"]]
    /\ ops' = WithoutRead(ops)
    /\ UNCHANGED <<stored, web, settings, started, changes, failures, meant>>
-----------------------------------------------------------------------------
Init ==
    /\ launch = None /\ restoring = "no" /\ overwritten = FALSE /\ removed = {}
    /\ pendingRun = None /\ runs = NoRuns
    /\ asker = Idle
    /\ requests = [d \in Docs |-> None]
    /\ stored = None /\ ops = << >>
    /\ pages = [t \in Tabs |-> Unopened]
    /\ js = {} /\ css = {}
    /\ hasRule = FALSE /\ enabled = TRUE /\ blocked = FALSE
    /\ started = 0 /\ changes = 0 /\ unloads = 0 /\ failures = 0
    /\ meant = None /\ lost = {}

\* What waits for the restore resumes before any other event is handled.
Resume ==
    \/ \E c \in Clicks : ResumeRun(c)
    \/ \E d \in Docs : ResumeRequest(d)
    \/ \E t \in Tabs : ResumeRemoved(t)
    \/ ResumeState

Resuming ==
    /\ restoring = "done"
    /\ \/ removed # {}
       \/ asker.pc = "restoring"
       \/ \E c \in Clicks : runs[c].pc = "restoring"
       \/ \E d \in Docs : requests[d] # None /\ requests[d].pc = "restoring"

Storage == ReadDone \/ WriteDone \/ StorageFails

Run(c) ==
    \/ RunLoaded(c) \/ RunUnloaded(c) \/ TabChecked(c)
    \/ Navigated(c) \/ NavigationFailed(c) \/ Opened(c)

Serve(d) ==
    \/ Request(d) \/ SourcesLoaded(d) \/ SourcesFailed(d)
    \/ Execute(d) \/ Executed(d) \/ Styled(d)

Event ==
    \/ Storage
    \/ \E c \in Clicks : run(c) \/ Run(c)
    \/ \E d \in Docs : Serve(d)
    \/ getState \/ StateChecked
    \/ \E t \in Tabs : CloseTab(t) \/ \E url \in Urls : Load(t, url)
    \/ addInjection \/ changeSetting
    \/ Unload

Next == Resume \/ (~Resuming /\ Event)

Spec == Init /\ [][Next]_vars

\* The browser answers every call of the background.
FairSpec ==
    /\ Spec
    /\ WF_vars(Resume)
    /\ WF_vars(~Resuming /\ Storage)
    /\ \A c \in Clicks : WF_vars(~Resuming /\ Run(c))
    /\ \A d \in Docs : WF_vars(~Resuming /\ Serve(d))
-----------------------------------------------------------------------------
(* Properties *)

\* The launch of a background is the one last set, by itself or by an instance
\* before it: unloading loses no launch, and a restore that is late never
\* brings back one that was ended meanwhile.
LaunchIsMeant == (restoring = "done" /\ failures = 0) => launch = meant

\* When session storage has nothing left to do it holds the launch last set.
StoredIsMeant == (ops = << >> /\ failures = 0) => stored = meant

\* Memory and session storage keep the launch, and every variable its type.
LaunchIsKept == TypeOK /\ LaunchIsMeant /\ StoredIsMeant

\* A custom rule is authoritative from the moment it exists: no document is
\* handed the demo script beside it, whatever was in progress when it was added.
NoDemoBesideRules ==
    [][\A d \in Docs : (requests'[d] # None /\ requests'[d].pc = "executing"
                        /\ requests[d].pc # "executing") => ~hasRule]_vars

\* Rapid clicks never open competing tabs.
OneTabAtATime == Cardinality({c \in Clicks : runs[c].pc \in {"navigating", "opening"}}) <= 1

\* A launch the demo was applied for is bound to a tab that still exists, unless
\* the background was unloaded while the removal of the tab waited for the
\* restore: no instance hears of it again.
AppliedTabIsOpen ==
    (launch # None /\ launch.status = "applied" /\ failures = 0 /\ ~Resuming)
        => Open(launch.tab) \/ launch.tab \in lost

\* The demo is whole where it is: its style is added only to a document its
\* script ran in, and the tab it was applied to is there.
DemoIsWhole == css \subseteq js /\ AppliedTabIsOpen

\* A run never stays pending, or Run Demo would do nothing until the background
\* is unloaded; and every document gets its answer.
RunEnds == (pendingRun # None) ~> (pendingRun = None)
DocumentAnswered ==
    \A d \in Docs : (requests[d] # None) ~> (requests[d] # None /\ requests[d].pc = "over")

\* What the comment of getState says: only an unconfirmed launch is failed by
\* the bounded wait.
WaitFailsUnconfirmed ==
    [][(asker.pc = "checking" /\ asker'.pc = "idle" /\ launch # None /\ launch' # launch)
          => launch.status # "applied"]_vars
=============================================================================
