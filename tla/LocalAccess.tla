----------------------------- MODULE LocalAccess -----------------------------
(***************************************************************************)
(* How local sources are read on Chromium: the access method in the        *)
(* settings, LocalSourceAccess (the readiness of the native host and its   *)
(* revision), the optional nativeMessaging permission, the reads under     *)
(* way, and the two pages that switch the method: the options page, which  *)
(* requests the permission, and the popup, which only goes back to         *)
(* browser access and may be closed at any moment.                         *)
(*                                                                         *)
(* Whatever runs between two awaits is one step.  A disconnect rejects the *)
(* pings and reads that wait for the port, and what they do then is part   *)
(* of the step that disconnects.  The ghosts switches (how often browser   *)
(* access was selected) and since (what it was when a probe or a read      *)
(* began) are in no guard.                                                 *)
(***************************************************************************)
EXTENDS Settings, FiniteSets

CONSTANTS MaxAsks,       \* readiness probes
          MaxSelections, \* selections of a method
          MaxToggles,    \* changes of the enabled setting
          MaxCloses,     \* closings of the popup
          MaxUnloads,    \* restarts of the background
          MaxFailures,   \* failures of the storage, the permissions and the host
          MaxSpent       \* probes, changes, closings, restarts and failures together

VARIABLES permission,    \* the optional permission is granted
          access,        \* LocalSourceAccess.state
          revision,      \* LocalSourceAccess.stateRevision
          probed,        \* a ghost: getState was the last to increase it
          asks,          \* the calls of getState
          reading,       \* None, or what switches was when the read began
          options, popup,
          switches, selections, toggles, closes, unloads, failures

background == <<access, revision, probed, reading, switches>>
pages == <<permission, options, popup>>
counters == <<selections, toggles, closes, unloads, failures>>
vars == <<settingsVars, background, asks, permission, options, popup, counters>>

Asks == 1..MaxAsks
Spent == Cardinality({k \in Asks : asks[k] # None}) + toggles + closes + unloads + failures
May(count, max) == count < max /\ Spent < MaxSpent
Hosts == {"checking", "missing", "ready", "failed", "disconnected", "readFailed",
          "missingReadFailed"}      \* readFailed, and the permission missing
Checking == [host |-> "checking", since |-> 0]
Over == [pc |-> "over", rev |-> 0, since |-> 0, request |-> 0, kind |-> "browser",
         host |-> "checking"]
ClosedPopup == [pc |-> "closed", ask |-> 0, view |-> [kind |-> "browser", host |-> "allowed"]]
Views == [kind : {"native"}, host : Hosts] \cup [kind : {"browser"}, host : {"allowed", "denied"}]
AllowedView == [kind |-> "browser", host |-> "allowed"]
Phases == {"contains", "ping", "allowed", "answered", "over"}
Calls == [pc : Phases, rev : Nat, since : Nat, request : Nat, kind : Methods,
          host : Hosts \cup {"allowed", "denied"}]

OptionsStates ==
    [pc : {"idle", "requesting", "setting", "set", "unset", "checking", "removing"},
     target : Methods, method : Methods, request : Nat, waits : Nat, shown : Nat, view : Views]
PopupStates ==
    [pc : {"closed", "loading", "idle", "setting", "set", "checking"},
     ask : {0} \cup Asks, view : Views]

ASSUME PagesAssumption == {"options", "popup"} \subseteq Pages /\ None \notin Calls

TypeOK ==
    /\ SettingsTypeOK
    /\ permission \in BOOLEAN
    /\ access \in [host : Hosts, since : Nat]
    /\ revision \in Nat /\ switches \in Nat /\ probed \in BOOLEAN
    /\ asks \in [Asks -> {None} \cup Calls]
    /\ reading = None \/ reading \in Nat
    /\ options \in OptionsStates /\ popup \in PopupStates
    /\ \A c \in {selections, toggles, closes, unloads, failures} : c \in Nat
-----------------------------------------------------------------------------
(* LocalSourceAccess *)

\* Mutant: the revision is read before it is increased.
CapturedEarly(rev) == rev

\* The revision a probe captures when it increases rev.
Captured(rev) == rev + 1

\* getState up to its first await.
getState(k, request) ==
    /\ Spent < MaxSpent
    /\ asks[k] = None /\ \A j \in Asks : j < k => asks[j] # None
    /\ IF settings.method = "browser"
       THEN /\ asks' = [asks EXCEPT ![k] = [pc |-> "allowed", rev |-> 0, since |-> 0,
                                            request |-> request, kind |-> "browser",
                                            host |-> "denied"]]
            /\ UNCHANGED <<access, revision, probed>>
       ELSE /\ asks' = [asks EXCEPT ![k] = [pc |-> "contains", rev |-> Captured(revision),
                                            since |-> switches, request |-> request,
                                            kind |-> "native", host |-> "checking"]]
            /\ revision' = revision + 1
            /\ probed' = TRUE
            /\ access' = Checking
    /\ UNCHANGED <<reading, switches>>

IsNewest(k) == asks[k].rev = revision

Probing(k, pc) == asks[k] # None /\ asks[k].pc = pc
To(k, pc) == [asks EXCEPT ![k].pc = pc]
Answered(k, host) == [asks EXCEPT ![k].pc = "answered", ![k].host = host]

\* The state after the probe k has ended with host.
applyProbeState(k, host) ==
    IF IsNewest(k) THEN [host |-> host, since |-> asks[k].since] ELSE access

\* The pings that a disconnect rejects, answered with the state they find.
Rejected(as, host) ==
    [j \in Asks |-> IF as[j] # None /\ as[j].pc = "ping"
                    THEN [as[j] EXCEPT !.pc = "answered",
                                     !.host = IF as[j].rev = revision THEN "disconnected" ELSE host]
                    ELSE as[j]]

\* The newest has set that itself; an older one finds it so before or after that.
Found == {access.host, "disconnected"}

\* The probe the state waits for, if it is among those a disconnect rejects.
NewestPing == {j \in Asks : Probing(j, "ping") /\ IsNewest(j)}

\* A read rejected by a disconnect marks the state it finds.
markReadFailed(state) ==
    IF reading = None \/ settings.method # "native"
    THEN access' = state /\ UNCHANGED <<revision, probed>>
    ELSE /\ access' = [host |-> IF state.host \in {"missing", "missingReadFailed"}
                                THEN "missingReadFailed" ELSE "readFailed",
                       since |-> reading]
         /\ revision' = revision + 1
         /\ probed' = FALSE

\* After permissions.contains, which may also fail.
PermissionChecked(k) ==
    /\ Probing(k, "contains")
    /\ \/ /\ permission
          /\ asks' = To(k, "ping")
          /\ UNCHANGED <<access, revision, probed, reading, failures>>
       \/ /\ ~permission \/ May(failures, MaxFailures)
          /\ failures' = IF permission THEN failures + 1 ELSE failures
          /\ \E host \in Found :
                asks' = Rejected(Answered(k, IF IsNewest(k) THEN "missing" ELSE access.host), host)
          /\ markReadFailed(IF IsNewest(k) THEN applyProbeState(k, "missing")
                            ELSE IF NewestPing = {} THEN access
                            ELSE applyProbeState(CHOOSE j \in NewestPing : TRUE,
                                                 "disconnected"))
          /\ reading' = None
    /\ UNCHANGED <<settingsVars, switches, permission, options, popup,
                   selections, toggles, closes, unloads>>

\* The host answers, or the ping fails for itself: no such host, no answer in time.
Pinged(k) ==
    /\ Probing(k, "ping")
    /\ \E host \in {"ready", "failed"} : access' = applyProbeState(k, host)
    /\ asks' = Answered(k, access'.host)
    /\ UNCHANGED <<settingsVars, revision, probed, reading, switches, permission, options,
                   popup, counters>>

AllowedChecked(k) ==
    /\ Probing(k, "allowed")
    /\ \E host \in {"allowed", "denied"} : asks' = Answered(k, host)
    /\ UNCHANGED <<settingsVars, background, permission, options, popup, counters>>

\* The port reports that the host has gone.
HostDies ==
    /\ reading # None \/ \E k \in Asks : Probing(k, "ping")
    /\ May(failures, MaxFailures)
    /\ failures' = failures + 1
    /\ \E host \in Found : asks' = Rejected(asks, host)
    /\ markReadFailed(IF NewestPing = {} THEN access
                      ELSE applyProbeState(CHOOSE j \in NewestPing : TRUE, "disconnected"))
    /\ reading' = None
    /\ UNCHANGED <<settingsVars, switches, pages, selections, toggles, closes, unloads>>

\* Mutant: the port is left to whoever uses it.
methodChangedOnly(method) ==
    /\ revision' = revision + 1 /\ probed' = FALSE
    /\ access' = Checking
    /\ switches' = switches + 1
    /\ UNCHANGED <<asks, reading>>

\* What the disconnect rejects changes nothing: the probes are stale and a
\* failed read is ignored under browser access.
methodChanged(method) ==
    /\ revision' = revision + 1 /\ probed' = FALSE
    /\ access' = Checking
    /\ IF method = "browser"
       THEN /\ asks' = Rejected(asks, "checking") /\ reading' = None
            /\ switches' = switches + 1
       ELSE UNCHANGED <<asks, reading, switches>>
-----------------------------------------------------------------------------
(* Reading a local source: one read stands for those under way.            *)

StartRead ==
    /\ settings.method = "native" /\ reading = None
    /\ reading' = switches
    /\ UNCHANGED <<settingsVars, access, revision, probed, switches, asks, pages, counters>>

\* How a read at the host ends: its content, an error the host names, or one of
\* the channel.
ReadEnds == {"content", "FILE_NOT_FOUND", "NATIVE_TIMEOUT"}

getNativeErrorCode(end) == IF end = "FILE_NOT_FOUND" THEN end ELSE "NATIVE_FAILED"
isNativeHostWideFailure(end) == end # "content" /\ getNativeErrorCode(end) = "NATIVE_FAILED"

EndRead ==
    /\ reading # None
    /\ reading' = None
    /\ \E end \in ReadEnds :
          IF isNativeHostWideFailure(end)
          THEN /\ May(failures, MaxFailures)
               /\ failures' = failures + 1
               /\ markReadFailed(access)
          ELSE UNCHANGED <<access, revision, probed, failures>>
    /\ UNCHANGED <<settingsVars, switches, asks, pages, selections, toggles, closes, unloads>>
-----------------------------------------------------------------------------
(* The settings of the background and the answers of its message handler   *)

\* The page that waits for the write learns how it ended.
Replied(page, pc) ==
    /\ options' = IF page = "options" THEN [options EXCEPT !.pc = pc] ELSE options
    /\ popup' = IF page # "popup" THEN popup
                ELSE [popup EXCEPT !.pc = IF pc = "set" THEN "set" ELSE "idle"]

\* SET_LOCAL_SOURCE_ACCESS_METHOD goes on when its write has settled.
Settled ==
    /\ SettleWrite
    /\ LET w == Head(writes) IN
       IF w.update[1] = "method"
       THEN methodChanged(w.update[2]) /\ Replied(w.from, "set")
       ELSE UNCHANGED <<background, asks, options, popup>>
    /\ UNCHANGED <<permission, counters>>

Unsettled ==
    /\ May(failures, MaxFailures)
    /\ FailWrite
    /\ Replied(Head(writes).from, "unset")
    /\ failures' = failures + 1
    /\ UNCHANGED <<background, asks, permission, selections, toggles, closes, unloads>>

\* ENABLE_APP and DISABLE_APP
SetEnabled ==
    /\ May(toggles, MaxToggles)
    /\ toggles' = toggles + 1
    /\ \E b \in BOOLEAN : queueSettingsWrite(<<"enabled", b>>, None)
    /\ UNCHANGED <<background, asks, pages, selections, closes, unloads, failures>>

Storage ==
    /\ IssueWrite \/ LandWrite
    /\ UNCHANGED <<background, asks, pages, counters>>
-----------------------------------------------------------------------------
(* What the pages make of the state they were told.                         *)

\* getStatusPresentation, getAccessPillState: the tone of the status line and
\* of the pill.
Tone(view) ==
    CASE view.host \in {"allowed", "ready"} -> "ok"
      [] view.host = "checking" -> "pending"
      [] OTHER -> "warn"

\* getAccessBlockState: the popup offers browser access when the host is not
\* healthy, and the settings when the browser does not allow files.
Offer(view) ==
    CASE Tone(view) # "warn" -> None
      [] view.kind = "native" -> "useBrowserAccess"
      [] OTHER -> "openSettings"

\* MethodStatus has a button for a permission that is missing.
NeedsPermission(view) == view.host \in {"missing", "missingReadFailed"}

\* AccessMethodCards: the card that is not selected; nothing during a transition.
Selectable(method) ==
    /\ options.pc = "idle"
    /\ method # options.method \/ (method = "native" /\ NeedsPermission(options.view))

-----------------------------------------------------------------------------
(* The options page *)

\* setLocalSourceAccessMethod up to its first await.
send(method) ==
    /\ queueSettingsWrite(<<"method", method>>, "options")
    /\ options' = [options EXCEPT !.pc = "setting", !.target = method,
                                  !.request = options.request + 1]

changeLocalSourceAccessMethod(method) ==
    /\ Selectable(method) /\ selections < MaxSelections
    /\ selections' = selections + 1
    /\ IF method = "native"
       THEN /\ options' = [options EXCEPT !.pc = "requesting", !.target = method]
            /\ UNCHANGED settingsVars
       ELSE send(method)
    /\ UNCHANGED <<background, asks, permission, popup, toggles, closes, unloads, failures>>

RequestAnswered ==
    /\ options.pc = "requesting"
    /\ \/ permission' = TRUE /\ send("native")
       \/ /\ ~permission
          /\ options' = [options EXCEPT !.pc = "idle"]
          /\ UNCHANGED <<permission, settingsVars>>
    /\ UNCHANGED <<background, asks, popup, counters>>

\* getCheckingAccessState
CheckingView(method) ==
    IF method = "browser" THEN AllowedView ELSE [kind |-> "native", host |-> "checking"]

\* The selection is shown and its readiness asked for.
MethodSet ==
    /\ options.pc = "set"
    /\ \E k \in Asks : getState(k, options.request + 2)
    /\ options' = [options EXCEPT !.pc = "checking", !.method = options.target,
                                  !.request = @ + 2, !.waits = options.request + 2,
                                  !.shown = options.request + 1,
                                  !.view = CheckingView(options.target)]
    /\ UNCHANGED <<settingsVars, permission, popup, counters>>

MethodNotSet ==
    /\ options.pc = "unset"
    /\ options' = [options EXCEPT !.pc = IF options.target = "native" THEN "removing"
                                                                      ELSE "idle"]
    /\ UNCHANGED <<settingsVars, background, asks, permission, popup, counters>>

\* refreshLocalSourceAccess, on focus.
Focus ==
    /\ \E k \in Asks : getState(k, options.request + 1)
    /\ options' = [options EXCEPT !.request = @ + 1]
    /\ UNCHANGED <<settingsVars, permission, popup, counters>>

\* The permission API: it may fail, or leave the permission as it is.
Removed ==
    \/ permission' = FALSE /\ UNCHANGED failures
    \/ /\ May(failures, MaxFailures)
       /\ failures' = failures + 1
       /\ UNCHANGED permission

\* removeUnusedNativeMessagingPermission
RemovePermission ==
    /\ options.pc = "removing"
    /\ Removed
    /\ options' = [options EXCEPT !.pc = "idle"]
    /\ UNCHANGED <<settingsVars, background, asks, popup, selections, toggles, closes,
                   unloads>>

\* Mutant: an answer is shown whatever was asked since.
IsLatestAlways(request) == TRUE

IsLatest(request) == request = options.request

\* What follows the answer of the readiness check of a transition.
Checked == IF options.target = "browser" THEN "removing" ELSE "idle"

\* The answer of getState reaches the page that asked.
Answer(k) ==
    /\ Probing(k, "answered")
    /\ asks' = [asks EXCEPT ![k] = Over]
    /\ LET request == asks[k].request
           view == [kind |-> asks[k].kind, host |-> asks[k].host]
           shows == IsLatest(request) /\ asks[k].kind = options.method
       IN
        /\ options' =
             IF request = 0 THEN options
             ELSE [options EXCEPT
                     !.shown = IF shows THEN request ELSE @,
                     !.view = IF shows THEN view ELSE @,
                     !.waits = IF @ = request THEN 0 ELSE @,
                     !.pc = IF @ = "checking" /\ request = options.waits THEN Checked ELSE @]
        /\ popup' =
             CASE popup.ask = k /\ popup.pc = "loading" -> [popup EXCEPT !.pc = "idle", !.view = view]
               [] popup.ask = k /\ popup.pc = "checking" ->
                    [popup EXCEPT !.pc = "idle", !.view = IF view.kind = "browser" THEN view ELSE @]
               [] OTHER -> popup
    /\ UNCHANGED <<settingsVars, background, permission, counters>>
-----------------------------------------------------------------------------
(* The popup *)

\* getPopupData: the popup opens and asks for the state.
OpenPopup ==
    /\ popup.pc = "closed"
    /\ \E k \in Asks : getState(k, 0) /\ popup' = [popup EXCEPT !.pc = "loading", !.ask = k]
    /\ UNCHANGED <<settingsVars, permission, options, counters>>

\* AccessBlock: the notice and its button, disabled during a transition.
OffersBrowserAccess == popup.pc = "idle" /\ Offer(popup.view) = "useBrowserAccess"

useBrowserFileAccess ==
    /\ OffersBrowserAccess /\ selections < MaxSelections
    /\ selections' = selections + 1
    /\ queueSettingsWrite(<<"method", "browser">>, "popup")
    /\ popup' = [popup EXCEPT !.pc = "setting"]
    /\ UNCHANGED <<background, asks, permission, options, toggles, closes, unloads, failures>>

\* The selection is shown and its readiness asked for.
AskAgain ==
    \E k \in Asks :
        /\ getState(k, 0)
        /\ popup' = [pc |-> "checking", ask |-> k, view |-> AllowedView]

\* Mutant: the popup only saves the method.
PopupSetOnly ==
    /\ popup.pc = "set"
    /\ AskAgain
    /\ UNCHANGED <<settingsVars, permission, options, counters>>

PopupSet ==
    /\ popup.pc = "set"
    /\ Removed
    /\ AskAgain
    /\ UNCHANGED <<settingsVars, options, selections, toggles, closes, unloads>>

\* The popup is closed: nobody waits for its calls any more.
ClosePopup ==
    /\ popup.pc # "closed" /\ May(closes, MaxCloses)
    /\ closes' = closes + 1
    /\ popup' = ClosedPopup
    /\ writes' = [i \in DOMAIN writes |->
                    IF writes[i].from = "popup" THEN [writes[i] EXCEPT !.from = None]
                                                ELSE writes[i]]
    /\ UNCHANGED <<settings, stored, background, asks, permission, options, selections,
                   toggles, unloads, failures>>
-----------------------------------------------------------------------------
\* The state after the probe a background makes when it starts.  No message is
\* handled before its end, so that nothing comes between its steps.
Booted ==
    IF settings'.method = "browser" THEN {Checking}
    ELSE {[host |-> h, since |-> switches] :
             h \in IF permission THEN {"ready", "failed", "disconnected"} ELSE {"missing"}}

\* The background is unloaded: its callers see an error, and the next instance
\* restores its settings and probes the host before it hears anyone.
Unload ==
    /\ May(unloads, MaxUnloads)
    /\ unloads' = unloads + 1
    /\ ReloadSettings
    /\ access' \in Booted
    /\ probed' = (settings'.method = "native")
    /\ revision' = IF probed' THEN 1 ELSE 0
    /\ asks' = [k \in Asks |-> IF asks[k] = None THEN None ELSE Over]
    /\ reading' = None
    /\ options' = [options EXCEPT !.waits = 0,
                                  !.pc = IF @ = "setting" THEN "unset"
                                         ELSE IF @ = "checking" THEN Checked ELSE @]
    /\ popup' = CASE popup.pc = "loading" -> ClosedPopup
                  [] popup.pc \in {"setting", "checking"} -> [popup EXCEPT !.pc = "idle"]
                  [] OTHER -> popup
    /\ UNCHANGED <<switches, permission, selections, toggles, closes, failures>>

Init ==
    /\ SettingsInit
    /\ permission = FALSE
    /\ access = Checking /\ revision = 0 /\ probed = FALSE
    /\ asks = [k \in Asks |-> None]
    /\ reading = None
    /\ options = [pc |-> "idle", target |-> "browser", method |-> "browser",
                  request |-> 0, waits |-> 0, shown |-> 0, view |-> AllowedView]
    /\ popup = ClosedPopup
    /\ switches = 0 /\ selections = 0 /\ toggles = 0
    /\ closes = 0 /\ unloads = 0 /\ failures = 0

Next ==
    \/ Storage \/ Settled \/ Unsettled \/ SetEnabled
    \/ StartRead \/ EndRead \/ HostDies
    \/ \E k \in Asks : PermissionChecked(k) \/ Pinged(k) \/ AllowedChecked(k) \/ Answer(k)
    \/ \E method \in Methods : changeLocalSourceAccessMethod(method)
    \/ RequestAnswered \/ MethodSet \/ MethodNotSet \/ Focus \/ RemovePermission
    \/ OpenPopup \/ useBrowserFileAccess \/ PopupSet \/ ClosePopup
    \/ Unload

Spec == Init /\ [][Next]_vars
-----------------------------------------------------------------------------
(* Properties *)

\* What LocalSourceAccess says of the host was found out after browser access
\* was last selected: no probe or read that was under way then is heard.
EvidenceIsCurrent == access.host # "checking" => access.since = switches

\* The state does not stay "checking" once a probe has begun and no probe is
\* under way: some probe is always the newest one and gets to apply its result.
NoEndlessChecking ==
    (access.host = "checking" /\ probed)
        => \E k \in Asks : Probing(k, "contains") \/ Probing(k, "ping")

\* No read of a local file waits at the host once browser access is selected.
NoReadBehindSwitch == reading # None => settings.method = "native"

\* A page warns only of the method it shows as selected: the popup that has gone
\* back to browser access has nothing to offer but the settings of the browser.
WarnsOfSelected ==
    /\ options.view.kind = options.method
    /\ popup.pc = "checking" => Offer(popup.view) = None

\* Neither an old probe nor an old read outlives a switch, and no page shows what
\* it was told before one; with the types.
NothingBehindSwitch == TypeOK /\ EvidenceIsCurrent /\ NoReadBehindSwitch /\ WarnsOfSelected

\* The readiness the options page shows is never replaced by the answer to an
\* older question.
ShownOnlyNewer == [][options'.shown >= options.shown]_options

Quiet == writes = << >> /\ options.pc = "idle" /\ popup.pc \in {"closed", "loading", "idle"}

\* DEVELOPMENT.md: switching back to browser access, from the options page or
\* from the popup, removes the optional permission.
SwitchingBackRemovesPermission == (Quiet /\ settings.method = "browser") => ~permission

\* It does, in whatever order the two pages' switches are applied, as long as
\* no call fails and neither the popup nor the background goes away.
BrowserGivesUpPermission ==
    (closes = 0 /\ unloads = 0 /\ failures = 0) => SwitchingBackRemovesPermission
=============================================================================
