--------------------------- MODULE InstallerHelper ---------------------------
(***************************************************************************)
(* Kode Injector Helper.app (native-host/macos-helper) over HostInstaller: *)
(* its window, the view model that runs one operation at a time, and the   *)
(* client that runs the bundled installer, waits for at most 30 seconds,   *)
(* kills it then, and takes an answer only if it passes the contract.      *)
(*                                                                         *)
(* At most one copy of the application is open; the window may be closed   *)
(* at any time, and the installer it had started goes on without it.       *)
(***************************************************************************)
EXTENDS HostInstaller

VARIABLES
    app,     \* the view model of the open copy
    calm     \* nothing was edited, and no two installers that write ran at once

vars == <<disk, proc, starts, troubles, byHand, app, calm>>

Changing == {"install", "uninstall"}
ClientErrors == {"launchFailed", "timedOut", "malformedResponse", "invalidResponse"}
LifecycleErrors == {"statusFailed", "installFailed", "uninstallFailed", "postconditionFailed"}

\* fresh: since the last operation was launched only its process has changed
\* the disk (for the properties).
Opened(c) == [copy |-> c, shown |-> "loading", snapshot |-> NoSnapshot, busy |-> FALSE,
              action |-> "none", proc |-> 0, confirming |-> FALSE, error |-> "none",
              fresh |-> FALSE]
Closed == Opened(NoHost)
IsOpen == app.copy # NoHost

TypeOK ==
    /\ disk \in Disks
    /\ \A p \in Processes : proc[p] = Idle \/
          /\ proc[p].kind \in Kinds /\ proc[p].copy \in Copies /\ proc[p].i \in 0..3
          /\ Len(proc[p].began) <= 1 /\ \A i \in DOMAIN proc[p].began : proc[p].began[i] \in Disks
    /\ app.copy \in Copies \cup {NoHost} /\ app.proc \in Processes \cup {0}
    /\ app.shown \in {"loading", "notInstalled", "ready", "repairRequired", "failed"}
    /\ app.error \in {"none"} \cup ClientErrors \cup LifecycleErrors
    /\ calm \in BOOLEAN

\* HelperApplicationLocation.detect and classify
Detected(c) ==
    LET l == Location[c] IN
    IF l.extension = "none" \/ l.linked THEN "unavailable"
    ELSE IF l.readOnly THEN "readOnlyVolume"
    ELSE CASE l.inside = "system" -> "systemApplications"
           [] l.inside = "user" -> "userApplications"
           [] OTHER -> "outsideApplications"

AllowsChanges(c) == Detected(c) \in {"systemApplications", "userApplications"}
------------------------------------------------------------------------------
(* The contract: LifecycleResponse.validated and what it validates. *)

\* BrowserRegistration.validated
ValidRegistration(r) ==
    CASE r.state \in {"registered", "stale"} -> r.host # NoHost
      [] r.state = "missing" -> r.host = NoHost
      [] OTHER -> TRUE

\* InstallationSnapshot.validated
DerivedHere(s) ==
    IF All(s.registrations, "missing") /\ ~s.legacy THEN "notInstalled"
    ELSE IF /\ ~s.legacy
            /\ s.host = "ready"
            /\ \A i \in 1..3 : s.registrations[i] = Registration("registered", s.path)
    THEN "ready"
    ELSE "repairRequired"

ValidSnapshot(s) ==
    /\ \A i \in 1..3 : ValidRegistration(s.registrations[i])
    /\ s.state = DerivedHere(s)

\* What executeApplicationAction writes when process q exits.
Response(q) == [action |-> q.kind, success |-> q.error = "none",
                snapshot |-> q.snapshot, error |-> q.error]

ValidResponse(r) ==
    /\ r.success = (r.error = "none")
    /\ r.success => r.snapshot # NoSnapshot
    /\ r.snapshot # NoSnapshot => ValidSnapshot(r.snapshot)
------------------------------------------------------------------------------
(* The view model *)

PrimaryAction ==
    CASE app.snapshot.state = "none" -> "none"
      [] app.snapshot.state = "notInstalled" -> "install"
      [] app.snapshot.state = "ready" -> "ready"
      [] OTHER -> IF \E i \in 1..3 : app.snapshot.registrations[i].state = "stale"
                  THEN "update" ELSE "repair"

CanChange == ~app.busy /\ AllowsChanges(app.copy)
CanPerformPrimary == CanChange /\ PrimaryAction \in {"install", "update", "repair"}
CanReinstall == CanChange /\ app.snapshot.state = "ready"
CanUninstall == CanChange /\ app.snapshot.state \in {"ready", "repairRequired"}

\* perform, up to where it waits for the client.
Performing(a, action) ==
    [a EXCEPT !.busy = TRUE, !.action = action, !.proc = 0, !.error = "none",
              !.shown = IF action = "status" /\ a.snapshot = NoSnapshot THEN "loading" ELSE @]

Ended(a) == [a EXCEPT !.busy = FALSE, !.action = "none", !.proc = 0]
\* Mutant: only the message tells that the operation failed.
FailedAsItWas(a, error) == [Ended(a) EXCEPT !.error = error]

Failed(a, error) == [Ended(a) EXCEPT !.shown = "failed", !.error = error]

\* What perform makes of the client's answer.
Applied(a, r) ==
    IF r.error = "killed" THEN Failed(a, "malformedResponse")
    ELSE IF ~ValidResponse(r) \/ r.action # a.action THEN Failed(a, "invalidResponse")
    ELSE IF ~r.success THEN Failed(a, r.error)
    ELSE [Ended(a) EXCEPT !.snapshot = r.snapshot, !.shown = r.snapshot.state]
------------------------------------------------------------------------------
Init == InstallerInit /\ app = Closed /\ calm = TRUE

\* Whether the disk was changed behind the operation whose process is p.
Watched(p) ==
    [app EXCEPT !.fresh = @ /\ (disk' = disk \/ (app.busy /\ p = app.proc))]

\* A second installer that writes ends the calm.
Writing(q) == q.pc \notin {"none", "exited"} /\ q.kind # "status"
Calm ==
    calm' = (/\ calm
             /\ \A p, q \in Processes : Writing(proc'[p]) /\ Writing(proc'[q]) => p = q)

\* viewDidAppear refreshes.  The installer is in the copy that is opened.
Open(c) ==
    /\ ~IsOpen
    /\ disk.bundle[c] # "absent"
    /\ starts < MaxStarts
    /\ app' = Performing(Opened(c), "status")
    /\ UNCHANGED <<installerVars, calm>>

\* The window is closed; what runs goes on.
Quit ==
    /\ IsOpen
    /\ app' = Closed
    /\ UNCHANGED <<installerVars, calm>>

\* A button; a confirmation is a sheet that keeps the others away.
Press(action, allowed) ==
    /\ IsOpen /\ ~app.confirming /\ allowed
    /\ starts < MaxStarts
    /\ app' = Performing(app, action)
    /\ UNCHANGED <<installerVars, calm>>

Refresh == Press("status", ~app.busy)
PerformPrimary == Press("install", CanPerformPrimary)
Reinstall == Press("install", CanReinstall)

RequestUninstall ==
    /\ IsOpen /\ ~app.confirming /\ CanUninstall
    /\ app' = [app EXCEPT !.confirming = TRUE]
    /\ UNCHANGED <<installerVars, calm>>

CancelUninstall ==
    /\ app.confirming
    /\ app' = [app EXCEPT !.confirming = FALSE]
    /\ UNCHANGED <<installerVars, calm>>

ConfirmUninstall ==
    /\ app.confirming /\ CanUninstall
    /\ starts < MaxStarts
    /\ app' = Performing([app EXCEPT !.confirming = FALSE], "uninstall")
    /\ UNCHANGED <<installerVars, calm>>
------------------------------------------------------------------------------
(* The client *)

Waiting == app.busy /\ app.proc # 0

Launch ==
    /\ app.busy /\ app.proc = 0
    /\ \/ /\ Start(app.action, app.copy)
          /\ app' = [app EXCEPT !.proc = FreeSlot, !.fresh = TRUE]
          /\ Calm
       \/ /\ ~CanStart(app.copy)
          /\ app' = Failed(app, "launchFailed")
          /\ UNCHANGED <<installerVars, calm>>

Finish ==
    /\ Waiting /\ proc[app.proc].pc = "exited"
    /\ app' = Applied(app, Response(proc[app.proc]))
    /\ Gone(app.proc)
    /\ UNCHANGED calm

\* Mutant: the client sends a signal and waits until the installer exits.
TimeOutPatiently ==
    /\ Waiting /\ proc[app.proc].pc = "exited"
    /\ app' = Failed(app, "timedOut")
    /\ Gone(app.proc)
    /\ UNCHANGED calm

\* terminate: the process is gone before the error is shown.
TimeOut ==
    /\ Waiting /\ Running(app.proc)
    /\ app' = Failed(app, "timedOut")
    /\ Gone(app.proc)
    /\ UNCHANGED calm
------------------------------------------------------------------------------
Process(p) == (Step(p) \/ Crash(p)) /\ app' = Watched(p) /\ Calm

\* An answer nobody reads: of a process whose window is closed, or a contributor's.
Unread(p) ==
    /\ proc[p].pc = "exited" /\ ~(app.busy /\ app.proc = p)
    /\ Gone(p)
    /\ UNCHANGED <<app, calm>>

Contribute(c, kind) == Start(kind, c) /\ UNCHANGED app /\ Calm

EditDisk == Edit /\ app' = Watched(0) /\ calm' = FALSE

Next ==
    \/ \E c \in Copies : Open(c)
    \/ Quit \/ Refresh \/ PerformPrimary \/ Reinstall
    \/ RequestUninstall \/ CancelUninstall \/ ConfirmUninstall
    \/ Launch \/ Finish \/ TimeOut
    \/ \E p \in Processes : Process(p) \/ Unread(p)
    \/ \E c \in Contributors, kind \in ByHand : Contribute(c, kind)
    \/ EditDisk

\* The client's loop ends at its deadline; nothing is assumed of the installer.
Spec == Init /\ [][Next]_vars /\ WF_vars(Launch) /\ WF_vars(Finish) /\ WF_vars(TimeOut)
------------------------------------------------------------------------------
(* Properties *)

\* A managed installation or removal that is not disturbed has one of two
\* outcomes, told apart by the disk it began with: it is done, all three
\* browsers at once and the legacy host with them, or it is refused and has
\* changed nothing.  So a repair of whatever a stopped one left succeeds.
AllOrNothing ==
    \A p \in Processes :
        LET q == proc[p] IN
        q.pc = "exited" => \A i \in DOMAIN q.began :
            LET before == q.began[i]
                possible == IF q.kind = "install" THEN Installable(before, q.copy)
                                                  ELSE Removable(before)
                done == IF q.kind = "install" THEN Registered(before, q.copy)
                                              ELSE Unregistered(before)
            IN /\ q.error = "none" <=> possible
               /\ disk = IF possible THEN done ELSE before

\* At no time, wherever an installer is stopped or fails, does a browser's
\* manifest name a copied host that is not there: the manifests go to another
\* host or away before it does, and it is there before they come.
NoDanglingManifest == calm => HostsAreThere(disk)

\* ... with the types of the variables.
Inv == TypeOK /\ NoDanglingManifest

\* What the window shows when no operation runs is the state of the disk, as
\* long as nothing but its own operations has changed it: also after one that
\* failed, was killed half way, or was started before the window was closed.
ShownIsTrue ==
    (IsOpen /\ ~app.busy /\ app.fresh /\ app.shown \notin {"loading", "failed"})
        => app.shown = StateOf(disk, app.copy)

\* The Go program and the Swift contract agree: whatever is on the disk, no
\* answer of an installer that exits is rejected, which would leave the user
\* without Repair and Uninstall.
ContractAgrees == app.error # "invalidResponse"

\* An operation ends, even if the installer hangs.
OperationEnds == app.busy ~> ~app.busy
=============================================================================
