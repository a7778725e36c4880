--------------------------- MODULE NativeManifests ---------------------------
(***************************************************************************)
(* The files by which browsers find the native host on macOS, and what the *)
(* installer (native-host/internal/install) reads in them: one manifest    *)
(* for each browser, the host executable inside each copy of Kode Injector *)
(* Helper, and the copied ("legacy") host of the contributor installation. *)
(***************************************************************************)
EXTENDS Integers, FiniteSets, Sequences

CONSTANTS
    Copies,            \* copies of Kode Injector Helper.app
    Location,          \* where each copy is
    ProductionIDs,     \* Chromium extension IDs built into each copy's installer
    DevelopmentIDs,    \* those of the contributor's ID file
    FirefoxExtensionID,
    Legacy,            \* the path of the copied host
    NoHost             \* no path

Order == <<"firefox", "chrome", "edge">>    \* managedManifestPaths
Browsers == {"firefox", "chrome", "edge"}
Hosts == Copies \cup {Legacy}

Locations == [extension : {".app", ".APP", "none"},    \* of the bundle's name
              linked : BOOLEAN,                        \* a symbolic link is on its path
              readOnly : BOOLEAN,                      \* a disk image or such a volume
              inside : {"system", "user", "elsewhere"}]

ASSUME ManifestAssumption ==
    /\ Location \in [Copies -> Locations]
    /\ \A c \in Copies : ProductionIDs[c] # {}
    /\ Legacy \notin Copies
    /\ NoHost \notin Hosts
    /\ \A c \in Copies : FirefoxExtensionID \notin ProductionIDs[c] \cup DevelopmentIDs

\* What is at the place of a manifest: nothing, something that is no regular
\* file, a directory of its path that is none, a file no installer wrote, or
\* a manifest.
Leaf(kind) == [kind |-> kind, host |-> NoHost, origins |-> {}]
Manifest(b, host, ids) ==
    [kind |-> "manifest", host |-> host,
     origins |-> IF b = "firefox" THEN {FirefoxExtensionID} ELSE ids]

Refused == {"foreign", "blocked"}
Expected(b, c) == Manifest(b, c, ProductionIDs[c])
Copied(b, c) == Manifest(b, Legacy, ProductionIDs[c] \cup DevelopmentIDs)

Registration(state, host) == [state |-> state, host |-> host]

\* inspectFirefoxRegistration, inspectChromiumRegistration
Inspected(b, leaf, c) ==
    IF leaf.kind = "none" THEN Registration("missing", NoHost)
    ELSE IF leaf.kind # "manifest" THEN Registration("invalid", NoHost)
    ELSE IF leaf = Expected(b, c) THEN Registration("registered", leaf.host)
    ELSE IF [leaf EXCEPT !.host = c] = Expected(b, c) THEN Registration("stale", leaf.host)
    ELSE Registration("invalid", leaf.host)

All(registrations, state) == \A i \in DOMAIN registrations : registrations[i].state = state

\* Mutant: the copied host is not looked at.
DerivedWithoutLegacy(host, legacy, registrations) ==
    IF All(registrations, "missing") THEN "notInstalled"
    ELSE IF host = "ready" /\ All(registrations, "registered") THEN "ready"
    ELSE "repairRequired"

\* The state InspectManaged derives from what it read.
Derived(host, legacy, registrations) ==
    IF All(registrations, "missing") /\ ~legacy THEN "notInstalled"
    ELSE IF host = "ready" /\ All(registrations, "registered") /\ ~legacy THEN "ready"
    ELSE "repairRequired"

\* managedLegacySupportPresent
LegacyPresent(legacy) == legacy # "none"

\* inspectManagedHost
HostState(bundle) == IF bundle = "ready" THEN "ready" ELSE "invalid"

\* InspectManaged of the installer in copy c, when no path is blocked.
InspectManaged(disk, c) ==
    LET registrations == [i \in 1..3 |-> Inspected(Order[i], disk.leaf[Order[i]], c)]
        host == HostState(disk.bundle[c])
    IN [state |-> Derived(host, LegacyPresent(disk.legacy), registrations),
        host |-> host, path |-> c, legacy |-> LegacyPresent(disk.legacy),
        registrations |-> registrations]

\* validateManagedHostLocation
LocationAccepted(c) ==
    /\ Location[c].extension = ".app"
    /\ Location[c].inside \in {"system", "user"}
    /\ ~Location[c].linked

\* No manifest names a copied host that is not there.
HostsAreThere(disk) ==
    \A b \in Browsers : disk.leaf[b].host = Legacy => disk.legacy = "file"

Blocked(leaves) == \E b \in Browsers : leaves[b].kind = "blocked"    \* validateManagedPaths

\* The directory is as the installation of copy c leaves it, or as its removal
\* does, and what an undisturbed inspection would say.
Registered(disk, c) ==
    [disk EXCEPT !.leaf = [b \in Browsers |-> Expected(b, c)], !.legacy = "none"]
Unregistered(disk) ==
    [disk EXCEPT !.leaf = [b \in Browsers |-> Leaf("none")], !.legacy = "none"]
StateOf(disk, c) == InspectManaged(disk, c).state

\* What an operation needs of the disk: no manifest and no legacy host may be
\* anything but a regular file, and a host may only be registered from an
\* executable in an accepted place.
Removable(disk) ==
    /\ \A b \in Browsers : disk.leaf[b].kind \notin Refused
    /\ disk.legacy # "foreign"
Installable(disk, c) ==
    Removable(disk) /\ HostState(disk.bundle[c]) = "ready" /\ LocationAccepted(c)
=============================================================================
