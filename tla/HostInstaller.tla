---------------------------- MODULE HostInstaller ----------------------------
(***************************************************************************)
(* The Go program kode-injector-installer: `application status | install | *)
(* uninstall`, which Helper runs, and `development` and `uninstall`, which *)
(* a contributor types.  Nothing keeps two of them from running at once.   *)
(*                                                                         *)
(* A process changes one file per step, and may be killed between any two. *)
(* A write that replaces or removes a file may fail before or after it did *)
(* so (the directory is synchronised last): nothing is undone.  What is    *)
(* only read is read in one step: validation is repeated where a file is   *)
(* changed, and the properties speak of undisturbed inspections.           *)
(***************************************************************************)
EXTENDS NativeManifests

CONSTANTS
    Processes,      \* 1..n: processes that may run at once
    InitialDisks,   \* what earlier installations may have left
    Contributors,   \* copies whose installer a contributor runs
    Moved,          \* copies whose executable is broken or taken away
    TouchedLeaves,  \* what others may put in a manifest's place: <<browser, kind>>
    MaxStarts, MaxByHand,    \* bounds of the model: all starts, a contributor's,
    MaxTroubles              \* and failures and edits

VARIABLES
    disk,     \* leaf: what is at each manifest's place; legacy: at the copied
              \* host's; bundle: the host executable of each copy
    proc,     \* the processes
    starts, troubles, byHand

installerVars == <<disk, proc, starts, troubles, byHand>>

Managed == {"status", "install", "uninstall"}
ByHand == {"development", "remove"}
Kinds == Managed \cup ByHand

BuiltIn == UNION {ProductionIDs[c] : c \in Copies}
Manifests == [kind : {"manifest"}, host : Hosts,
              origins : SUBSET (BuiltIn \cup DevelopmentIDs \cup {FirefoxExtensionID})]
Leaves == {Leaf(k) : k \in {"none", "damaged"} \cup Refused} \cup Manifests

Disks == [leaf : [Browsers -> Leaves],
          legacy : {"none", "file", "foreign"},
          bundle : [Copies -> {"ready", "invalid", "absent"}]]

ASSUME InstallerAssumption ==
    /\ Processes \subseteq Nat \ {0}
    /\ InitialDisks \subseteq Disks
    /\ \A d \in InitialDisks : HostsAreThere(d)
    /\ Contributors \subseteq Copies /\ Moved \subseteq Copies
    /\ TouchedLeaves \subseteq Browsers \X ({"none", "damaged"} \cup Refused)
    /\ {MaxStarts, MaxByHand, MaxTroubles} \subseteq Nat

NoSnapshot == [state |-> "none"]
Idle == [kind |-> "none", pc |-> "none"]

\* began: the disk it began with, as long as nothing failed and nobody else has
\* changed the disk since (only for the properties).
Begin(kind, c) ==
    [kind |-> kind, copy |-> c,
     pc |-> CASE kind = "status" -> "inspect" [] kind \in {"install", "uninstall"} -> "validate"
              [] kind = "development" -> "copy" [] kind = "remove" -> "remove",
     i |-> 0, error |-> "none", snapshot |-> NoSnapshot, began |-> IF kind \in {"install", "uninstall"} THEN <<disk>> ELSE <<>>]

Running(p) == proc[p].pc \notin {"none", "exited"}
FreeSlots == {p \in Processes : proc[p].pc = "none"}
FreeSlot == CHOOSE p \in FreeSlots : TRUE

InstallerInit ==
    /\ disk \in InitialDisks
    /\ proc = [p \in Processes |-> Idle]
    /\ starts = 0 /\ troubles = 0 /\ byHand = 0

\* A process starts in a free slot; the executable is in copy c.
CanStart(c) == starts < MaxStarts /\ FreeSlots # {} /\ disk.bundle[c] # "absent"
Start(kind, c) ==
    /\ CanStart(c)
    /\ proc' = [proc EXCEPT ![FreeSlot] = Begin(kind, c)]
    /\ starts' = starts + 1
    /\ byHand' = IF kind \in ByHand THEN byHand + 1 ELSE byHand
    /\ byHand' <= MaxByHand
    /\ UNCHANGED <<disk, troubles>>

Disturbed(q) == IF q.pc = "none" THEN q ELSE [q EXCEPT !.began = <<>>]

\* Process p goes on as q, the disk becomes d, and no other run is undisturbed.
Goes(p, q, d) ==
    /\ disk' = d
    /\ proc' = [x \in Processes |->
                   IF x = p THEN q
                   ELSE IF d = disk THEN proc[x] ELSE Disturbed(proc[x])]
    /\ UNCHANGED <<starts, byHand>>

Exits(q, error) == [q EXCEPT !.pc = "exited", !.error = error]
Answers(q, snapshot) == [q EXCEPT !.pc = "exited", !.snapshot = snapshot]

\* p does what it does next without a failure...
Works(p, q, d) == Goes(p, q, d) /\ UNCHANGED troubles
\* ... or the file system fails it, before or after the change that takes the
\* disk to d.
Fails(p, error, outcomes) ==
    /\ troubles < MaxTroubles
    /\ troubles' = troubles + 1
    /\ \E d \in outcomes : Goes(p, Disturbed(Exits(proc[p], error)), d)

At(q, pc, i) == [q EXCEPT !.pc = pc, !.i = i]
ErrorOf(kind) == CASE kind = "install" -> "installFailed" [] kind = "uninstall" -> "uninstallFailed"
                   [] OTHER -> "statusFailed"
Gives(p, pc) == proc[p].pc = pc
Refuses(p) == Works(p, Exits(proc[p], ErrorOf(proc[p].kind)), disk)
Place(p) == Order[proc[p].i]
SetLeaf(b, leaf) == [disk EXCEPT !.leaf[b] = leaf]
------------------------------------------------------------------------------
(* InspectManaged: in a status, at the end of RegisterManaged ("verify"),  *)
(* and for the answer of install and uninstall ("report").                 *)

Inspections == {"inspect", "verify", "report"}
InspectionError(q) == IF q.pc = "report" THEN "postconditionFailed" ELSE ErrorOf(q.kind)
Wanted(kind) == IF kind = "uninstall" THEN "notInstalled" ELSE "ready"

\* executeApplicationAction, inspectApplication, inspectApplicationPostcondition
\* and the postcondition of RegisterManaged: what an inspection is for.
Concluded(q, snapshot) ==
    IF q.pc = "inspect" THEN Answers(q, snapshot)
    ELSE IF snapshot.state # Wanted(q.kind) THEN Exits(q, InspectionError(q))
    ELSE IF q.pc = "verify" THEN At(q, "report", 0)
    ELSE Answers(q, snapshot)

Inspect(p) ==
    /\ proc[p].pc \in Inspections
    /\ Works(p, IF Blocked(disk.leaf) THEN Exits(proc[p], InspectionError(proc[p]))
                ELSE Concluded(proc[p], InspectManaged(disk, proc[p].copy)), disk)
------------------------------------------------------------------------------
(* RegisterManaged and UnregisterManaged *)

\* Mutant: each manifest's place is checked only when it is changed.
AllowedByPaths(q) ==
    IF q.kind = "install" THEN Installable([disk EXCEPT !.leaf = [b \in Browsers |-> Leaf("none")]], q.copy)
                          ELSE disk.legacy # "foreign"

\* Everything is checked before anything is changed: the paths, for install the
\* host and where it is, the legacy support, and each manifest's place
\* (securePrepareManagedFile, validateManagedLeaf).
Allowed(q) == IF q.kind = "install" THEN Installable(disk, q.copy) ELSE Removable(disk)

Validate(p) ==
    /\ Gives(p, "validate")
    /\ IF Allowed(proc[p])
       THEN Works(p, At(proc[p], "change", 1), disk)
       ELSE Refuses(p)

AfterChanges(q) ==
    IF q.i < 3 THEN At(q, "change", q.i + 1)
    ELSE At(q, IF q.kind = "install" THEN "clean" ELSE "absent", 0)

\* Mutant: the host of the contributor's installation is removed first.
ChangeWithoutHost(p) ==
    /\ Gives(p, "change")
    /\ LET q == proc[p]
           leaf == IF q.kind = "install" THEN Expected(Place(p), q.copy) ELSE Leaf("none")
       IN IF disk.leaf[Place(p)].kind \in Refused THEN Refuses(p)
          ELSE Works(p, AfterChanges(q), [SetLeaf(Place(p), leaf) EXCEPT !.legacy = "none"])

\* secureWriteManagedFile by way of a temporary file, or secureRemoveManagedFile.
Change(p) ==
    /\ Gives(p, "change")
    /\ LET q == proc[p]
           changed == SetLeaf(Place(p), IF q.kind = "install" THEN Expected(Place(p), q.copy)
                                                              ELSE Leaf("none"))
       IN IF disk.leaf[Place(p)].kind \in Refused THEN Refuses(p)
          ELSE \/ Works(p, AfterChanges(q), changed)
               \/ Fails(p, ErrorOf(q.kind), {disk, changed})

\* The postcondition of UnregisterManaged.
CheckAbsent(p) ==
    /\ Gives(p, "absent")
    /\ IF \E b \in Browsers : disk.leaf[b].kind # "none" THEN Refuses(p)
       ELSE Works(p, At(proc[p], "clean", 0), disk)

\* removeManagedLegacySupport
Clean(p) ==
    /\ Gives(p, "clean")
    /\ LET q == proc[p]
           cleaned == [disk EXCEPT !.legacy = "none"]
       IN IF disk.legacy = "foreign" THEN Refuses(p)
          ELSE \/ Works(p, At(q, IF q.kind = "install" THEN "verify" ELSE "report", 0), cleaned)
               \/ Fails(p, ErrorOf(q.kind), {disk, cleaned})
------------------------------------------------------------------------------
(* Install and Uninstall of the contributor: the host is copied first and  *)
(* removed last.  What is no regular file may be replaced (a symbolic link)*)
(* or not (a directory).                                                   *)

CopyHost(p) ==
    /\ Gives(p, "copy")
    /\ \/ Works(p, At(proc[p], "write", 1), [disk EXCEPT !.legacy = "file"])
       \/ disk.legacy = "foreign" /\ Refuses(p)
       \/ Fails(p, "failed", {disk})

WriteManifest(p) ==
    /\ Gives(p, "write")
    /\ LET q == proc[p]
           next == IF q.i < 3 THEN At(q, "write", q.i + 1) ELSE Exits(q, "none")
           leaf == disk.leaf[Place(p)]
       IN \/ /\ leaf.kind # "blocked"
             /\ Works(p, next, SetLeaf(Place(p), Copied(Place(p), q.copy)))
          \/ leaf.kind = "blocked" /\ Works(p, next, disk)    \* written through a link
          \/ leaf.kind \in Refused /\ Refuses(p)
          \/ Fails(p, "failed", {disk})

RemoveFile(p) ==
    /\ Gives(p, "remove")
    /\ LET q == proc[p]
           place == Order[q.i + 1]
       IN IF q.i < 3
          THEN \/ /\ disk.leaf[place].kind # "blocked"
                  /\ Works(p, At(q, "remove", q.i + 1), SetLeaf(place, Leaf("none")))
               \/ disk.leaf[place].kind = "blocked" /\ Works(p, At(q, "remove", q.i + 1), disk)
               \/ disk.leaf[place].kind \in Refused /\ Refuses(p)
               \/ Fails(p, "failed", {disk})
          ELSE \/ Works(p, Exits(q, "none"), [disk EXCEPT !.legacy = "none"])
               \/ disk.legacy = "foreign" /\ Refuses(p)
               \/ Fails(p, "failed", {disk})
------------------------------------------------------------------------------
Step(p) ==
    \/ Inspect(p) \/ Validate(p) \/ Change(p) \/ CheckAbsent(p) \/ Clean(p)
    \/ CopyHost(p) \/ WriteManifest(p) \/ RemoveFile(p)

\* The process is over: killed, or its answer was taken or has no reader.
Gone(p) ==
    /\ proc' = [proc EXCEPT ![p] = Idle]
    /\ UNCHANGED <<disk, starts, troubles, byHand>>

\* It dies by itself between two steps.
Crash(p) == Running(p) /\ Fails(p, "killed", {disk})

\* The user, a browser or another program changes something: puts something in
\* a manifest's place, moves or breaks a copy of Helper, or takes the copied
\* host away.
Edit ==
    /\ troubles < MaxTroubles
    /\ troubles' = troubles + 1
    /\ \/ \E t \in TouchedLeaves : disk' = SetLeaf(t[1], Leaf(t[2]))
       \/ \E c \in Moved, s \in {"ready", "invalid", "absent"} :
             disk' = [disk EXCEPT !.bundle[c] = s]
       \/ \E s \in {"none", "foreign"} : disk' = [disk EXCEPT !.legacy = s]
    /\ disk' # disk
    /\ proc' = [x \in Processes |-> Disturbed(proc[x])]
    /\ UNCHANGED <<starts, byHand>>
=============================================================================
