--------------------------- MODULE InstallerProofs ---------------------------
(***************************************************************************)
(* What the runs of InstallerHelper check on three installer starts, for   *)
(* any copies of Helper, any number of processes, starts, failures, kills  *)
(* and edits, and any disk an earlier installation may have left.          *)
(*                                                                         *)
(* A process is followed stage by stage.  As long as nothing disturbed it, *)
(* the disk is the one it began with but for what it has changed itself;   *)
(* as long as at most one process writes and nothing was edited, what it   *)
(* has changed names no copied host that is to go.                         *)
(***************************************************************************)
EXTENDS InstallerHelper, TLAPS

States == {"notInstalled", "ready", "repairRequired"}
RegistrationStates == {"registered", "stale", "missing", "invalid"}
Snapshots == [state : States, host : {"ready", "invalid"}, path : Copies, legacy : BOOLEAN,
              registrations : [1..3 -> [state : RegistrationStates, host : Hosts \cup {NoHost}]]]
Stages == {"inspect", "validate", "change", "absent", "clean", "verify", "report",
           "copy", "write", "remove", "exited"}
ProcessErrors == {"none", "killed", "failed"} \cup LifecycleErrors
Runs == [kind : Kinds, copy : Copies, pc : Stages, i : 0..3, error : ProcessErrors,
         snapshot : {NoSnapshot} \cup Snapshots, began : Seq(Disks)]

StagesOf(kind) ==
    {"exited"} \cup
    (CASE kind = "status" -> {"inspect"}
       [] kind = "install" -> {"validate", "change", "clean", "verify", "report"}
       [] kind = "uninstall" -> {"validate", "change", "absent", "clean", "report"}
       [] kind = "development" -> {"copy", "write"}
       [] kind = "remove" -> {"remove"})

\* A process is in a stage of its kind; it has a snapshot only as its answer,
\* and then one that the contract accepts.
WellFormed(q) ==
    /\ q \in Runs /\ Len(q.began) <= 1
    /\ q.pc \in StagesOf(q.kind)
    /\ q.pc \in {"change", "write"} => q.i \in 1..3
    /\ q.pc # "exited" => q.error = "none" /\ q.snapshot = NoSnapshot
    /\ q.kind \in Managed =>
          /\ q.error # "failed"
          /\ q.pc = "exited" => (q.error = "none" <=> q.snapshot # NoSnapshot)
    /\ q.snapshot # NoSnapshot => ValidSnapshot(q.snapshot) /\ q.snapshot.path = q.copy

\* What q puts in the place of the manifest of b.
Target(q, b) == IF q.kind = "install" THEN Expected(b, q.copy) ELSE Leaf("none")
Possible(q, d) == IF q.kind = "install" THEN Installable(d, q.copy) ELSE Removable(d)
Done(q, d) == IF q.kind = "install" THEN Registered(d, q.copy) ELSE Unregistered(d)

\* The disk d is the one q began with, the first n manifests changed.
Changed(q, d, n) ==
    /\ Possible(q, q.began[1])
    /\ d.legacy = q.began[1].legacy /\ d.bundle = q.began[1].bundle
    /\ \A j \in 1..3 : d.leaf[Order[j]] = IF j <= n THEN Target(q, Order[j])
                                                   ELSE q.began[1].leaf[Order[j]]

\* Nothing but q itself has changed the disk d since q began.
Undisturbed(q, d) ==
    q.began # <<>> =>
        /\ q.kind \in {"install", "uninstall"}
        /\ q.pc = "validate" => d = q.began[1]
        /\ q.pc = "change" => Changed(q, d, q.i - 1)
        /\ q.pc \in {"absent", "clean"} => Changed(q, d, 3)
        /\ q.pc \in {"verify", "report"} => Possible(q, q.began[1]) /\ d = Done(q, q.began[1])
        /\ q.pc = "exited" => /\ q.error = "none" <=> Possible(q, q.began[1])
                              /\ d = IF Possible(q, q.began[1]) THEN Done(q, q.began[1])
                                                                ELSE q.began[1]

\* When q is the only process that writes: the manifests it has already gone
\* through name no copied host, or the copied host is there.
Without(d, n) == \A j \in 1..3 : j <= n => d.leaf[Order[j]].host # Legacy
Alone(q, d) ==
    /\ q.pc = "change" => Without(d, q.i - 1)
    /\ q.pc \in {"absent", "clean"} => Without(d, 3)
    /\ q.pc = "remove" => Without(d, q.i)
    /\ q.pc = "write" => d.legacy = "file"

ProcessesInv ==
    /\ proc \in [Processes -> {Idle} \cup Runs]
    /\ \A p \in Processes : proc[p] = Idle \/ (WellFormed(proc[p]) /\ Undisturbed(proc[p], disk))

CalmInv ==
    calm => /\ HostsAreThere(disk)
            /\ \A p, q \in Processes : Writing(proc[p]) /\ Writing(proc[q]) => p = q
            /\ \A p \in Processes : Writing(proc[p]) => Alone(proc[p], disk)

Apps == [copy : Copies \cup {NoHost},
         shown : {"loading", "failed"} \cup States,
         snapshot : {NoSnapshot} \cup Snapshots,
         busy : BOOLEAN, action : {"none"} \cup Managed, proc : {0} \cup Processes,
         confirming : BOOLEAN, error : {"none"} \cup ClientErrors \cup LifecycleErrors,
         fresh : BOOLEAN]

\* The process the window waits for is the one it has launched, and the answer
\* it has not read yet describes the disk as long as no other has changed it.
WindowInv ==
    /\ app \in Apps
    /\ app.busy => IsOpen /\ app.action \in Managed
    /\ app.confirming => IsOpen /\ ~app.busy
    /\ app.proc # 0 => /\ app.busy /\ proc[app.proc] # Idle
                       /\ proc[app.proc].kind = app.action /\ proc[app.proc].copy = app.copy
    /\ (app.proc # 0 /\ app.fresh /\ proc[app.proc].snapshot # NoSnapshot)
          => proc[app.proc].snapshot.state = StateOf(disk, app.copy)
    /\ ShownIsTrue
    /\ ContractAgrees

IInv ==
    /\ disk \in Disks
    /\ calm \in BOOLEAN
    /\ ProcessesInv
    /\ CalmInv
    /\ WindowInv
------------------------------------------------------------------------------
(* Disks and manifests *)

\* A disk is what its three parts are.
LEMMA SameDisk ==
    ASSUME NEW d \in Disks, NEW e \in Disks,
           d.leaf = e.leaf, d.legacy = e.legacy, d.bundle = e.bundle
    PROVE  d = e
BY DEF Disks

\* What is read from a disk.
LEMMA DiskParts ==
    ASSUME NEW d \in Disks
    PROVE  /\ d.leaf \in [Browsers -> Leaves]
           /\ d.legacy \in {"none", "file", "foreign"}
           /\ d.bundle \in [Copies -> {"ready", "invalid", "absent"}]
BY DEF Disks

\* One manifest is put into its place.
LEMMA LeafIsSet ==
    ASSUME NEW d \in Disks, NEW b \in Browsers, NEW leaf \in Leaves
    PROVE  LET e == [d EXCEPT !.leaf[b] = leaf] IN
           /\ e \in Disks
           /\ e.leaf = [d.leaf EXCEPT ![b] = leaf]
           /\ e.legacy = d.legacy /\ e.bundle = d.bundle
<1>1. [d.leaf EXCEPT ![b] = leaf] \in [Browsers -> Leaves]
  BY DiskParts
<1>2. QED
  BY <1>1 DEF Disks

\* The copied host comes or goes.
LEMMA LegacyIsSet ==
    ASSUME NEW d \in Disks, NEW s \in {"none", "file", "foreign"}
    PROVE  LET e == [d EXCEPT !.legacy = s] IN
           /\ e \in Disks
           /\ e.leaf = d.leaf /\ e.legacy = s /\ e.bundle = d.bundle
BY DEF Disks

\* What the installers write are manifests.
LEMMA WrittenLeaves ==
    ASSUME NEW c \in Copies, NEW b \in Browsers
    PROVE  /\ Expected(b, c) \in Leaves /\ Expected(b, c).kind = "manifest" /\ Expected(b, c).host = c
           /\ Copied(b, c) \in Leaves
           /\ Leaf("none") \in Leaves /\ Leaf("none").kind = "none" /\ Leaf("none").host = NoHost
<1> DEFINE ids == BuiltIn \cup DevelopmentIDs \cup {FirefoxExtensionID}
<1>1. ProductionIDs[c] \subseteq BuiltIn
  BY DEF BuiltIn
<1>2. /\ {FirefoxExtensionID} \in SUBSET ids /\ ProductionIDs[c] \in SUBSET ids
      /\ ProductionIDs[c] \cup DevelopmentIDs \in SUBSET ids
  BY <1>1
<1>3. \A h \in Hosts, o \in SUBSET ids : [kind |-> "manifest", host |-> h, origins |-> o] \in Manifests
  BY DEF Manifests
<1> HIDE DEF ids
<1>4. c \in Hosts /\ Legacy \in Hosts
  BY DEF Hosts
<1>5. \A h \in Hosts, o \in SUBSET ids : [kind |-> "manifest", host |-> h, origins |-> o] \in Leaves
  BY <1>3 DEF Leaves
<1>6. Expected(b, c) \in Leaves
  BY <1>2, <1>4, <1>5 DEF Expected, Manifest
<1>7. Copied(b, c) \in Leaves
  BY <1>2, <1>4, <1>5 DEF Copied, Manifest
<1>8. Leaf("none") \in Leaves
  BY DEF Leaves
<1>9. /\ Expected(b, c).kind = "manifest" /\ Expected(b, c).host = c
      /\ Leaf("none").kind = "none" /\ Leaf("none").host = NoHost
  BY DEF Expected, Manifest, Leaf
<1>10. QED
  BY <1>6, <1>7, <1>8, <1>9

\* What can be in a manifest's place.
LEMMA KindsOfLeaves ==
    ASSUME NEW leaf \in Leaves
    PROVE  \/ leaf.kind \in {"none", "damaged", "foreign", "blocked"} /\ leaf.host = NoHost
           \/ leaf.kind = "manifest" /\ leaf.host \in Hosts
BY DEF Leaves, Manifests, Leaf, Refused

\* What is said of one browser is of the contract.
LEMMA InspectedIsValid ==
    ASSUME NEW leaf \in Leaves, NEW b \in Browsers, NEW c \in Copies
    PROVE  LET r == Inspected(b, leaf, c) IN
           /\ r \in [state : RegistrationStates, host : Hosts \cup {NoHost}]
           /\ ValidRegistration(r)
           /\ r.state = "registered" => r = Registration("registered", c)
<1>1. NoHost \notin Hosts /\ c \in Hosts
  BY ManifestAssumption DEF Hosts
<1>2. \/ leaf.kind # "manifest" /\ leaf.host = NoHost
      \/ leaf.kind = "manifest" /\ leaf.host \in Hosts
  BY KindsOfLeaves
<1>3. leaf = Expected(b, c) => leaf.host = c
  BY WrittenLeaves
<1>4. QED
  BY <1>1, <1>2, <1>3 DEF Inspected, Registration, ValidRegistration, RegistrationStates

\* InspectManaged answers what the contract accepts.
LEMMA InspectionIsValid ==
    ASSUME NEW d \in Disks, NEW c \in Copies
    PROVE  LET s == InspectManaged(d, c) IN
           s \in Snapshots /\ ValidSnapshot(s) /\ s.path = c /\ s.state = StateOf(d, c) /\ s # NoSnapshot
<1> DEFINE r == [i \in 1..3 |-> Inspected(Order[i], d.leaf[Order[i]], c)]
           s == InspectManaged(d, c)
<1>1. \A i \in 1..3 : Order[i] \in Browsers /\ d.leaf[Order[i]] \in Leaves
  BY DiskParts DEF Order, Browsers
<1>2. \A i \in 1..3 : /\ r[i] \in [state : RegistrationStates, host : Hosts \cup {NoHost}]
                      /\ ValidRegistration(r[i])
                      /\ r[i].state = "registered" => r[i] = Registration("registered", c)
  BY <1>1, InspectedIsValid
<1>3. r \in [1..3 -> [state : RegistrationStates, host : Hosts \cup {NoHost}]] /\ DOMAIN r = 1..3
  BY <1>2
<1> HIDE DEF r
<1>4. /\ s.registrations = r /\ s.host = HostState(d.bundle[c]) /\ s.path = c
      /\ s.legacy = LegacyPresent(d.legacy)
      /\ s.state = Derived(s.host, s.legacy, r)
  BY DEF InspectManaged, r
<1>5. s.host \in {"ready", "invalid"} /\ s.legacy \in BOOLEAN /\ s.state \in States
  BY <1>4 DEF HostState, LegacyPresent, Derived, States
<1>6. s \in Snapshots
  BY <1>3, <1>4, <1>5 DEF InspectManaged, Snapshots, r
<1>7. All(r, "registered") <=> \A i \in 1..3 : r[i] = Registration("registered", c)
  BY <1>2, <1>3 DEF All, Registration
<1>8. s.state = DerivedHere(s)
  BY <1>4, <1>5, <1>7 DEF DerivedHere, Derived
<1>9. ValidSnapshot(s)
  BY <1>2, <1>4, <1>8 DEF ValidSnapshot
<1>10. s # NoSnapshot
  BY <1>5 DEF NoSnapshot, States
<1>11. QED
  BY <1>4, <1>6, <1>9, <1>10 DEF StateOf
------------------------------------------------------------------------------
(* One process *)

Good(q, d) == WellFormed(q) /\ Undisturbed(q, d)

\* A process that runs is no free slot, and has no answer yet.
LEMMA IsRun ==
    ASSUME ProcessesInv, NEW p \in Processes, proc[p].pc # "none"
    PROVE  proc[p] \in Runs /\ Good(proc[p], disk)
BY DEF ProcessesInv, Good, WellFormed, Idle

\* Another process changes the disk: nothing is claimed of this one any more.
LEMMA DisturbedIsGood ==
    ASSUME NEW q \in Runs, WellFormed(q), NEW e
    PROVE  /\ Good(Disturbed(q), e)
           /\ Disturbed(q).kind = q.kind /\ Disturbed(q).copy = q.copy /\ Disturbed(q).pc = q.pc
           /\ Disturbed(q).i = q.i /\ Disturbed(q).snapshot = q.snapshot
           /\ Disturbed(q) # Idle
<1> DEFINE r == Disturbed(q)
<1>1. q.pc # "none"
  BY DEF Runs, Stages
<1>a. <<>> \in Seq(Disks)
  OBVIOUS
<1>2. /\ r \in Runs /\ r.began = <<>>
      /\ r.kind = q.kind /\ r.copy = q.copy /\ r.pc = q.pc /\ r.i = q.i /\ r.error = q.error
      /\ r.snapshot = q.snapshot
  BY <1>1, <1>a DEF Disturbed, Runs
<1> HIDE DEF r
<1>3. WellFormed(r)
  BY <1>2 DEF WellFormed
<1>4. Undisturbed(r, e)
  BY <1>2 DEF Undisturbed
<1>5. r # Idle
  BY <1>1, <1>2 DEF Idle
<1>6. QED
  BY <1>2, <1>3, <1>4, <1>5 DEF Good, r

\* A process goes to its next stage.
LEMMA AtNext ==
    ASSUME NEW q \in Runs, WellFormed(q), q.pc # "exited",
           NEW pc \in StagesOf(q.kind), pc # "exited",
           NEW i \in 0..3, pc \in {"change", "write"} => i \in 1..3
    PROVE  LET r == At(q, pc, i) IN
           /\ r \in Runs /\ WellFormed(r)
           /\ r.pc = pc /\ r.i = i /\ r.kind = q.kind /\ r.copy = q.copy /\ r.began = q.began
           /\ r.snapshot = NoSnapshot
<1> DEFINE r == At(q, pc, i)
<1>1. pc \in Stages
  BY DEF StagesOf, Stages, Runs, Kinds, Managed, ByHand
<1>2. /\ r \in Runs
      /\ r.kind = q.kind /\ r.copy = q.copy /\ r.pc = pc /\ r.i = i /\ r.error = q.error
      /\ r.snapshot = q.snapshot /\ r.began = q.began
  BY <1>1 DEF At, Runs
<1> HIDE DEF r
<1>3. WellFormed(r)
  BY <1>2 DEF WellFormed
<1>4. QED
  BY <1>2, <1>3 DEF WellFormed, r

\* A process ends without an answer.
LEMMA ExitsIsWell ==
    ASSUME NEW q \in Runs, WellFormed(q), q.pc # "exited", NEW error \in ProcessErrors,
           q.kind \in Managed => error \notin {"none", "failed"}
    PROVE  LET r == Exits(q, error) IN
           /\ r \in Runs /\ WellFormed(r)
           /\ r.pc = "exited" /\ r.kind = q.kind /\ r.copy = q.copy /\ r.began = q.began
           /\ r.error = error /\ r.snapshot = NoSnapshot
<1> DEFINE r == Exits(q, error)
<1>1. /\ r \in Runs
      /\ r.kind = q.kind /\ r.copy = q.copy /\ r.pc = "exited" /\ r.i = q.i /\ r.error = error
      /\ r.snapshot = q.snapshot /\ r.began = q.began
  BY DEF Exits, Runs, Stages
<1> HIDE DEF r
<1>2. WellFormed(r)
  BY <1>1 DEF WellFormed, StagesOf
<1>3. QED
  BY <1>1, <1>2 DEF WellFormed, r

\* A process of Helper ends with an answer.
LEMMA AnswersIsWell ==
    ASSUME NEW q \in Runs, WellFormed(q), q.pc # "exited", NEW d \in Disks
    PROVE  LET r == Answers(q, InspectManaged(d, q.copy)) IN
           /\ r \in Runs /\ WellFormed(r)
           /\ r.pc = "exited" /\ r.kind = q.kind /\ r.copy = q.copy /\ r.began = q.began
           /\ r.error = "none" /\ r.snapshot.state = StateOf(d, q.copy)
<1> DEFINE s == InspectManaged(d, q.copy)
           r == Answers(q, s)
<1>1. q.copy \in Copies
  BY DEF Runs
<1>2. s \in Snapshots /\ ValidSnapshot(s) /\ s.path = q.copy /\ s # NoSnapshot
      /\ s.state = StateOf(d, q.copy)
  BY <1>1, InspectionIsValid
<1> HIDE DEF s
<1>3. /\ r \in Runs
      /\ r.kind = q.kind /\ r.copy = q.copy /\ r.pc = "exited" /\ r.i = q.i /\ r.error = q.error
      /\ r.snapshot = s /\ r.began = q.began
  BY <1>2 DEF Answers, Runs, Stages
<1> HIDE DEF r
<1>4. WellFormed(r)
  BY <1>2, <1>3 DEF WellFormed, StagesOf
<1>5. QED
  BY <1>2, <1>3, <1>4 DEF WellFormed, r, s

LEMMA ErrorsOfKinds ==
    ASSUME NEW q
    PROVE  /\ ErrorOf(q.kind) \in ProcessErrors \ {"none", "failed", "killed"}
           /\ InspectionError(q) \in ProcessErrors \ {"none", "failed", "killed"}
BY DEF ErrorOf, InspectionError, ProcessErrors, LifecycleErrors
------------------------------------------------------------------------------
(* What a step of a process makes of it and of the disk *)

\* p goes on as q and the disk becomes d: q is as it has to be, the disk is
\* changed only by one that writes, and no manifest names a host that is gone.
Fine(p, q, d) ==
    /\ d \in Disks /\ Good(q, d)
    /\ q.kind = proc[p].kind /\ q.copy = proc[p].copy
    /\ q.snapshot # NoSnapshot => q.snapshot.state = StateOf(d, q.copy)
    /\ d # disk => Writing(proc[p])
    /\ Writing(q) => Writing(proc[p])
    /\ calm => HostsAreThere(d) /\ (Writing(q) => Alone(q, d))

GoesOn(p) == \E q \in Runs, d \in Disks : Goes(p, q, d) /\ Fine(p, q, d)

\* What the invariant says of a process that runs.
LEMMA Now ==
    ASSUME IInv, NEW p \in Processes, Running(p)
    PROVE  /\ disk \in Disks /\ proc[p] \in Runs /\ WellFormed(proc[p]) /\ Undisturbed(proc[p], disk)
           /\ proc[p].pc \notin {"none", "exited"}
           /\ proc[p].kind \in Kinds /\ proc[p].copy \in Copies
           /\ proc[p].error = "none" /\ proc[p].snapshot = NoSnapshot
           /\ calm => HostsAreThere(disk) /\ (Writing(proc[p]) => Alone(proc[p], disk))
<1>1. proc[p] \in Runs /\ Good(proc[p], disk) /\ proc[p].pc \notin {"none", "exited"}
  BY IsRun DEF IInv, Running
<1>2. WellFormed(proc[p]) /\ Undisturbed(proc[p], disk)
  BY <1>1 DEF Good
<1>3. proc[p].kind \in Kinds /\ proc[p].copy \in Copies
  BY <1>1 DEF Runs
<1>4. proc[p].error = "none" /\ proc[p].snapshot = NoSnapshot
  BY <1>1, <1>2 DEF WellFormed
<1>5. /\ disk \in Disks
      /\ calm => HostsAreThere(disk) /\ (Writing(proc[p]) => Alone(proc[p], disk))
  BY DEF IInv, CalmInv
<1>6. QED
  BY <1>1, <1>2, <1>3, <1>4, <1>5

\* A failure: the process is over, and of its run nothing is claimed.
LEMMA FailsIsFine ==
    ASSUME IInv, NEW p \in Processes, Running(p),
           NEW error \in ProcessErrors \ {"none"}, proc[p].kind \in Managed => error # "failed",
           NEW outcomes \in SUBSET Disks, Fails(p, error, outcomes),
           \A d \in outcomes : (d # disk => Writing(proc[p])) /\ (calm => HostsAreThere(d))
    PROVE  GoesOn(p)
<1> DEFINE r == Exits(proc[p], error)
           q == Disturbed(r)
<1>1. PICK d \in outcomes : Goes(p, q, d)
  BY DEF Fails
<1>2. r \in Runs /\ WellFormed(r) /\ r.pc = "exited" /\ r.kind = proc[p].kind
      /\ r.copy = proc[p].copy /\ r.snapshot = NoSnapshot
  BY Now, ExitsIsWell
<1> HIDE DEF r
<1>3. /\ Good(q, d) /\ q.pc = "exited" /\ q.kind = proc[p].kind /\ q.copy = proc[p].copy
      /\ q.snapshot = NoSnapshot
  BY <1>2, DisturbedIsGood
<1> HIDE DEF q
<1>4. q \in Runs /\ ~Writing(q)
  BY <1>3 DEF Good, WellFormed, Writing
<1>5. d \in Disks /\ (d # disk => Writing(proc[p])) /\ (calm => HostsAreThere(d))
  BY <1>1
<1>6. Fine(p, q, d)
  BY <1>3, <1>4, <1>5 DEF Fine
<1>7. QED
  BY <1>1, <1>4, <1>5, <1>6 DEF GoesOn

LEMMA CrashIsFine ==
    ASSUME IInv, NEW p \in Processes, Crash(p)
    PROVE  GoesOn(p)
<1>1. Running(p) /\ Fails(p, "killed", {disk})
  BY DEF Crash
<1>2. disk \in Disks /\ (calm => HostsAreThere(disk))
  BY <1>1, Now
<1>3. "killed" \in ProcessErrors \ {"none"} /\ {disk} \in SUBSET Disks
  BY <1>2 DEF ProcessErrors
<1>4. \A d \in {disk} : (d # disk => Writing(proc[p])) /\ (calm => HostsAreThere(d))
  BY <1>2
<1>5. QED
  BY <1>1, <1>3, <1>4, FailsIsFine

\* A process that nothing has disturbed refuses only at its start; a later one
\* that refuses had been disturbed.
LEMMA RefusesIsFine ==
    ASSUME IInv, NEW p \in Processes, Running(p), Refuses(p),
           proc[p].began # <<>> => disk = proc[p].began[1] /\ ~Possible(proc[p], disk)
    PROVE  GoesOn(p)
<1> DEFINE q == Exits(proc[p], ErrorOf(proc[p].kind))
<1>1. Goes(p, q, disk)
  BY DEF Refuses, Works
<1>2. ErrorOf(proc[p].kind) \in ProcessErrors \ {"none", "failed", "killed"}
  BY ErrorsOfKinds
<1>3. /\ q \in Runs /\ WellFormed(q) /\ q.pc = "exited" /\ q.kind = proc[p].kind
      /\ q.copy = proc[p].copy /\ q.began = proc[p].began
      /\ q.error = ErrorOf(proc[p].kind) /\ q.snapshot = NoSnapshot
  BY <1>2, Now, ExitsIsWell
<1> HIDE DEF q
<1>4. Possible(q, disk) <=> Possible(proc[p], disk)
  BY <1>3 DEF Possible
<1>5. q.began # <<>> => q.kind \in {"install", "uninstall"}
  BY <1>3, Now DEF Undisturbed
<1>6. Undisturbed(q, disk)
  BY <1>2, <1>3, <1>4, <1>5 DEF Undisturbed
<1>7. Fine(p, q, disk)
  BY <1>3, <1>6, Now DEF Fine, Good, Writing
<1>8. QED
  BY <1>1, <1>3, <1>7, Now DEF GoesOn
------------------------------------------------------------------------------
(* The stages of a managed process *)

\* The places in the order of the installer.
LEMMA Places ==
    /\ Order[1] = "firefox" /\ Order[2] = "chrome" /\ Order[3] = "edge"
    /\ \A j \in 1..3 : Order[j] \in Browsers
    /\ \A b \in Browsers : \E j \in 1..3 : b = Order[j]
    /\ \A j, k \in 1..3 : Order[j] = Order[k] => j = k
<1>1. Order[1] = "firefox" /\ Order[2] = "chrome" /\ Order[3] = "edge"
  BY DEF Order
<1>2. \A j \in 1..3 : j = 1 \/ j = 2 \/ j = 3
  OBVIOUS
<1>3. QED
  BY <1>1, <1>2 DEF Browsers

LEMMA TargetIsLeaf ==
    ASSUME NEW q \in Runs, NEW b \in Browsers
    PROVE  /\ Target(q, b) \in Leaves
           /\ Target(q, b).kind \notin Refused /\ Target(q, b).host # Legacy
<1>1. q.copy \in Copies
  BY DEF Runs
<1>2. Legacy \notin Copies /\ NoHost # Legacy
  BY ManifestAssumption DEF Hosts
<1>3. QED
  BY <1>1, <1>2, WrittenLeaves DEF Target, Refused

\* The disk an operation is to leave.
LEMMA DoneParts ==
    ASSUME NEW q \in Runs, NEW d \in Disks
    PROVE  /\ Done(q, d) \in Disks
           /\ Done(q, d).leaf = [b \in Browsers |-> Target(q, b)]
           /\ Done(q, d).legacy = "none" /\ Done(q, d).bundle = d.bundle
<1> DEFINE leaves == [b \in Browsers |-> Target(q, b)]
<1>1. leaves \in [Browsers -> Leaves]
  BY TargetIsLeaf
<1>2. Done(q, d) = [d EXCEPT !.leaf = leaves, !.legacy = "none"]
  BY DEF Done, Registered, Unregistered, Target
<1> HIDE DEF leaves
<1>3. QED
  BY <1>1, <1>2 DEF Disks, leaves

\* It is what its inspection wants.
LEMMA DoneIsWanted ==
    ASSUME NEW q \in Runs, q.kind \in {"install", "uninstall"}, NEW d \in Disks, Possible(q, d)
    PROVE  ~Blocked(Done(q, d).leaf) /\ InspectManaged(Done(q, d), q.copy).state = Wanted(q.kind)
<1> DEFINE e == Done(q, d)
           c == q.copy
           r == [i \in 1..3 |-> Inspected(Order[i], e.leaf[Order[i]], c)]
<1>1. /\ e \in Disks /\ e.legacy = "none" /\ e.bundle = d.bundle
      /\ \A b \in Browsers : e.leaf[b] = Target(q, b)
  BY DoneParts
<1>2. ~Blocked(e.leaf)
  BY <1>1, TargetIsLeaf DEF Blocked, Refused
<1> HIDE DEF e
<1>3. CASE q.kind = "install"
  <2>1. \A i \in 1..3 : Inspected(Order[i], e.leaf[Order[i]], c).state = "registered"
    <3> SUFFICES ASSUME NEW i \in 1..3
                 PROVE  Inspected(Order[i], e.leaf[Order[i]], c).state = "registered"
      OBVIOUS
    <3>1. Order[i] \in Browsers /\ c \in Copies
      BY Places DEF Runs
    <3>2. e.leaf[Order[i]] = Expected(Order[i], c)
      BY <1>1, <1>3, <3>1 DEF Target
    <3>3. Expected(Order[i], c).kind = "manifest"
      BY <3>1, WrittenLeaves
    <3>4. QED
      BY <3>2, <3>3 DEF Inspected, Registration
  <2>a. DOMAIN r = 1..3 /\ \A i \in 1..3 : r[i].state = "registered"
    BY <2>1
  <2> HIDE DEF r
  <2>2. All(r, "registered") /\ ~All(r, "missing")
    <3>1. 1 \in DOMAIN r
      BY <2>a
    <3>2. QED
      BY <2>a, <3>1 DEF All
  <2>3. HostState(e.bundle[c]) = "ready"
    BY <1>1, <1>3 DEF Possible, Installable
  <2>4. LegacyPresent(e.legacy) = FALSE
    BY <1>1 DEF LegacyPresent
  <2>5. Derived("ready", FALSE, r) = "ready"
    BY <2>2 DEF Derived
  <2>6. InspectManaged(e, c).state = Derived(HostState(e.bundle[c]), LegacyPresent(e.legacy), r)
    BY DEF InspectManaged, r
  <2>7. QED
    BY <1>2, <1>3, <2>3, <2>4, <2>5, <2>6 DEF Wanted, e
<1>4. CASE q.kind = "uninstall"
  <2>1. \A i \in 1..3 : Inspected(Order[i], e.leaf[Order[i]], c).state = "missing"
    BY <1>1, <1>4, Places, WrittenLeaves DEF Inspected, Registration, Target, Runs
  <2>2. All(r, "missing")
    BY <2>1 DEF All
  <2>3. LegacyPresent(e.legacy) = FALSE
    BY <1>1 DEF LegacyPresent
  <2> HIDE DEF r
  <2>4. Derived(HostState(e.bundle[c]), FALSE, r) = "notInstalled"
    BY <2>2 DEF Derived
  <2>5. InspectManaged(e, c).state = Derived(HostState(e.bundle[c]), LegacyPresent(e.legacy), r)
    BY DEF InspectManaged, r
  <2>6. QED
    BY <1>2, <1>4, <2>3, <2>4, <2>5 DEF Wanted, e
<1>5. QED
  BY <1>3, <1>4

\* What was begun is a disk, and an operation that goes on undisturbed is one
\* of Helper's.
LEMMA BeganIsDisk ==
    ASSUME NEW q \in Runs, q.began # <<>>
    PROVE  q.began[1] \in Disks
BY DEF Runs

LEMMA InspectIsFine ==
    ASSUME IInv, NEW p \in Processes, Inspect(p)
    PROVE  GoesOn(p)
<1> DEFINE r == proc[p]
           s == InspectManaged(disk, r.copy)
           error == InspectionError(r)
<1>1. Running(p) /\ r.pc \in Inspections
  BY DEF Inspect, Inspections, Running
<1>2. error \in ProcessErrors \ {"none", "failed", "killed"}
  BY ErrorsOfKinds
<1>3. /\ r \in Runs /\ WellFormed(r) /\ Undisturbed(r, disk) /\ disk \in Disks /\ r.copy \in Copies
      /\ calm => HostsAreThere(disk)
  BY <1>1, Now
<1>4. r.began # <<>> => /\ r.kind \in {"install", "uninstall"} /\ r.pc \in {"verify", "report"}
                        /\ r.began[1] \in Disks /\ Possible(r, r.began[1]) /\ disk = Done(r, r.began[1])
  BY <1>1, <1>3, BeganIsDisk DEF Inspections, Undisturbed, WellFormed, StagesOf
<1>5. r.began # <<>> => ~Blocked(disk.leaf) /\ s.state = Wanted(r.kind)
  BY <1>3, <1>4, DoneIsWanted
<1>6. ASSUME NEW q, Goes(p, q, disk), q \in Runs, WellFormed(q), Undisturbed(q, disk),
             q.kind = r.kind, q.copy = r.copy,
             q.snapshot # NoSnapshot => q.snapshot.state = StateOf(disk, q.copy),
             q.pc \in {"exited", "report"}, q.pc = "report" => r.pc = "verify"
      PROVE  GoesOn(p)
  <2>1. Writing(q) => Writing(r)
    BY <1>6, <1>1 DEF Writing, Running
  <2>2. Alone(q, disk)
    BY <1>6 DEF Alone
  <2>3. Fine(p, q, disk)
    BY <1>3, <1>6, <2>1, <2>2 DEF Fine, Good
  <2>4. QED
    BY <1>3, <1>6, <2>3 DEF GoesOn
<1>7. ASSUME Goes(p, Exits(r, error), disk), r.began = <<>>
      PROVE  GoesOn(p)
  <2> DEFINE q == Exits(r, error)
  <2>1. /\ q \in Runs /\ WellFormed(q) /\ q.pc = "exited" /\ q.kind = r.kind /\ q.copy = r.copy
        /\ q.began = <<>> /\ q.snapshot = NoSnapshot
    BY <1>1, <1>2, <1>3, <1>7, ExitsIsWell DEF Inspections
  <2>2. Goes(p, q, disk)
    BY <1>7
  <2> HIDE DEF q
  <2>3. Undisturbed(q, disk)
    BY <2>1 DEF Undisturbed
  <2>4. QED
    BY <1>6, <2>1, <2>2, <2>3
<1>8. ASSUME Goes(p, Answers(r, s), disk)
      PROVE  GoesOn(p)
  <2> DEFINE q == Answers(r, s)
  <2>1. /\ q \in Runs /\ WellFormed(q) /\ q.pc = "exited" /\ q.kind = r.kind /\ q.copy = r.copy
        /\ q.began = r.began /\ q.error = "none" /\ q.snapshot.state = StateOf(disk, q.copy)
    BY <1>1, <1>3, AnswersIsWell DEF Inspections
  <2>2. Goes(p, q, disk)
    BY <1>8
  <2> HIDE DEF q
  <2>3. ASSUME q.began # <<>>
        PROVE  /\ Possible(q, q.began[1]) /\ disk = Done(q, q.began[1])
               /\ q.kind \in {"install", "uninstall"}
    BY <1>4, <2>1, <2>3 DEF Possible, Done
  <2>4. Undisturbed(q, disk)
    BY <2>1, <2>3 DEF Undisturbed
  <2>5. QED
    BY <1>6, <2>1, <2>2, <2>4
<1>9. ASSUME Goes(p, At(r, "report", 0), disk), r.pc = "verify"
      PROVE  GoesOn(p)
  <2> DEFINE q == At(r, "report", 0)
  <2>1. r.kind = "install" /\ "report" \in StagesOf(r.kind)
    BY <1>3, <1>9 DEF WellFormed, StagesOf, Runs, Kinds, Managed, ByHand
  <2>2. /\ q \in Runs /\ WellFormed(q) /\ q.pc = "report" /\ q.kind = r.kind /\ q.copy = r.copy
        /\ q.began = r.began /\ q.snapshot = NoSnapshot
    BY <1>3, <1>9, <2>1, AtNext
  <2>3. Goes(p, q, disk)
    BY <1>9
  <2> HIDE DEF q
  <2>4. ASSUME q.began # <<>>
        PROVE  /\ Possible(q, q.began[1]) /\ disk = Done(q, q.began[1])
               /\ q.kind \in {"install", "uninstall"}
    BY <1>4, <2>2, <2>4 DEF Possible, Done
  <2>5. Undisturbed(q, disk)
    BY <2>2, <2>4 DEF Undisturbed
  <2>6. QED
    BY <1>6, <1>9, <2>2, <2>3, <2>5
<1>10. CASE Blocked(disk.leaf)
  <2>1. Goes(p, Exits(r, error), disk)
    BY <1>10 DEF Inspect, Works
  <2>2. QED
    BY <1>5, <1>7, <1>10, <2>1
<1>11. CASE ~Blocked(disk.leaf)
  <2>1. Goes(p, Concluded(r, s), disk)
    BY <1>11 DEF Inspect, Works
  <2>2. CASE r.pc = "inspect"
    BY <1>8, <2>1, <2>2 DEF Concluded
  <2>3. CASE r.pc # "inspect" /\ s.state # Wanted(r.kind)
    BY <1>5, <1>7, <2>1, <2>3 DEF Concluded
  <2>4. CASE r.pc = "verify" /\ s.state = Wanted(r.kind)
    BY <1>9, <2>1, <2>4 DEF Concluded
  <2>5. CASE r.pc = "report" /\ s.state = Wanted(r.kind)
    BY <1>8, <2>1, <2>5 DEF Concluded
  <2>6. QED
    BY <1>1, <2>2, <2>3, <2>4, <2>5 DEF Inspections
<1>12. QED
  BY <1>10, <1>11

\* What is to be is checked before anything is changed.
LEMMA ValidateIsFine ==
    ASSUME IInv, NEW p \in Processes, Validate(p)
    PROVE  GoesOn(p)
<1> DEFINE r == proc[p]
<1>1. Running(p) /\ r.pc = "validate"
  BY DEF Validate, Gives, Running
<1>2. /\ r \in Runs /\ WellFormed(r) /\ Undisturbed(r, disk) /\ disk \in Disks
      /\ calm => HostsAreThere(disk)
  BY <1>1, Now
<1>3. r.kind \in {"install", "uninstall"}
  BY <1>1, <1>2 DEF WellFormed, StagesOf, Runs, Kinds, Managed, ByHand
<1>4. Allowed(r) <=> Possible(r, disk)
  BY DEF Allowed, Possible
<1>5. r.began # <<>> => disk = r.began[1]
  BY <1>1, <1>2 DEF Undisturbed
<1>6. CASE ~Allowed(r)
  <2>1. Refuses(p)
    BY <1>6 DEF Validate
  <2>2. QED
    BY <1>1, <1>4, <1>5, <1>6, <2>1, RefusesIsFine
<1>7. CASE Allowed(r)
  <2> DEFINE q == At(r, "change", 1)
  <2>1. Goes(p, q, disk)
    BY <1>7 DEF Validate, Works
  <2>2. "change" \in StagesOf(r.kind)
    BY <1>3 DEF StagesOf
  <2>3. /\ q \in Runs /\ WellFormed(q) /\ q.pc = "change" /\ q.i = 1 /\ q.kind = r.kind
        /\ q.copy = r.copy /\ q.began = r.began /\ q.snapshot = NoSnapshot
    BY <1>1, <1>2, <2>2, AtNext
  <2> HIDE DEF q
  <2>4. q.began # <<>> => Changed(q, disk, q.i - 1)
    <3>1. Possible(q, disk)
      BY <1>4, <1>7, <2>3 DEF Possible
    <3>2. QED
      BY <1>5, <2>3, <3>1 DEF Changed
  <2>5. Undisturbed(q, disk)
    BY <1>3, <2>3, <2>4 DEF Undisturbed
  <2>6. Alone(q, disk)
    BY <2>3 DEF Alone, Without
  <2>7. Writing(r)
    BY <1>1, <1>3 DEF Writing
  <2>8. Fine(p, q, disk)
    BY <1>2, <2>3, <2>5, <2>6, <2>7 DEF Fine, Good
  <2>9. QED
    BY <1>2, <2>1, <2>3, <2>8 DEF GoesOn
<1>8. QED
  BY <1>6, <1>7

\* A disk whose manifests are changed one after the other.
LEMMA OneMore ==
    ASSUME NEW q \in Runs, NEW d \in Disks, NEW n \in 1..3
    PROVE  LET e == [d EXCEPT !.leaf[Order[n]] = Target(q, Order[n])] IN
           /\ e \in Disks
           /\ q.began # <<>> /\ Changed(q, d, n - 1) => Changed(q, e, n)
           /\ Without(d, n - 1) => Without(e, n)
           /\ HostsAreThere(d) => HostsAreThere(e)
<1> DEFINE b == Order[n]
           e == [d EXCEPT !.leaf[b] = Target(q, b)]
<1>1. b \in Browsers /\ Target(q, b) \in Leaves /\ Target(q, b).host # Legacy
  BY Places, TargetIsLeaf
<1>2. /\ e \in Disks /\ e.leaf = [d.leaf EXCEPT ![b] = Target(q, b)]
      /\ e.legacy = d.legacy /\ e.bundle = d.bundle
  BY <1>1, LeafIsSet
<1>3. d.leaf \in [Browsers -> Leaves]
  BY DiskParts
<1>4. \A j \in 1..3 : e.leaf[Order[j]] = IF j = n THEN Target(q, b) ELSE d.leaf[Order[j]]
  BY <1>2, <1>3, Places
<1>5. \A j \in 1..3 : (j <= n <=> j <= n - 1 \/ j = n) /\ ~(n <= n - 1)
  OBVIOUS
<1> HIDE DEF e
<1>6. q.began # <<>> /\ Changed(q, d, n - 1) => Changed(q, e, n)
  BY <1>2, <1>4, <1>5 DEF Changed
<1>7. Without(d, n - 1) => Without(e, n)
  BY <1>1, <1>4, <1>5 DEF Without
<1>8. HostsAreThere(d) => HostsAreThere(e)
  BY <1>1, <1>2, <1>3 DEF HostsAreThere
<1>9. QED
  BY <1>2, <1>6, <1>7, <1>8 DEF e

\* The manifests are all as they are to be.
LEMMA AllOfThem ==
    ASSUME NEW q \in Runs, NEW d \in Disks, q.began # <<>>, Changed(q, d, 3)
    PROVE  d.leaf = [b \in Browsers |-> Target(q, b)]
<1>1. d.leaf \in [Browsers -> Leaves]
  BY DiskParts
<1>2. \A b \in Browsers : d.leaf[b] = Target(q, b)
  BY Places DEF Changed
<1>3. QED
  BY <1>1, <1>2

LEMMA ChangeIsFine ==
    ASSUME IInv, NEW p \in Processes, Change(p)
    PROVE  GoesOn(p)
<1> DEFINE r == proc[p]
           n == r.i
           d == [disk EXCEPT !.leaf[Order[n]] = Target(r, Order[n])]
           q == AfterChanges(r)
<1>1. Running(p) /\ r.pc = "change"
  BY DEF Change, Gives, Running
<1>2. /\ r \in Runs /\ WellFormed(r) /\ Undisturbed(r, disk) /\ disk \in Disks
      /\ calm => HostsAreThere(disk) /\ (Writing(r) => Alone(r, disk))
  BY <1>1, Now
<1>3. r.kind \in {"install", "uninstall"} /\ n \in 1..3
  BY <1>1, <1>2 DEF WellFormed, StagesOf, Runs, Kinds, Managed, ByHand
<1>4. Writing(r)
  BY <1>1, <1>3 DEF Writing
<1>5. /\ d \in Disks
      /\ r.began # <<>> /\ Changed(r, disk, n - 1) => Changed(r, d, n)
      /\ Without(disk, n - 1) => Without(d, n)
      /\ HostsAreThere(disk) => HostsAreThere(d)
  BY <1>2, <1>3, OneMore
<1>6. d = SetLeaf(Place(p), IF r.kind = "install" THEN Expected(Place(p), r.copy) ELSE Leaf("none"))
  BY DEF SetLeaf, Place, Target
<1> HIDE DEF d
<1>7. \/ disk.leaf[Order[n]].kind \in Refused /\ Refuses(p)
      \/ Works(p, q, d)
      \/ Fails(p, ErrorOf(r.kind), {disk, d})
  BY <1>6 DEF Change, Place
<1>8. CASE disk.leaf[Order[n]].kind \in Refused /\ Refuses(p)
  <2>1. r.began = <<>>
    <3> SUFFICES ASSUME r.began # <<>> PROVE FALSE
      OBVIOUS
    <3>1. Changed(r, disk, n - 1)
      BY <1>1, <1>2 DEF Undisturbed
    <3>2. disk.leaf[Order[n]] = r.began[1].leaf[Order[n]] /\ Possible(r, r.began[1])
      BY <1>3, <3>1 DEF Changed
    <3>3. Order[n] \in Browsers
      BY <1>3, Places
    <3>4. QED
      BY <1>8, <3>2, <3>3 DEF Possible, Installable, Removable
  <2>2. QED
    BY <1>1, <1>8, <2>1, RefusesIsFine
<1>9. CASE Fails(p, ErrorOf(r.kind), {disk, d})
  <2>1. ErrorOf(r.kind) \in ProcessErrors \ {"none", "failed", "killed"}
    BY ErrorsOfKinds
  <2>2. {disk, d} \in SUBSET Disks
    BY <1>2, <1>5
  <2>3. \A x \in {disk, d} : (x # disk => Writing(proc[p])) /\ (calm => HostsAreThere(x))
    BY <1>2, <1>4, <1>5
  <2>4. QED
    BY <1>1, <1>9, <2>1, <2>2, <2>3, FailsIsFine
<1>10. CASE Works(p, q, d)
  <2>1. Goes(p, q, d)
    BY <1>10 DEF Works
  <2>2. /\ q \in Runs /\ WellFormed(q) /\ q.kind = r.kind /\ q.copy = r.copy /\ q.began = r.began
        /\ q.snapshot = NoSnapshot
        /\ \/ q.pc = "change" /\ q.i - 1 = n
           \/ q.pc \in {"clean", "absent"} /\ n = 3
    <3>1. CASE n < 3
      <4>1. n + 1 \in 1..3 /\ "change" \in StagesOf(r.kind) /\ (n + 1) - 1 = n
        BY <1>3, <3>1 DEF StagesOf
      <4>2. q = At(r, "change", n + 1)
        BY <3>1 DEF AfterChanges
      <4> HIDE DEF q
      <4>3. QED
        BY <1>1, <1>2, <4>1, <4>2, AtNext
    <3>2. CASE n = 3
      <4> DEFINE pc == IF r.kind = "install" THEN "clean" ELSE "absent"
      <4>1. pc \in StagesOf(r.kind) /\ pc \in {"clean", "absent"}
        BY <1>3 DEF StagesOf
      <4>2. q = At(r, pc, 0)
        BY <3>2 DEF AfterChanges
      <4> HIDE DEF q, pc
      <4>3. QED
        BY <1>1, <1>2, <3>2, <4>1, <4>2, AtNext
    <3>3. QED
      BY <1>3, <3>1, <3>2
  <2> HIDE DEF q
  <2>3. q.began # <<>> => Changed(q, d, n)
    <3>1. r.began # <<>> => Changed(r, d, n)
      BY <1>1, <1>2, <1>5 DEF Undisturbed
    <3>2. QED
      BY <2>2, <3>1 DEF Changed, Possible, Target
  <2>4. Undisturbed(q, d)
    BY <1>3, <2>2, <2>3 DEF Undisturbed
  <2>5. calm => HostsAreThere(d) /\ Alone(q, d)
    BY <1>1, <1>2, <1>4, <1>5, <2>2 DEF Alone
  <2>6. Fine(p, q, d)
    BY <1>4, <1>5, <2>2, <2>4, <2>5 DEF Fine, Good
  <2>7. QED
    BY <1>5, <2>1, <2>2, <2>6 DEF GoesOn
<1>11. QED
  BY <1>7, <1>8, <1>9, <1>10

LEMMA CheckAbsentIsFine ==
    ASSUME IInv, NEW p \in Processes, CheckAbsent(p)
    PROVE  GoesOn(p)
<1> DEFINE r == proc[p]
<1>1. Running(p) /\ r.pc = "absent"
  BY DEF CheckAbsent, Gives, Running
<1>2. /\ r \in Runs /\ WellFormed(r) /\ Undisturbed(r, disk) /\ disk \in Disks
      /\ calm => HostsAreThere(disk) /\ (Writing(r) => Alone(r, disk))
  BY <1>1, Now
<1>3. r.kind = "uninstall"
  BY <1>1, <1>2 DEF WellFormed, StagesOf, Runs, Kinds, Managed, ByHand
<1>4. Writing(r)
  BY <1>1, <1>3 DEF Writing
<1>5. CASE \E b \in Browsers : disk.leaf[b].kind # "none"
  <2>1. r.began = <<>>
    <3> SUFFICES ASSUME r.began # <<>> PROVE FALSE
      OBVIOUS
    <3>1. Changed(r, disk, 3)
      BY <1>1, <1>2 DEF Undisturbed
    <3>2. disk.leaf = [b \in Browsers |-> Target(r, b)]
      BY <1>2, <3>1, AllOfThem
    <3>a. \A b \in Browsers : Target(r, b) = Leaf("none")
      BY <1>3 DEF Target
    <3>3. QED
      BY <1>5, <3>2, <3>a DEF Leaf
  <2>2. Refuses(p)
    BY <1>5 DEF CheckAbsent
  <2>3. QED
    BY <1>1, <2>1, <2>2, RefusesIsFine
<1>6. CASE ~\E b \in Browsers : disk.leaf[b].kind # "none"
  <2> DEFINE q == At(r, "clean", 0)
  <2>1. Goes(p, q, disk)
    BY <1>6 DEF CheckAbsent, Works
  <2>2. "clean" \in StagesOf(r.kind)
    BY <1>3 DEF StagesOf
  <2>3. /\ q \in Runs /\ WellFormed(q) /\ q.pc = "clean" /\ q.kind = r.kind
        /\ q.copy = r.copy /\ q.began = r.began /\ q.snapshot = NoSnapshot
    BY <1>1, <1>2, <2>2, AtNext
  <2> HIDE DEF q
  <2>4. q.began # <<>> => Changed(q, disk, 3)
    BY <1>1, <1>2, <2>3 DEF Undisturbed, Changed, Possible, Target
  <2>5. Undisturbed(q, disk)
    BY <1>3, <2>3, <2>4 DEF Undisturbed
  <2>6. calm => HostsAreThere(disk) /\ Alone(q, disk)
    BY <1>1, <1>2, <1>4, <2>3 DEF Alone
  <2>7. Fine(p, q, disk)
    BY <1>2, <1>4, <2>3, <2>5, <2>6 DEF Fine, Good
  <2>8. QED
    BY <1>2, <2>1, <2>3, <2>7 DEF GoesOn
<1>7. QED
  BY <1>5, <1>6

\* Without a copied host that is named, it may go.
LEMMA HostMayGo ==
    ASSUME NEW d \in Disks, Without(d, 3)
    PROVE  HostsAreThere([d EXCEPT !.legacy = "none"])
<1> DEFINE e == [d EXCEPT !.legacy = "none"]
<1>1. e.leaf = d.leaf
  BY LegacyIsSet
<1>2. \A b \in Browsers : d.leaf[b].host # Legacy
  BY Places DEF Without
<1> HIDE DEF e
<1>3. HostsAreThere(e)
  BY <1>1, <1>2 DEF HostsAreThere
<1>4. QED
  BY <1>3 DEF e

LEMMA CleanIsFine ==
    ASSUME IInv, NEW p \in Processes, Clean(p)
    PROVE  GoesOn(p)
<1> DEFINE r == proc[p]
           d == [disk EXCEPT !.legacy = "none"]
           pc == IF r.kind = "install" THEN "verify" ELSE "report"
           q == At(r, pc, 0)
<1>1. Running(p) /\ r.pc = "clean"
  BY DEF Clean, Gives, Running
<1>2. /\ r \in Runs /\ WellFormed(r) /\ Undisturbed(r, disk) /\ disk \in Disks
      /\ calm => HostsAreThere(disk) /\ (Writing(r) => Alone(r, disk))
  BY <1>1, Now
<1>3. r.kind \in {"install", "uninstall"}
  BY <1>1, <1>2 DEF WellFormed, StagesOf, Runs, Kinds, Managed, ByHand
<1>4. Writing(r)
  BY <1>1, <1>3 DEF Writing
<1>5. d \in Disks /\ d.leaf = disk.leaf /\ d.legacy = "none" /\ d.bundle = disk.bundle
  BY <1>2, LegacyIsSet
<1>6. calm => HostsAreThere(d)
  BY <1>1, <1>2, <1>4, HostMayGo DEF Alone
<1>7. \/ disk.legacy = "foreign" /\ Refuses(p)
      \/ Works(p, q, d)
      \/ Fails(p, ErrorOf(r.kind), {disk, d})
  BY DEF Clean
<1> HIDE DEF d
<1>8. r.began # <<>> => Changed(r, disk, 3)
  BY <1>1, <1>2 DEF Undisturbed
<1>9. CASE disk.legacy = "foreign" /\ Refuses(p)
  <2>1. r.began = <<>>
    BY <1>8, <1>9 DEF Changed, Possible, Installable, Removable
  <2>2. QED
    BY <1>1, <1>9, <2>1, RefusesIsFine
<1>10. CASE Fails(p, ErrorOf(r.kind), {disk, d})
  <2>1. ErrorOf(r.kind) \in ProcessErrors \ {"none", "failed", "killed"}
    BY ErrorsOfKinds
  <2>2. {disk, d} \in SUBSET Disks
    BY <1>2, <1>5
  <2>3. \A x \in {disk, d} : (x # disk => Writing(proc[p])) /\ (calm => HostsAreThere(x))
    BY <1>2, <1>4, <1>6
  <2>4. QED
    BY <1>1, <1>10, <2>1, <2>2, <2>3, FailsIsFine
<1>11. CASE Works(p, q, d)
  <2>1. Goes(p, q, d)
    BY <1>11 DEF Works
  <2>2. pc \in StagesOf(r.kind) /\ pc \in {"verify", "report"}
    BY <1>3 DEF StagesOf
  <2> HIDE DEF pc
  <2>3. /\ q \in Runs /\ WellFormed(q) /\ q.pc = pc /\ q.kind = r.kind
        /\ q.copy = r.copy /\ q.began = r.began /\ q.snapshot = NoSnapshot
    BY <1>1, <1>2, <2>2, AtNext
  <2> HIDE DEF q
  <2>4. ASSUME q.began # <<>>
        PROVE  Possible(q, q.began[1]) /\ d = Done(q, q.began[1])
    <3>1. Changed(r, disk, 3) /\ r.began[1] \in Disks /\ q.began[1] = r.began[1]
      BY <1>2, <1>8, <2>3, <2>4, BeganIsDisk
    <3>2. d.leaf = [b \in Browsers |-> Target(r, b)]
      BY <1>2, <1>5, <2>3, <2>4, <3>1, AllOfThem
    <3>3. d = Done(r, r.began[1])
      <4>1. d.bundle = r.began[1].bundle
        BY <1>5, <3>1 DEF Changed
      <4>2. QED
        BY <1>2, <1>5, <3>1, <3>2, <4>1, DoneParts, SameDisk
    <3>4. QED
      BY <2>3, <3>1, <3>3 DEF Changed, Possible, Done
  <2>5. Undisturbed(q, d)
    BY <1>3, <2>2, <2>3, <2>4 DEF Undisturbed
  <2>6. Alone(q, d)
    BY <2>2, <2>3 DEF Alone
  <2>7. Fine(p, q, d)
    BY <1>4, <1>5, <1>6, <2>3, <2>5, <2>6 DEF Fine, Good
  <2>8. QED
    BY <1>5, <2>1, <2>3, <2>7 DEF GoesOn
<1>12. QED
  BY <1>7, <1>9, <1>10, <1>11
------------------------------------------------------------------------------
(* The stages of a contributor's process, of which nothing is claimed when *)
(* it ends                                                                 *)

LEMMA NothingBegan ==
    ASSUME IInv, NEW p \in Processes, Running(p), proc[p].pc \in {"copy", "write", "remove"}
    PROVE  /\ proc[p].kind \in ByHand /\ proc[p].kind \notin Managed
           /\ proc[p].began = <<>> /\ Writing(proc[p])
<1>1. proc[p] \in Runs /\ WellFormed(proc[p]) /\ Undisturbed(proc[p], disk) /\ proc[p].kind \in Kinds
  BY Now
<1>2. proc[p].kind \in ByHand /\ proc[p].kind \notin Managed
  BY <1>1 DEF WellFormed, StagesOf, Kinds, Managed, ByHand
<1>3. proc[p].began = <<>>
  BY <1>1, <1>2 DEF Undisturbed, Managed
<1>4. Writing(proc[p])
  BY <1>2 DEF Writing, Running, ByHand
<1>5. QED
  BY <1>2, <1>3, <1>4

\* A stage that goes on: what it is to keep is the copied host.
LEMMA GoesByHand ==
    ASSUME IInv, NEW p \in Processes, Running(p), proc[p].pc \in {"copy", "write", "remove"},
           NEW q \in Runs, NEW d \in Disks, Goes(p, q, d),
           WellFormed(q), q.kind = proc[p].kind, q.copy = proc[p].copy, q.began = proc[p].began,
           q.snapshot = NoSnapshot,
           calm => HostsAreThere(d) /\ (Writing(q) => Alone(q, d))
    PROVE  GoesOn(p)
<1>1. q.began = <<>> /\ Writing(proc[p])
  BY NothingBegan
<1>2. Undisturbed(q, d)
  BY <1>1 DEF Undisturbed
<1>3. Fine(p, q, d)
  BY <1>1, <1>2 DEF Fine, Good
<1>4. QED
  BY <1>3 DEF GoesOn

LEMMA FailsByHand ==
    ASSUME IInv, NEW p \in Processes, Running(p), proc[p].pc \in {"copy", "write", "remove"},
           Fails(p, "failed", {disk})
    PROVE  GoesOn(p)
<1>1. proc[p].kind \notin Managed
  BY NothingBegan
<1>2. "failed" \in ProcessErrors \ {"none"}
  BY DEF ProcessErrors
<1>3. disk \in Disks /\ (calm => HostsAreThere(disk))
  BY Now
<1>4. {disk} \in SUBSET Disks
  BY <1>3
<1>5. \A d \in {disk} : (d # disk => Writing(proc[p])) /\ (calm => HostsAreThere(d))
  BY <1>3
<1>6. QED
  BY <1>1, <1>2, <1>4, <1>5, FailsIsFine

\* It refuses.
LEMMA RefusesByHand ==
    ASSUME IInv, NEW p \in Processes, Running(p), proc[p].pc \in {"copy", "write", "remove"},
           Refuses(p)
    PROVE  GoesOn(p)
BY NothingBegan, RefusesIsFine

LEMMA CopyHostIsFine ==
    ASSUME IInv, NEW p \in Processes, CopyHost(p)
    PROVE  GoesOn(p)
<1> DEFINE r == proc[p]
           d == [disk EXCEPT !.legacy = "file"]
           q == At(r, "write", 1)
<1>1. Running(p) /\ r.pc = "copy"
  BY DEF CopyHost, Gives, Running
<1>2. r \in Runs /\ WellFormed(r) /\ disk \in Disks
  BY <1>1, Now
<1>3. r.kind = "development"
  BY <1>1, <1>2 DEF WellFormed, StagesOf, Runs, Kinds, Managed, ByHand
<1>4. CASE Works(p, q, d)
  <2>1. Goes(p, q, d)
    BY <1>4 DEF Works
  <2>2. "write" \in StagesOf(r.kind)
    BY <1>3 DEF StagesOf
  <2>3. /\ q \in Runs /\ WellFormed(q) /\ q.pc = "write" /\ q.kind = r.kind
        /\ q.copy = r.copy /\ q.began = r.began /\ q.snapshot = NoSnapshot
    BY <1>1, <1>2, <2>2, AtNext
  <2>4. d \in Disks /\ d.legacy = "file"
    BY <1>2, LegacyIsSet
  <2> HIDE DEF q, d
  <2>5. HostsAreThere(d) /\ Alone(q, d)
    BY <2>3, <2>4 DEF HostsAreThere, Alone
  <2>6. QED
    BY <1>1, <2>1, <2>3, <2>4, <2>5, GoesByHand
<1>5. QED
  BY <1>1, <1>4, RefusesByHand, FailsByHand DEF CopyHost

LEMMA WriteManifestIsFine ==
    ASSUME IInv, NEW p \in Processes, WriteManifest(p)
    PROVE  GoesOn(p)
<1> DEFINE r == proc[p]
           b == Order[r.i]
           d == [disk EXCEPT !.leaf[b] = Copied(b, r.copy)]
           q == IF r.i < 3 THEN At(r, "write", r.i + 1) ELSE Exits(r, "none")
<1>1. Running(p) /\ r.pc = "write"
  BY DEF WriteManifest, Gives, Running
<1>2. /\ r \in Runs /\ WellFormed(r) /\ disk \in Disks /\ r.copy \in Copies
      /\ calm => HostsAreThere(disk) /\ (Writing(r) => Alone(r, disk))
  BY <1>1, Now
<1>3. r.kind = "development" /\ r.i \in 1..3 /\ r.kind \notin Managed
  BY <1>1, <1>2 DEF WellFormed, StagesOf, Runs, Kinds, Managed, ByHand
<1>4. Writing(r)
  BY <1>1, NothingBegan
<1>5. /\ q \in Runs /\ WellFormed(q) /\ q.pc \in {"write", "exited"} /\ q.kind = r.kind
      /\ q.copy = r.copy /\ q.began = r.began /\ q.snapshot = NoSnapshot
  <2>1. CASE r.i < 3
    <3>1. r.i + 1 \in 1..3 /\ "write" \in StagesOf(r.kind)
      BY <1>3, <2>1 DEF StagesOf
    <3>2. q = At(r, "write", r.i + 1)
      BY <2>1
    <3> HIDE DEF q
    <3>3. QED
      BY <1>1, <1>2, <3>1, <3>2, AtNext
  <2>2. CASE ~(r.i < 3)
    <3>1. "none" \in ProcessErrors
      BY DEF ProcessErrors
    <3>2. q = Exits(r, "none")
      BY <2>2
    <3> HIDE DEF q
    <3>3. QED
      BY <1>1, <1>2, <1>3, <3>1, <3>2, ExitsIsWell
  <2>3. QED
    BY <2>1, <2>2
<1>6. b \in Browsers /\ Copied(b, r.copy) \in Leaves
  BY <1>2, <1>3, Places, WrittenLeaves
<1>7. d \in Disks /\ d.legacy = disk.legacy
  BY <1>2, <1>6, LeafIsSet
<1>8. calm => disk.legacy = "file"
  BY <1>1, <1>2, <1>4 DEF Alone
<1>9. d = SetLeaf(Place(p), Copied(Place(p), r.copy))
  BY DEF SetLeaf, Place
<1>10. \/ Works(p, q, d) \/ Works(p, q, disk) \/ Refuses(p) \/ Fails(p, "failed", {disk})
  BY <1>9 DEF WriteManifest, Place
<1> HIDE DEF q, d
<1>11. ASSUME NEW e \in Disks, e.legacy = disk.legacy, Works(p, q, e)
       PROVE  GoesOn(p)
  <2>1. Goes(p, q, e)
    BY <1>11 DEF Works
  <2>2. calm => HostsAreThere(e) /\ Alone(q, e)
    BY <1>5, <1>8, <1>11 DEF HostsAreThere, Alone
  <2>3. QED
    BY <1>1, <1>5, <2>1, <2>2, GoesByHand
<1>12. QED
  BY <1>1, <1>2, <1>7, <1>10, <1>11, RefusesByHand, FailsByHand

LEMMA RemoveFileIsFine ==
    ASSUME IInv, NEW p \in Processes, RemoveFile(p)
    PROVE  GoesOn(p)
<1> DEFINE r == proc[p]
           n == r.i + 1
           b == Order[n]
           d == [disk EXCEPT !.leaf[b] = Leaf("none")]
           q == At(r, "remove", n)
<1>1. Running(p) /\ r.pc = "remove"
  BY DEF RemoveFile, Gives, Running
<1>2. /\ r \in Runs /\ WellFormed(r) /\ disk \in Disks
      /\ calm => HostsAreThere(disk) /\ (Writing(r) => Alone(r, disk))
  BY <1>1, Now
<1>3. r.kind = "remove" /\ r.i \in 0..3 /\ r.kind \notin Managed
  BY <1>1, <1>2 DEF WellFormed, StagesOf, Runs, Kinds, Managed, ByHand
<1>4. calm => HostsAreThere(disk) /\ Without(disk, r.i)
  BY <1>1, <1>2, NothingBegan DEF Alone
<1>5. ASSUME r.i < 3, NEW e \in Disks, Goes(p, q, e), calm => HostsAreThere(e) /\ Without(e, n)
      PROVE  GoesOn(p)
  <2>1. n \in 0..3 /\ "remove" \in StagesOf(r.kind)
    BY <1>3, <1>5 DEF StagesOf
  <2>2. /\ q \in Runs /\ WellFormed(q) /\ q.pc = "remove" /\ q.i = n /\ q.kind = r.kind
        /\ q.copy = r.copy /\ q.began = r.began /\ q.snapshot = NoSnapshot
    BY <1>1, <1>2, <2>1, AtNext
  <2>3. Goes(p, q, e)
    BY <1>5
  <2> HIDE DEF q
  <2>4. calm => HostsAreThere(e) /\ Alone(q, e)
    BY <1>5, <2>2 DEF Alone
  <2>5. QED
    BY <1>1, <2>2, <2>3, <2>4, GoesByHand
<1>6. CASE r.i < 3
  <2>1. n \in 1..3 /\ n - 1 = r.i /\ b \in Browsers
    BY <1>3, <1>6, Places
  <2>2. \A j \in 1..3 : (j <= n <=> j <= r.i \/ j = n)
    BY <1>3
  <2>3. CASE Works(p, q, d)
    <3>1. Goes(p, q, d)
      BY <2>3 DEF Works
    <3>2. /\ d \in Disks /\ d.leaf = [disk.leaf EXCEPT ![b] = Leaf("none")]
          /\ d.legacy = disk.legacy /\ Leaf("none").host # Legacy
      <4>1. Leaf("none") \in Leaves /\ Leaf("none").host = NoHost
        BY DEF Leaves, Leaf
      <4>2. NoHost # Legacy
        BY ManifestAssumption DEF Hosts
      <4>3. QED
        BY <1>2, <2>1, <4>1, <4>2, LeafIsSet
    <3> HIDE DEF d
    <3>3. \A j \in 1..3 : d.leaf[Order[j]] = IF j = n THEN Leaf("none") ELSE disk.leaf[Order[j]]
      BY <1>2, <2>1, <3>2, Places, DiskParts
    <3>4. Without(disk, r.i) => Without(d, n)
      BY <2>2, <3>2, <3>3 DEF Without
    <3>5. HostsAreThere(disk) => HostsAreThere(d)
      BY <1>2, <2>1, <3>2, DiskParts DEF HostsAreThere
    <3>6. QED
      BY <1>4, <1>5, <1>6, <3>1, <3>2, <3>4, <3>5
  <2>4. CASE disk.leaf[b].kind = "blocked" /\ Works(p, q, disk)
    <3>1. Goes(p, q, disk)
      BY <2>4 DEF Works
    <3>2. disk.leaf[b].host # Legacy
      <4>1. disk.leaf[b] \in Leaves
        BY <1>2, <2>1, DiskParts
      <4>2. NoHost # Legacy
        BY ManifestAssumption DEF Hosts
      <4>3. QED
        BY <2>4, <4>1, <4>2, KindsOfLeaves
    <3>3. Without(disk, r.i) => Without(disk, n)
      BY <2>2, <3>2 DEF Without
    <3>4. QED
      BY <1>2, <1>4, <1>5, <1>6, <3>1, <3>3
  <2>5. \/ Works(p, q, d)
        \/ disk.leaf[b].kind = "blocked" /\ Works(p, q, disk)
        \/ Refuses(p) \/ Fails(p, "failed", {disk})
    BY <1>6 DEF RemoveFile, SetLeaf
  <2>6. QED
    BY <1>1, <2>3, <2>4, <2>5, RefusesByHand, FailsByHand
<1>7. CASE ~(r.i < 3)
  <2> DEFINE gone == [disk EXCEPT !.legacy = "none"]
             last == Exits(r, "none")
  <2>1. CASE Works(p, last, gone)
    <3>1. Goes(p, last, gone)
      BY <2>1 DEF Works
    <3>2. gone \in Disks
      BY <1>2, LegacyIsSet
    <3>3. /\ last \in Runs /\ WellFormed(last) /\ last.pc = "exited" /\ last.kind = r.kind
          /\ last.copy = r.copy /\ last.began = r.began /\ last.snapshot = NoSnapshot
      <4>1. "none" \in ProcessErrors
        BY DEF ProcessErrors
      <4>2. QED
        BY <1>1, <1>2, <1>3, <4>1, ExitsIsWell
    <3>4. calm => HostsAreThere(gone)
      <4>1. r.i = 3
        BY <1>3, <1>7
      <4>2. QED
        BY <1>2, <1>4, <4>1, HostMayGo
    <3> HIDE DEF last, gone
    <3>5. ~Writing(last)
      BY <3>3 DEF Writing
    <3>6. QED
      BY <1>1, <3>1, <3>2, <3>3, <3>4, <3>5, GoesByHand
  <2>2. Works(p, last, gone) \/ Refuses(p) \/ Fails(p, "failed", {disk})
    BY <1>7 DEF RemoveFile
  <2>3. QED
    BY <1>1, <2>1, <2>2, RefusesByHand, FailsByHand
<1>8. QED
  BY <1>6, <1>7

\* Every step of an installer is one of these.
LEMMA StepGoesOn ==
    ASSUME IInv, NEW p \in Processes, Step(p) \/ Crash(p)
    PROVE  GoesOn(p)
BY InspectIsFine, ValidateIsFine, ChangeIsFine, CheckAbsentIsFine, CleanIsFine,
   CopyHostIsFine, WriteManifestIsFine, RemoveFileIsFine, CrashIsFine DEF Step
------------------------------------------------------------------------------
(* What a step does to the other processes *)

\* The process r is q but for what it began with.
SameRun(r, q) ==
    /\ (r = Idle) <=> (q = Idle)
    /\ q # Idle => /\ r.kind = q.kind /\ r.copy = q.copy /\ r.pc = q.pc /\ r.i = q.i
                   /\ r.snapshot = q.snapshot

LEMMA Others ==
    ASSUME IInv, NEW x \in Processes, NEW d
    PROVE  LET r == IF d = disk THEN proc[x] ELSE Disturbed(proc[x]) IN
           /\ r \in {Idle} \cup Runs
           /\ r = Idle \/ Good(r, d)
           /\ SameRun(r, proc[x])
<1>1. CASE proc[x] = Idle
  <2>1. Disturbed(proc[x]) = Idle
    BY <1>1 DEF Disturbed, Idle
  <2>2. QED
    BY <1>1, <2>1 DEF SameRun
<1>2. CASE proc[x] # Idle
  <2>1. proc[x] \in Runs /\ Good(proc[x], disk)
    BY <1>2 DEF IInv, ProcessesInv, Good, WellFormed
  <2>2. /\ Good(Disturbed(proc[x]), d) /\ Disturbed(proc[x]) # Idle
        /\ SameRun(Disturbed(proc[x]), proc[x])
    BY <1>2, <2>1, DisturbedIsGood DEF SameRun, Good
  <2>3. SameRun(proc[x], proc[x])
    BY DEF SameRun
  <2>4. Disturbed(proc[x]) \in Runs
    BY <2>2 DEF Good, WellFormed
  <2>5. QED
    BY <2>1, <2>2, <2>3, <2>4
<1>3. QED
  BY <1>1, <1>2

\* One process goes on, the others stay or are disturbed.
LEMMA ProcessesKeep ==
    ASSUME IInv, NEW p \in Processes, NEW q \in Runs, NEW d \in Disks, Goes(p, q, d), Good(q, d)
    PROVE  /\ disk' = d /\ proc' \in [Processes -> {Idle} \cup Runs] /\ proc'[p] = q /\ q # Idle
           /\ \A x \in Processes \ {p} : /\ SameRun(proc'[x], proc[x])
                                         /\ d = disk => proc'[x] = proc[x]
           /\ ProcessesInv'
<1> DEFINE r(x) == IF d = disk THEN proc[x] ELSE Disturbed(proc[x])
<1>1. disk' = d /\ proc' = [x \in Processes |-> IF x = p THEN q ELSE r(x)]
  BY DEF Goes
<1>2. \A x \in Processes : r(x) \in {Idle} \cup Runs /\ (r(x) = Idle \/ Good(r(x), d)) /\ SameRun(r(x), proc[x])
  BY Others
<1>3. \A x \in Processes : d = disk => r(x) = proc[x]
  OBVIOUS
<1> HIDE DEF r
<1>4. q # Idle
  BY DEF Idle, Runs, Stages
<1>5. proc' \in [Processes -> {Idle} \cup Runs] /\ proc'[p] = q
  BY <1>1, <1>2
<1>6. \A x \in Processes \ {p} : SameRun(proc'[x], proc[x]) /\ (d = disk => proc'[x] = proc[x])
  BY <1>1, <1>2, <1>3
<1>7. \A x \in Processes : proc'[x] = Idle \/ Good(proc'[x], d)
  BY <1>1, <1>2
<1>8. ProcessesInv'
  BY <1>1, <1>5, <1>7 DEF ProcessesInv, Good
<1>9. QED
  BY <1>1, <1>4, <1>5, <1>6, <1>8

\* Only one that writes changes the disk, so that in the calm no other writes.
LEMMA CalmKeeps ==
    ASSUME IInv, NEW p \in Processes, NEW q \in Runs, NEW d \in Disks, Goes(p, q, d), Fine(p, q, d),
           Calm
    PROVE  CalmInv' /\ calm' \in BOOLEAN
<1>1. /\ disk' = d /\ proc'[p] = q
      /\ \A x \in Processes \ {p} : /\ SameRun(proc'[x], proc[x])
                                    /\ d = disk => proc'[x] = proc[x]
  BY ProcessesKeep DEF Fine
<1>2. calm' \in BOOLEAN
  BY DEF Calm
<1>3. ASSUME calm'
      PROVE  /\ HostsAreThere(d)
             /\ \A x, y \in Processes : Writing(proc'[x]) /\ Writing(proc'[y]) => x = y
             /\ \A x \in Processes : Writing(proc'[x]) => Alone(proc'[x], d)
  <2>1. calm /\ \A x, y \in Processes : Writing(proc'[x]) /\ Writing(proc'[y]) => x = y
    BY <1>3 DEF Calm
  <2>2. HostsAreThere(d) /\ (Writing(q) => Alone(q, d))
    BY <2>1 DEF Fine
  <2>3. ASSUME NEW x \in Processes \ {p}, Writing(proc'[x])
        PROVE  Alone(proc'[x], d)
    <3>1. SameRun(proc'[x], proc[x]) /\ (d = disk => proc'[x] = proc[x])
      BY <1>1
    <3>2. Writing(proc[x])
      <4>1. proc'[x] # Idle
        BY <2>3 DEF Writing, Idle
      <4>2. QED
        BY <2>3, <3>1, <4>1 DEF SameRun, Writing
    <3>3. d = disk
      <4>1. Writing(proc[x]) /\ Writing(proc[p]) => x = p
        BY <2>1 DEF IInv, CalmInv
      <4>2. QED
        BY <2>3, <3>2, <4>1 DEF Fine
    <3>4. Alone(proc[x], disk)
      BY <2>1, <3>2 DEF IInv, CalmInv
    <3>5. QED
      BY <3>1, <3>3, <3>4
  <2>4. \A x \in Processes : Writing(proc'[x]) => Alone(proc'[x], d)
    BY <1>1, <2>2, <2>3
  <2>5. QED
    BY <2>1, <2>2, <2>4
<1>4. QED
  BY <1>1, <1>2, <1>3 DEF CalmInv
------------------------------------------------------------------------------
(* What a step does to the window *)

\* The window is as it was; the process it waits for is still its own, and an
\* answer it has not read yet is of this disk.
LEMMA WindowKeeps ==
    ASSUME IInv, NEW fresh \in BOOLEAN, fresh => app.fresh, app' = [app EXCEPT !.fresh = fresh],
           app.proc # 0 => /\ proc'[app.proc] # Idle
                           /\ proc'[app.proc].kind = proc[app.proc].kind
                           /\ proc'[app.proc].copy = proc[app.proc].copy,
           (app.proc # 0 /\ fresh /\ proc'[app.proc].snapshot # NoSnapshot)
              => proc'[app.proc].snapshot.state = StateOf(disk', app.copy),
           fresh /\ ~app.busy => disk' = disk
    PROVE  WindowInv'
<1>1. /\ app \in Apps
      /\ app.busy => IsOpen /\ app.action \in Managed
      /\ app.confirming => IsOpen /\ ~app.busy
      /\ app.proc # 0 => /\ app.busy /\ proc[app.proc] # Idle
                         /\ proc[app.proc].kind = app.action /\ proc[app.proc].copy = app.copy
      /\ ShownIsTrue /\ ContractAgrees
  BY DEF IInv, WindowInv
<1>2. /\ app' \in Apps /\ app'.copy = app.copy /\ app'.shown = app.shown /\ app'.busy = app.busy
      /\ app'.action = app.action /\ app'.proc = app.proc /\ app'.confirming = app.confirming
      /\ app'.error = app.error /\ app'.fresh = fresh
  BY <1>1 DEF Apps
<1>3. /\ app'.busy => app'.copy # NoHost /\ app'.action \in Managed
      /\ app'.confirming => app'.copy # NoHost /\ ~app'.busy
      /\ app'.proc # 0 => /\ app'.busy /\ proc'[app'.proc] # Idle
                          /\ proc'[app'.proc].kind = app'.action /\ proc'[app'.proc].copy = app'.copy
  BY <1>1, <1>2 DEF IsOpen
<1>4. (app'.proc # 0 /\ app'.fresh /\ proc'[app'.proc].snapshot # NoSnapshot)
         => proc'[app'.proc].snapshot.state = StateOf(disk', app'.copy)
  BY <1>2
<1>5. ShownIsTrue'
  BY <1>1, <1>2 DEF ShownIsTrue, IsOpen
<1>6. ContractAgrees'
  BY <1>1, <1>2 DEF ContractAgrees
<1>7. QED
  BY <1>2, <1>3, <1>4, <1>5, <1>6 DEF WindowInv, IsOpen

LEMMA ProcessKeeps ==
    ASSUME IInv, NEW p \in Processes, Process(p)
    PROVE  IInv'
<1>1. app' = Watched(p) /\ Calm /\ GoesOn(p)
  BY StepGoesOn DEF Process
<1>2. PICK q \in Runs, d \in Disks : Goes(p, q, d) /\ Fine(p, q, d)
  BY <1>1 DEF GoesOn
<1>3. /\ disk' = d /\ proc'[p] = q /\ q # Idle
      /\ \A x \in Processes \ {p} : /\ SameRun(proc'[x], proc[x])
                                    /\ d = disk => proc'[x] = proc[x]
      /\ ProcessesInv'
  BY <1>2, ProcessesKeep DEF Fine
<1>4. CalmInv' /\ calm' \in BOOLEAN
  BY <1>1, <1>2, CalmKeeps
<1> DEFINE fresh == app.fresh /\ (disk' = disk \/ (app.busy /\ p = app.proc))
<1>5. app' = [app EXCEPT !.fresh = fresh]
  BY <1>1 DEF Watched
<1>6. /\ fresh \in BOOLEAN /\ (fresh => app.fresh)
      /\ fresh => disk' = disk \/ p = app.proc
      /\ fresh /\ ~app.busy => disk' = disk
  BY DEF IInv, WindowInv, Apps
<1> HIDE DEF fresh
<1>7. app.proc # 0 => app.proc \in Processes /\ proc[app.proc] # Idle /\ proc[app.proc].copy = app.copy
  BY DEF IInv, WindowInv, Apps
<1>8. app.proc # 0 => /\ proc'[app.proc] # Idle
                      /\ proc'[app.proc].kind = proc[app.proc].kind
                      /\ proc'[app.proc].copy = proc[app.proc].copy
  BY <1>2, <1>3, <1>7 DEF SameRun, Fine
<1>9. ASSUME app.proc # 0, fresh, proc'[app.proc].snapshot # NoSnapshot
      PROVE  proc'[app.proc].snapshot.state = StateOf(disk', app.copy)
  <2>1. CASE app.proc = p
    BY <1>2, <1>3, <1>7, <1>9, <2>1 DEF Fine
  <2>2. CASE app.proc # p
    <3>1. disk' = disk /\ proc'[app.proc] = proc[app.proc]
      BY <1>3, <1>6, <1>7, <1>9, <2>2
    <3>2. QED
      BY <1>6, <1>9, <3>1 DEF IInv, WindowInv
  <2>3. QED
    BY <2>1, <2>2
<1>10. WindowInv'
  BY <1>5, <1>6, <1>8, <1>9, WindowKeeps
<1>11. QED
  BY <1>3, <1>4, <1>10 DEF IInv

\* Somebody changes the disk: the calm is over, and no process is undisturbed.
LEMMA EditKeeps ==
    ASSUME IInv, EditDisk
    PROVE  IInv'
<1>1. Edit /\ app' = Watched(0) /\ calm' = FALSE
  BY DEF EditDisk
<1>2. disk' # disk /\ proc' = [x \in Processes |-> Disturbed(proc[x])]
  BY <1>1 DEF Edit
<1>3. disk' \in Disks
  <2>1. disk \in Disks
    BY DEF IInv
  <2>2. CASE \E t \in TouchedLeaves : disk' = SetLeaf(t[1], Leaf(t[2]))
    <3>1. PICK t \in TouchedLeaves : disk' = SetLeaf(t[1], Leaf(t[2]))
      BY <2>2
    <3>2. t[1] \in Browsers /\ t[2] \in {"none", "damaged"} \cup Refused
      BY InstallerAssumption
    <3>3. Leaf(t[2]) \in Leaves
      BY <3>2 DEF Leaves
    <3>4. QED
      BY <2>1, <3>1, <3>2, <3>3, LeafIsSet DEF SetLeaf
  <2>3. CASE \E c \in Moved, s \in {"ready", "invalid", "absent"} : disk' = [disk EXCEPT !.bundle[c] = s]
    BY <2>1, <2>3 DEF Disks
  <2>4. CASE \E s \in {"none", "foreign"} : disk' = [disk EXCEPT !.legacy = s]
    <3>1. PICK s \in {"none", "foreign"} : disk' = [disk EXCEPT !.legacy = s]
      BY <2>4
    <3>2. s \in {"none", "file", "foreign"}
      OBVIOUS
    <3>3. QED
      BY <2>1, <3>1, <3>2, LegacyIsSet
  <2>5. QED
    BY <1>1, <2>2, <2>3, <2>4 DEF Edit
<1>4. \A x \in Processes : /\ Disturbed(proc[x]) \in {Idle} \cup Runs
                           /\ Disturbed(proc[x]) = Idle \/ Good(Disturbed(proc[x]), disk')
                           /\ SameRun(Disturbed(proc[x]), proc[x])
  BY <1>2, Others
<1>5. ProcessesInv'
  BY <1>2, <1>4 DEF ProcessesInv, Good
<1>6. CalmInv'
  BY <1>1 DEF CalmInv
<1> DEFINE fresh == app.fresh /\ (disk' = disk \/ (app.busy /\ 0 = app.proc))
<1>7. /\ app' = [app EXCEPT !.fresh = fresh] /\ fresh \in BOOLEAN /\ (fresh => app.fresh)
      /\ fresh /\ ~app.busy => disk' = disk
      /\ app.proc # 0 => ~fresh
  BY <1>1, <1>2 DEF Watched, IInv, WindowInv, Apps
<1> HIDE DEF fresh
<1>8. app.proc # 0 => app.proc \in Processes /\ proc[app.proc] # Idle
  BY DEF IInv, WindowInv, Apps
<1>9. app.proc # 0 => /\ proc'[app.proc] # Idle
                      /\ proc'[app.proc].kind = proc[app.proc].kind
                      /\ proc'[app.proc].copy = proc[app.proc].copy
  BY <1>2, <1>4, <1>8 DEF SameRun
<1>10. WindowInv'
  BY <1>7, <1>9, WindowKeeps
<1>11. QED
  BY <1>1, <1>3, <1>5, <1>6, <1>10 DEF IInv
------------------------------------------------------------------------------
(* Processes start and end *)

\* A process that starts has changed nothing yet.
LEMMA BeginIsFine ==
    ASSUME disk \in Disks, NEW kind \in Kinds, NEW c \in Copies
    PROVE  LET q == Begin(kind, c) IN
           /\ q \in Runs /\ Good(q, disk) /\ Alone(q, disk)
           /\ q.kind = kind /\ q.copy = c /\ q.pc \notin {"none", "exited"} /\ q.snapshot = NoSnapshot
<1> DEFINE q == Begin(kind, c)
           pc == CASE kind = "status" -> "inspect" [] kind \in {"install", "uninstall"} -> "validate"
                   [] kind = "development" -> "copy" [] kind = "remove" -> "remove"
           began == IF kind \in {"install", "uninstall"} THEN <<disk>> ELSE <<>>
<1>1. kind \in {"status", "install", "uninstall", "development", "remove"}
  BY DEF Kinds, Managed, ByHand
<1>2. pc \in Stages /\ pc \in StagesOf(kind) /\ pc \in {"inspect", "validate", "copy", "remove"}
  BY <1>1 DEF Stages, StagesOf
<1>3. began \in Seq(Disks) /\ Len(began) <= 1
  OBVIOUS
<1>4. began # <<>> => kind \in {"install", "uninstall"} /\ began[1] = disk
  OBVIOUS
<1>5. /\ q.kind = kind /\ q.copy = c /\ q.pc = pc /\ q.i = 0 /\ q.error = "none"
      /\ q.snapshot = NoSnapshot /\ q.began = began
  BY DEF Begin
<1>6. q = [kind |-> kind, copy |-> c, pc |-> pc, i |-> 0, error |-> "none",
           snapshot |-> NoSnapshot, began |-> began]
  BY DEF Begin
<1> HIDE DEF q, pc, began
<1>7. "none" \in ProcessErrors /\ NoSnapshot \in {NoSnapshot} \cup Snapshots /\ 0 \in 0..3
  BY DEF ProcessErrors
<1>8. q \in Runs
  BY <1>2, <1>3, <1>6, <1>7 DEF Runs
<1>9. WellFormed(q)
  BY <1>2, <1>3, <1>5, <1>8 DEF WellFormed
<1>10. Undisturbed(q, disk)
  BY <1>2, <1>4, <1>5 DEF Undisturbed
<1>11. Alone(q, disk)
  BY <1>2, <1>5 DEF Alone, Without
<1>12. QED
  BY <1>2, <1>5, <1>8, <1>9, <1>10, <1>11 DEF Good, q

LEMMA SlotIsFree ==
    ASSUME FreeSlots # {}
    PROVE  FreeSlot \in Processes /\ proc[FreeSlot].pc = "none"
<1>1. FreeSlot \in FreeSlots
  BY DEF FreeSlot
<1>2. QED
  BY <1>1 DEF FreeSlots

LEMMA StartKeeps ==
    ASSUME IInv, NEW kind \in Kinds, NEW c \in Copies, Start(kind, c), Calm
    PROVE  /\ disk' = disk /\ FreeSlot \in Processes /\ proc[FreeSlot] = Idle
           /\ proc' = [proc EXCEPT ![FreeSlot] = Begin(kind, c)]
           /\ disk' \in Disks /\ calm' \in BOOLEAN /\ ProcessesInv' /\ CalmInv'
<1> DEFINE f == FreeSlot
           q == Begin(kind, c)
<1>1. disk' = disk /\ proc' = [proc EXCEPT ![f] = q] /\ FreeSlots # {}
  BY DEF Start, CanStart
<1>2. f \in Processes /\ proc[f].pc = "none"
  BY <1>1, SlotIsFree
<1>3. /\ disk \in Disks /\ proc \in [Processes -> {Idle} \cup Runs]
      /\ \A x \in Processes : proc[x] = Idle \/ Good(proc[x], disk)
  BY DEF IInv, ProcessesInv, Good
<1>4. proc[f] = Idle
  <2>1. proc[f] # Idle => proc[f] \in Runs
    BY <1>2, <1>3
  <2>2. QED
    BY <1>2, <2>1 DEF Runs, Stages
<1>5. q \in Runs /\ Good(q, disk) /\ Alone(q, disk)
  BY <1>3, BeginIsFine
<1> HIDE DEF q, f
<1>6. /\ proc' \in [Processes -> {Idle} \cup Runs]
      /\ \A x \in Processes : proc'[x] = IF x = f THEN q ELSE proc[x]
  BY <1>1, <1>2, <1>3, <1>5
<1>7. ProcessesInv'
  BY <1>1, <1>3, <1>5, <1>6 DEF ProcessesInv, Good
<1>8. CalmInv'
  <2> SUFFICES ASSUME calm'
               PROVE  /\ HostsAreThere(disk)
                      /\ \A x, y \in Processes : Writing(proc'[x]) /\ Writing(proc'[y]) => x = y
                      /\ \A x \in Processes : Writing(proc'[x]) => Alone(proc'[x], disk)
    BY <1>1 DEF CalmInv
  <2>1. calm /\ \A x, y \in Processes : Writing(proc'[x]) /\ Writing(proc'[y]) => x = y
    BY DEF Calm
  <2>2. HostsAreThere(disk) /\ \A x \in Processes : Writing(proc[x]) => Alone(proc[x], disk)
    BY <2>1 DEF IInv, CalmInv
  <2>3. QED
    BY <1>5, <1>6, <2>1, <2>2
<1>9. calm' \in BOOLEAN
  BY DEF Calm
<1>10. QED
  BY <1>1, <1>2, <1>3, <1>4, <1>7, <1>8, <1>9 DEF f, q

\* A process goes, and its slot is free.
LEMMA GoneKeeps ==
    ASSUME IInv, NEW p \in Processes, Gone(p), calm' = calm
    PROVE  /\ disk' = disk /\ proc' = [proc EXCEPT ![p] = Idle]
           /\ disk' \in Disks /\ calm' \in BOOLEAN /\ ProcessesInv' /\ CalmInv'
<1>1. disk' = disk /\ proc' = [proc EXCEPT ![p] = Idle]
  BY DEF Gone
<1>2. /\ disk \in Disks /\ calm \in BOOLEAN /\ proc \in [Processes -> {Idle} \cup Runs]
      /\ \A x \in Processes : proc[x] = Idle \/ Good(proc[x], disk)
  BY DEF IInv, ProcessesInv, Good
<1>3. /\ proc' \in [Processes -> {Idle} \cup Runs]
      /\ \A x \in Processes : proc'[x] = IF x = p THEN Idle ELSE proc[x]
  BY <1>1, <1>2
<1>4. ProcessesInv'
  BY <1>1, <1>2, <1>3 DEF ProcessesInv, Good
<1>5. ~Writing(Idle)
  BY DEF Writing, Idle
<1>6. CalmInv'
  BY <1>1, <1>3, <1>5 DEF IInv, CalmInv
<1>7. QED
  BY <1>1, <1>2, <1>4, <1>6

LEMMA ContributeKeeps ==
    ASSUME IInv, NEW c \in Contributors, NEW kind \in ByHand, Contribute(c, kind)
    PROVE  IInv'
<1>1. Start(kind, c) /\ app' = app /\ Calm
  BY DEF Contribute
<1>2. kind \in Kinds /\ c \in Copies
  BY InstallerAssumption DEF Kinds
<1>3. /\ disk' = disk /\ FreeSlot \in Processes /\ proc[FreeSlot] = Idle
      /\ proc' = [proc EXCEPT ![FreeSlot] = Begin(kind, c)]
      /\ disk' \in Disks /\ calm' \in BOOLEAN /\ ProcessesInv' /\ CalmInv'
  BY <1>1, <1>2, StartKeeps
<1>4. proc \in [Processes -> {Idle} \cup Runs]
  BY DEF IInv, ProcessesInv
<1>5. app.proc # 0 => app.proc \in Processes /\ app.proc # FreeSlot
  BY <1>3 DEF IInv, WindowInv, Apps
<1>6. app.proc # 0 => proc'[app.proc] = proc[app.proc]
  BY <1>3, <1>4, <1>5
<1>7. app.fresh \in BOOLEAN /\ app' = [app EXCEPT !.fresh = app.fresh]
  BY <1>1 DEF IInv, WindowInv, Apps
<1>8. WindowInv'
  BY <1>3, <1>6, <1>7, WindowKeeps DEF IInv, WindowInv
<1>9. QED
  BY <1>3, <1>8 DEF IInv

LEMMA UnreadKeeps ==
    ASSUME IInv, NEW p \in Processes, Unread(p)
    PROVE  IInv'
<1>1. Gone(p) /\ app' = app /\ calm' = calm /\ ~(app.busy /\ app.proc = p)
  BY DEF Unread
<1>2. /\ disk' = disk /\ proc' = [proc EXCEPT ![p] = Idle]
      /\ disk' \in Disks /\ calm' \in BOOLEAN /\ ProcessesInv' /\ CalmInv'
  BY <1>1, GoneKeeps
<1>3. proc \in [Processes -> {Idle} \cup Runs]
  BY DEF IInv, ProcessesInv
<1>4. app.proc # 0 => app.proc \in Processes /\ app.proc # p
  BY <1>1 DEF IInv, WindowInv, Apps
<1>5. app.proc # 0 => proc'[app.proc] = proc[app.proc]
  BY <1>2, <1>3, <1>4
<1>6. app.fresh \in BOOLEAN /\ app' = [app EXCEPT !.fresh = app.fresh]
  BY <1>1 DEF IInv, WindowInv, Apps
<1>7. WindowInv'
  BY <1>2, <1>5, <1>6, WindowKeeps DEF IInv, WindowInv
<1>8. QED
  BY <1>2, <1>7 DEF IInv
------------------------------------------------------------------------------
(* The window and its client *)

\* The window is as the invariant wants when it waits for no process.
LEMMA WindowAtRest ==
    ASSUME app' \in Apps, app'.proc = 0,
           app'.busy => app'.copy # NoHost /\ app'.action \in Managed,
           app'.confirming => app'.copy # NoHost /\ ~app'.busy,
           app'.error # "invalidResponse",
           (~app'.busy /\ app'.copy # NoHost /\ app'.fresh /\ app'.shown \notin {"loading", "failed"})
              => app'.shown = StateOf(disk', app'.copy)
    PROVE  WindowInv'
<1>1. ShownIsTrue'
  BY DEF ShownIsTrue, IsOpen
<1>2. QED
  BY <1>1 DEF WindowInv, IsOpen, ContractAgrees

\* Nothing but the window has changed.
LEMMA OnlyWindow ==
    ASSUME IInv, UNCHANGED <<installerVars, calm>>, WindowInv'
    PROVE  IInv'
<1>1. disk' = disk /\ proc' = proc /\ calm' = calm
  BY DEF installerVars
<1>2. ProcessesInv' /\ CalmInv'
  BY <1>1 DEF IInv, ProcessesInv, CalmInv
<1>3. QED
  BY <1>1, <1>2 DEF IInv

\* What perform does before it waits.
LEMMA PerformingParts ==
    ASSUME NEW a \in Apps, NEW action \in Managed
    PROVE  LET b == Performing(a, action) IN
           /\ b \in Apps /\ b.busy /\ b.action = action /\ b.proc = 0 /\ b.error = "none"
           /\ b.copy = a.copy /\ b.confirming = a.confirming
<1> DEFINE shown == IF action = "status" /\ a.snapshot = NoSnapshot THEN "loading" ELSE a.shown
<1>1. shown \in {"loading", "failed"} \cup States
  BY DEF Apps
<1>2. Performing(a, action) = [a EXCEPT !.busy = TRUE, !.action = action, !.proc = 0,
                                        !.error = "none", !.shown = shown]
  BY DEF Performing, Apps
<1> HIDE DEF shown
<1>3. QED
  BY <1>1, <1>2 DEF Apps

LEMMA PerformKeeps ==
    ASSUME IInv, NEW a \in Apps, NEW action \in Managed, a.copy # NoHost, ~a.confirming,
           app' = Performing(a, action), UNCHANGED <<installerVars, calm>>
    PROVE  IInv'
<1>1. /\ app' \in Apps /\ app'.busy /\ app'.action = action /\ app'.proc = 0 /\ app'.error = "none"
      /\ app'.copy = a.copy /\ ~app'.confirming
  BY PerformingParts
<1>2. WindowInv'
  BY <1>1, WindowAtRest
<1>3. QED
  BY <1>2, OnlyWindow

LEMMA ClosedParts ==
    ASSUME NEW c \in Copies \cup {NoHost}
    PROVE  /\ Opened(c) \in Apps /\ Opened(c).copy = c /\ Opened(c).proc = 0 /\ ~Opened(c).busy
           /\ ~Opened(c).confirming /\ Opened(c).error = "none" /\ ~Opened(c).fresh
BY DEF Opened, Apps

\* The buttons.
LEMMA ButtonsKeep ==
    ASSUME IInv,
           \/ \E c \in Copies : Open(c)
           \/ Quit \/ Refresh \/ PerformPrimary \/ Reinstall
           \/ RequestUninstall \/ CancelUninstall \/ ConfirmUninstall
    PROVE  IInv'
<1>1. /\ app \in Apps
      /\ app.busy => IsOpen /\ app.action \in Managed
      /\ app.confirming => IsOpen /\ ~app.busy
      /\ app.proc # 0 => app.busy
      /\ ShownIsTrue /\ ContractAgrees
  BY DEF IInv, WindowInv
<1>2. {"status", "install", "uninstall"} \subseteq Managed
  BY DEF Managed
<1>3. ASSUME NEW c \in Copies, Open(c) PROVE IInv'
  <2>1. c # NoHost
    BY ManifestAssumption DEF Hosts
  <2>2. Opened(c) \in Apps /\ Opened(c).copy # NoHost /\ ~Opened(c).confirming
    BY <2>1, ClosedParts
  <2>3. app' = Performing(Opened(c), "status") /\ UNCHANGED <<installerVars, calm>>
    BY <1>3 DEF Open
  <2>4. QED
    BY <1>2, <2>2, <2>3, PerformKeeps
<1>4. CASE Quit
  <2>1. app' = Opened(NoHost) /\ UNCHANGED <<installerVars, calm>>
    BY <1>4 DEF Quit, Closed
  <2>2. /\ app' \in Apps /\ app'.copy = NoHost /\ app'.proc = 0 /\ ~app'.busy
        /\ ~app'.confirming /\ app'.error = "none"
    BY <2>1, ClosedParts
  <2>3. WindowInv'
    BY <2>2, WindowAtRest
  <2>4. QED
    BY <2>1, <2>3, OnlyWindow
<1>5. ASSUME NEW action \in Managed, NEW allowed, Press(action, allowed) PROVE IInv'
  <2>1. app.copy # NoHost /\ ~app.confirming /\ app' = Performing(app, action) /\ UNCHANGED <<installerVars, calm>>
    BY <1>5 DEF Press, IsOpen
  <2>2. QED
    BY <1>1, <2>1, PerformKeeps
<1>6. CASE Refresh \/ PerformPrimary \/ Reinstall
  BY <1>2, <1>5, <1>6 DEF Refresh, PerformPrimary, Reinstall
<1>7. CASE ConfirmUninstall
  <2> DEFINE a == [app EXCEPT !.confirming = FALSE]
  <2>1. app' = Performing(a, "uninstall") /\ UNCHANGED <<installerVars, calm>> /\ app.copy # NoHost
    BY <1>1, <1>7 DEF ConfirmUninstall, IsOpen
  <2>2. a \in Apps /\ a.copy = app.copy /\ ~a.confirming
    BY <1>1 DEF Apps
  <2> HIDE DEF a
  <2>3. QED
    BY <1>2, <2>1, <2>2, PerformKeeps
<1>8. CASE RequestUninstall \/ CancelUninstall
  <2>1. PICK confirming \in BOOLEAN : /\ app' = [app EXCEPT !.confirming = confirming]
                                      /\ UNCHANGED <<installerVars, calm>>
    BY <1>8 DEF RequestUninstall, CancelUninstall
  <2>2. IsOpen /\ ~app.busy
    BY <1>1, <1>8 DEF RequestUninstall, CancelUninstall, CanUninstall, CanChange
  <2>3. /\ app' \in Apps /\ app'.copy = app.copy /\ app'.shown = app.shown /\ app'.busy = app.busy
        /\ app'.action = app.action /\ app'.proc = app.proc
        /\ app'.error = app.error /\ app'.fresh = app.fresh
    BY <1>1, <2>1 DEF Apps
  <2>4. disk' = disk
    BY <2>1 DEF installerVars
  <2>5. app'.proc = 0
    BY <1>1, <2>2, <2>3
  <2>6. WindowInv'
    BY <1>1, <2>2, <2>3, <2>4, <2>5, WindowAtRest DEF ShownIsTrue, ContractAgrees, IsOpen
  <2>7. QED
    BY <2>1, <2>6, OnlyWindow
<1>9. QED
  BY <1>3, <1>4, <1>6, <1>7, <1>8

\* An operation that ends.
LEMMA EndedParts ==
    ASSUME NEW a \in Apps
    PROVE  LET b == Ended(a) IN
           /\ b \in Apps /\ ~b.busy /\ b.proc = 0 /\ b.copy = a.copy /\ b.confirming = a.confirming
           /\ b.error = a.error /\ b.fresh = a.fresh
BY DEF Ended, Apps

LEMMA FailedParts ==
    ASSUME NEW a \in Apps, NEW error \in ClientErrors \cup LifecycleErrors
    PROVE  LET b == Failed(a, error) IN
           /\ b \in Apps /\ ~b.busy /\ b.proc = 0 /\ b.copy = a.copy /\ b.confirming = a.confirming
           /\ b.error = error /\ b.shown = "failed"
<1> DEFINE e == Ended(a)
<1>1. e \in Apps /\ ~e.busy /\ e.proc = 0 /\ e.copy = a.copy /\ e.confirming = a.confirming
  BY EndedParts
<1>2. Failed(a, error) = [e EXCEPT !.shown = "failed", !.error = error]
  BY DEF Failed
<1> HIDE DEF e
<1>3. QED
  BY <1>1, <1>2 DEF Apps

\* An operation that has failed, for another reason than the contract.
LEMMA FailedKeeps ==
    ASSUME IInv, NEW error \in ClientErrors \cup LifecycleErrors, error # "invalidResponse",
           app.busy, app' = Failed(app, error)
    PROVE  WindowInv'
<1>1. app \in Apps /\ app.copy # NoHost /\ ~app.confirming
  BY DEF IInv, WindowInv, IsOpen
<1>2. /\ app' \in Apps /\ ~app'.busy /\ app'.proc = 0 /\ ~app'.confirming
      /\ app'.error = error /\ app'.shown = "failed"
  BY <1>1, FailedParts
<1>3. QED
  BY <1>2, WindowAtRest

LEMMA LaunchKeeps ==
    ASSUME IInv, Launch
    PROVE  IInv'
<1>1. app.busy /\ app.proc = 0
  BY DEF Launch
<1>2. /\ app \in Apps /\ app.action \in Managed /\ app.copy \in Copies /\ ~app.confirming
      /\ ShownIsTrue /\ ContractAgrees /\ IsOpen
  BY <1>1 DEF IInv, WindowInv, IsOpen, Apps
<1>3. CASE /\ Start(app.action, app.copy)
           /\ app' = [app EXCEPT !.proc = FreeSlot, !.fresh = TRUE]
           /\ Calm
  <2>1. app.action \in Kinds
    BY <1>2 DEF Kinds
  <2>2. /\ disk' = disk /\ FreeSlot \in Processes /\ proc[FreeSlot] = Idle
        /\ proc' = [proc EXCEPT ![FreeSlot] = Begin(app.action, app.copy)]
        /\ disk' \in Disks /\ calm' \in BOOLEAN /\ ProcessesInv' /\ CalmInv'
    BY <1>2, <1>3, <2>1, StartKeeps
  <2>3. proc \in [Processes -> {Idle} \cup Runs] /\ disk \in Disks
    BY DEF IInv, ProcessesInv
  <2> DEFINE q == Begin(app.action, app.copy)
  <2>4. q.kind = app.action /\ q.copy = app.copy /\ q.snapshot = NoSnapshot /\ q # Idle
    <3>1. q.kind = app.action /\ q.copy = app.copy /\ q.snapshot = NoSnapshot /\ q.pc # "none"
      BY <1>2, <2>1, <2>3, BeginIsFine
    <3>2. QED
      BY <3>1 DEF Idle
  <2>5. proc'[FreeSlot] = q
    BY <2>2, <2>3
  <2>6. /\ app' \in Apps /\ app'.proc = FreeSlot /\ app'.busy /\ app'.copy = app.copy
        /\ app'.action = app.action /\ app'.confirming = app.confirming /\ app'.error = app.error
    BY <1>1, <1>2, <1>3, <2>2 DEF Apps
  <2> HIDE DEF q
  <2>7. ShownIsTrue' /\ ContractAgrees'
    BY <1>2, <2>6 DEF ShownIsTrue, ContractAgrees
  <2>8. WindowInv'
    BY <1>2, <2>4, <2>5, <2>6, <2>7 DEF WindowInv, IsOpen
  <2>9. QED
    BY <2>2, <2>8 DEF IInv
<1>4. CASE app' = Failed(app, "launchFailed") /\ UNCHANGED <<installerVars, calm>>
  <2>1. "launchFailed" \in ClientErrors \cup LifecycleErrors /\ "launchFailed" # "invalidResponse"
    BY DEF ClientErrors
  <2>2. WindowInv'
    BY <1>1, <1>4, <2>1, FailedKeeps
  <2>3. QED
    BY <1>4, <2>2, OnlyWindow
<1>5. QED
  BY <1>3, <1>4 DEF Launch

\* The process the window waits for.
LEMMA Awaited ==
    ASSUME IInv, Waiting
    PROVE  /\ app.proc \in Processes /\ app.proc # 0 /\ app.busy
           /\ proc[app.proc] \in Runs /\ WellFormed(proc[app.proc])
           /\ proc[app.proc].kind = app.action /\ app.action \in Managed
           /\ proc[app.proc].copy = app.copy
<1>1. app.proc # 0 /\ app.busy
  BY DEF Waiting
<1>2. /\ app.proc \in Processes /\ proc[app.proc] # Idle /\ app.action \in Managed
      /\ proc[app.proc].kind = app.action /\ proc[app.proc].copy = app.copy
  BY <1>1 DEF IInv, WindowInv, Apps
<1>3. WellFormed(proc[app.proc])
  BY <1>2 DEF IInv, ProcessesInv
<1>4. QED
  BY <1>1, <1>2, <1>3 DEF WellFormed

LEMMA TimeOutKeeps ==
    ASSUME IInv, TimeOut
    PROVE  IInv'
<1>1. Waiting /\ app' = Failed(app, "timedOut") /\ Gone(app.proc) /\ calm' = calm
  BY DEF TimeOut
<1>2. app.proc \in Processes /\ app.busy
  BY <1>1, Awaited
<1>3. disk' \in Disks /\ calm' \in BOOLEAN /\ ProcessesInv' /\ CalmInv'
  BY <1>1, <1>2, GoneKeeps
<1>4. "timedOut" \in ClientErrors \cup LifecycleErrors /\ "timedOut" # "invalidResponse"
  BY DEF ClientErrors
<1>5. WindowInv'
  BY <1>1, <1>2, <1>4, FailedKeeps
<1>6. QED
  BY <1>3, <1>5 DEF IInv

\* The contract accepts the answer of a process that exits by itself.
LEMMA AnswerIsAccepted ==
    ASSUME NEW q \in Runs, WellFormed(q), q.pc = "exited", q.kind \in Managed, q.error # "killed"
    PROVE  /\ ValidResponse(Response(q))
           /\ q.error = "none" => q.snapshot \in Snapshots
           /\ q.error # "none" => q.error \in LifecycleErrors
<1>1. /\ Response(q).action = q.kind /\ Response(q).success = (q.error = "none")
      /\ Response(q).snapshot = q.snapshot /\ Response(q).error = q.error
  BY DEF Response
<1>2. /\ q.error = "none" <=> q.snapshot # NoSnapshot
      /\ q.snapshot # NoSnapshot => ValidSnapshot(q.snapshot)
      /\ q.error # "failed"
  BY DEF WellFormed
<1>3. ValidResponse(Response(q))
  BY <1>1, <1>2 DEF ValidResponse
<1>4. q.error \in ProcessErrors /\ q.snapshot \in {NoSnapshot} \cup Snapshots
  BY DEF Runs
<1>5. QED
  BY <1>2, <1>3, <1>4 DEF ProcessErrors

LEMMA FinishKeeps ==
    ASSUME IInv, Finish
    PROVE  IInv'
<1> DEFINE q == proc[app.proc]
           r == Response(q)
<1>1. Waiting /\ q.pc = "exited" /\ app' = Applied(app, r) /\ Gone(app.proc) /\ calm' = calm
  BY DEF Finish
<1>2. /\ app.proc \in Processes /\ app.proc # 0 /\ app.busy /\ q \in Runs /\ WellFormed(q)
      /\ q.kind = app.action /\ app.action \in Managed /\ q.copy = app.copy
  BY <1>1, Awaited
<1>3. disk' = disk /\ disk' \in Disks /\ calm' \in BOOLEAN /\ ProcessesInv' /\ CalmInv'
  BY <1>1, <1>2, GoneKeeps
<1>4. r.action = q.kind /\ r.success = (q.error = "none") /\ r.snapshot = q.snapshot /\ r.error = q.error
  BY DEF Response
<1>5. q.error # "killed" => /\ ValidResponse(r)
                            /\ q.error = "none" => q.snapshot \in Snapshots
                            /\ q.error # "none" => q.error \in LifecycleErrors
  BY <1>1, <1>2, AnswerIsAccepted
<1>6. WindowInv'
  <2>1. CASE q.error = "killed"
    <3>1. app' = Failed(app, "malformedResponse")
      BY <1>1, <1>4, <2>1 DEF Applied
    <3>2. "malformedResponse" \in ClientErrors \cup LifecycleErrors
          /\ "malformedResponse" # "invalidResponse"
      BY DEF ClientErrors
    <3>3. QED
      BY <1>2, <3>1, <3>2, FailedKeeps
  <2>2. CASE q.error \notin {"killed", "none"}
    <3>1. app' = Failed(app, q.error)
      BY <1>1, <1>2, <1>4, <1>5, <2>2 DEF Applied
    <3>2. q.error \in LifecycleErrors /\ q.error # "invalidResponse"
      BY <1>5, <2>2 DEF LifecycleErrors
    <3>3. QED
      BY <1>2, <3>1, <3>2, FailedKeeps
  <2>3. CASE q.error = "none"
    <3> DEFINE e == Ended(app)
               s == q.snapshot
    <3>1. app \in Apps /\ ~app.confirming /\ ContractAgrees /\ app.copy # NoHost
      BY <1>2 DEF IInv, WindowInv, IsOpen
    <3>2. /\ e \in Apps /\ ~e.busy /\ e.proc = 0 /\ e.copy = app.copy
          /\ e.confirming = app.confirming /\ e.error = app.error /\ e.fresh = app.fresh
      BY <3>1, EndedParts
    <3>3. app' = [e EXCEPT !.snapshot = s, !.shown = s.state]
      BY <1>1, <1>2, <1>4, <1>5, <2>3 DEF Applied
    <3>4. s \in Snapshots /\ s # NoSnapshot /\ s.state \in States
      BY <1>5, <2>3 DEF Snapshots, NoSnapshot, States
    <3>5. app.fresh => s.state = StateOf(disk, app.copy)
      BY <1>2, <3>4 DEF IInv, WindowInv
    <3> HIDE DEF e, s
    <3>6. /\ app' \in Apps /\ ~app'.busy /\ app'.proc = 0 /\ app'.copy = app.copy
          /\ ~app'.confirming /\ app'.error = app.error /\ app'.fresh = app.fresh
          /\ app'.shown = s.state
      BY <3>1, <3>2, <3>3, <3>4 DEF Apps
    <3>7. QED
      BY <1>3, <3>1, <3>5, <3>6, WindowAtRest DEF ContractAgrees
  <2>4. QED
    BY <2>1, <2>2, <2>3
<1>7. QED
  BY <1>3, <1>6 DEF IInv
------------------------------------------------------------------------------
(* The specification *)

LEMMA InitHolds ==
    ASSUME Init
    PROVE  IInv
<1>1. /\ disk \in InitialDisks /\ proc = [p \in Processes |-> Idle]
      /\ app = Opened(NoHost) /\ calm = TRUE
  BY DEF Init, InstallerInit, Closed
<1>2. disk \in Disks /\ HostsAreThere(disk)
  BY <1>1, InstallerAssumption
<1>3. ProcessesInv
  BY <1>1 DEF ProcessesInv
<1>4. ~Writing(Idle)
  BY DEF Writing, Idle
<1>5. CalmInv
  BY <1>1, <1>2, <1>4 DEF CalmInv
<1>6. /\ app \in Apps /\ app.copy = NoHost /\ app.proc = 0 /\ ~app.busy /\ ~app.confirming
      /\ app.error = "none"
  BY <1>1, ClosedParts
<1>7. WindowInv
  BY <1>6 DEF WindowInv, ShownIsTrue, ContractAgrees, IsOpen
<1>8. QED
  BY <1>1, <1>2, <1>3, <1>5, <1>7 DEF IInv

LEMMA StepHolds ==
    ASSUME IInv, [Next]_vars
    PROVE  IInv'
<1>1. CASE Next
  BY <1>1, ButtonsKeep, LaunchKeeps, FinishKeeps, TimeOutKeeps, ProcessKeeps, UnreadKeeps,
     ContributeKeeps, EditKeeps DEF Next
<1>2. CASE UNCHANGED vars
  <2>1. disk' = disk /\ proc' = proc /\ app' = app /\ calm' = calm
    BY <1>2 DEF vars
  <2>2. ProcessesInv' /\ CalmInv' /\ WindowInv'
    BY <2>1 DEF IInv, ProcessesInv, CalmInv, WindowInv, ShownIsTrue, ContractAgrees, IsOpen
  <2>3. QED
    BY <2>1, <2>2 DEF IInv
<1>3. QED
  BY <1>1, <1>2

\* The inductive invariant: each process is in a stage of its kind, an
\* undisturbed one has changed what its stage says and nothing else, and the
\* window waits for the process it has launched.
THEOREM Invariance == Spec => []IInv
<1>1. Init => IInv
  BY InitHolds
<1>2. IInv /\ [Next]_vars => IInv'
  BY StepHolds
<1>3. QED
  BY <1>1, <1>2, PTL DEF Spec

LEMMA TypesFollow == IInv => TypeOK
<1> SUFFICES ASSUME IInv PROVE TypeOK
  OBVIOUS
<1>1. ASSUME NEW p \in Processes, proc[p] # Idle
      PROVE  /\ proc[p].kind \in Kinds /\ proc[p].copy \in Copies /\ proc[p].i \in 0..3
             /\ Len(proc[p].began) <= 1
             /\ \A i \in DOMAIN proc[p].began : proc[p].began[i] \in Disks
  <2>1. proc[p] \in Runs /\ Len(proc[p].began) <= 1
    BY <1>1 DEF IInv, ProcessesInv, WellFormed
  <2>2. proc[p].began \in Seq(Disks)
    BY <2>1 DEF Runs
  <2>3. QED
    BY <2>1, <2>2 DEF Runs
<1>2. /\ disk \in Disks /\ calm \in BOOLEAN /\ app \in Apps
  BY DEF IInv, WindowInv
<1>3. /\ app.copy \in Copies \cup {NoHost} /\ app.proc \in Processes \cup {0}
      /\ app.shown \in {"loading", "notInstalled", "ready", "repairRequired", "failed"}
      /\ app.error \in {"none"} \cup ClientErrors \cup LifecycleErrors
  BY <1>2 DEF Apps, States
<1>4. QED
  BY <1>1, <1>2, <1>3 DEF TypeOK

\* The state of the installers and of the window is well typed, and while at
\* most one installer writes and nobody edits, no browser's manifest names a
\* copied host that is not there, wherever the installer is killed or fails.
THEOREM NothingDangles == Spec => []Inv
<1>1. IInv => Inv
  BY TypesFollow DEF Inv, NoDanglingManifest, IInv, CalmInv
<1>2. QED
  BY <1>1, Invariance, PTL

\* An undisturbed installation or removal is done whole, or is refused and has
\* changed nothing, and the disk it began with decides which.
THEOREM WholeOrRefused == Spec => []AllOrNothing
<1>1. IInv => AllOrNothing
  <2> SUFFICES ASSUME IInv, NEW p \in Processes, proc[p].pc = "exited",
                      NEW i \in DOMAIN proc[p].began
               PROVE  LET q == proc[p]
                          before == q.began[i]
                          possible == IF q.kind = "install" THEN Installable(before, q.copy)
                                                            ELSE Removable(before)
                          done == IF q.kind = "install" THEN Registered(before, q.copy)
                                                        ELSE Unregistered(before)
                      IN /\ q.error = "none" <=> possible
                         /\ disk = IF possible THEN done ELSE before
    BY DEF AllOrNothing
  <2>1. proc[p] \in Runs /\ WellFormed(proc[p]) /\ Undisturbed(proc[p], disk)
    BY IsRun DEF IInv, Good
  <2>2. proc[p].began \in Seq(Disks) /\ Len(proc[p].began) <= 1
    BY <2>1 DEF Runs, WellFormed
  <2>3. i = 1 /\ proc[p].began # <<>>
    BY <2>2
  <2>4. QED
    BY <2>1, <2>3 DEF Undisturbed, Possible, Done
<1>2. QED
  BY <1>1, Invariance, PTL

\* What the window shows between operations is the state of the disk, as long
\* as only its own operations have changed it.
THEOREM WindowIsTrue == Spec => []ShownIsTrue
<1>1. IInv => ShownIsTrue
  BY DEF IInv, WindowInv
<1>2. QED
  BY <1>1, Invariance, PTL

\* Whatever is on the disk, the contract of the window accepts the answer of
\* an installer that exits.
THEOREM AnswersAreAccepted == Spec => []ContractAgrees
<1>1. IInv => ContractAgrees
  BY DEF IInv, WindowInv
<1>2. QED
  BY <1>1, Invariance, PTL
=============================================================================
