# kode-injector: a verification project in TLA+

Kode Injector is a browser extension that injects the user's own local
JavaScript and CSS files into the pages of the sites they are configured for.
This directory models the parts of it where order matters: promises that
resolve late, callbacks that run after the state they were started from has
changed, a background that the browser may stop at any moment, a native process
at the other end of a port, and pages that act at the same time.

Sources are named from the root of the repository: `src/app/...` is the
extension, `native-host/...` the Go host and its installer, `safari/...` the
Swift bridge. In `PROJECT.json` the same paths begin with `src/`.

## 1. Inventory

| Component | State it keeps | Operations | Interacts with | What is hard | What makes it correct | Module |
|---|---|---|---|---|---|---|
| Rule source cache (`background/injection-source-cache.ts`) | the Map of snapshots and its byte counter, promises in flight, versions, epoch | resolve, invalidate, clear; callbacks of a refresh | rules service, source reader | a refresh that ends after the rule changed or the cache was cleared; shared promises; eviction | nothing older than the last invalidation is cached or answered; each generation is read once; limits hold; every page is answered | `SourceCache`, `FreshSources` |
| Rules service and persistence (`background/injections.ts`, migrations) | rules, blocklist, throttled write | add, update, toggle, remove, enable and disable rules and sites, init | storage, cache, message handler | throttle, failing writes, stop and restart, old data | storage is always one whole state; no change is forgotten; no flag of a file that is gone; cached means current | `RuleStore`, `DurableState` |
| Native host client and protocol (`background/native-host-client.ts`, `common/native-host-protocol.ts`) | the port, the pending map with timers, chunk assemblies | ping, readFile, disconnect, time-out, frames, end of the port | Go host | late and repeated frames, replaced ports, time-outs | a read is one whole version of its own file; no promise is lost | `NativeHostClient`, `NativeMessaging` |
| Native host, Go (`internal/protocol`, `internal/source`) | the request it answers | read a frame, read a file, write frames | the client | edits between reading and writing, end of input | same | `NativeHost` |
| Built-in demo launch (`background/demo-launch-service.ts`, `demo-launch.ts`) | the launch, restore promise, pending run; session storage | run, document request, getState, tab removed, invalidate | rules, settings, tabs, content script, storage | every await; restart with a launch stored; two clicks | the launch is the one last meant; one tab; no demo beside rules; no half demo | `DemoLaunch` |
| Settings service (`background/settings-service.ts`) | settings, chain of writes | setters, init | storage, everything that asks | queued writes that copy all settings; failures | no setting is lost; memory is what is stored | `Settings` |
| Local source access (`background/local-source-access.ts`, `common/local-source-access-method.ts`) | readiness, revision; the permission is the browser's | getState, methodChanged, markReadFailed; the transitions of both pages | settings, native client, permissions, options page, popup | stale probes, two pages, a popup that closes | only current evidence is shown; browser access leaves no read and no permission behind | `LocalAccess` |
| Source reader (`background/source-reader.ts`) | none | read | native client, fetch | the method changes during a read | its failures count for the method they were read with | in `LocalAccess`, `SourceCache` |
| Page injections (`execute-script.ts`, `content-script/index.ts`) | document token | request, script, style | rules service, tabs | navigation during each await, a second content script | code runs only in the document that asked, and is what the rules say | `PageInjections`; for the demo `DemoLaunch` |
| Options stores (`InjectionsStore.ts`, `DemoStore.ts`) and components | copies of rules, access and demo status; generations | load, edit, poll | message handler | stale answers, polls and resets, clicks before an answer | only the newest answer is shown | `ExtensionPages`, `DemoCard`, `LocalAccess` |
| Popup store (`popup/stores/SettingsStore.ts`) and components | popup data, pending flag | toggle, pause, browser access | message handler, tabs | closes at any moment; the tab moves on | what it saved it completes; the tab shows it after the reload | `ExtensionPages`, `LocalAccess` |
| Start-up and routing (`index.ts`, `message-handler.ts`, `message-readiness.ts`) | readiness promise | dispatch | all | messages before init; init that rejects; calls that await and calls that do not | no handler sees half-loaded state | in the modules of the services, and `ExtensionPages` |
| Safari client (`common/safari-native-client.ts`) | none between calls | readFile, authorizeFolder | bridge | file changes between chunks, time-outs | a read is one whole content of its time | `SafariRead`, `FileReads` |
| Safari bridge (`safari/native-bridge`) | snapshot cache, processes, bookmarks | metadata, chunk, authorize | Go host, user defaults | eviction between chunks, a file replaced while it is read, the limit of grants | a chunk belongs to the digest asked for, a cached snapshot to its fingerprint; a grant in use is kept | `SafariBridge` |
| Installer (`internal/install`, `cmd/kode-injector-installer`) | manifests of three browsers, the copied host | inspect, register, unregister, and a contributor's commands | macOS Helper, file system | a stop between two manifests, two installers at once | inspection tells the truth, a second run repairs, no manifest names a host that is gone | `NativeManifests`, `HostInstaller` |
| macOS Helper (`macos-helper`) | operation in progress, status, error | refresh, install, reinstall, remove | installer process | time-out and late answer, a window that closes | one operation at a time; what is shown is on the disk | `InstallerHelper` |
| Localization (`common/locale`, `i18n.ts`, `language-channel.ts`) | preference, locale, catalogs | load, choose, broadcast | settings, both pages | loads that overlap or fail | a page is in the language that was saved | `Localization`, `ExtensionPages` |
| Legacy update (`update-service.ts`), containing app, scripts | presentation, one-off work | | | | | not modelled (section 9) |

All of the extension's background is one JavaScript thread. A step of a model
is therefore what runs between two awaits, and the interleaving is that of
promise continuations, timers, messages and the other processes.

## 2. Plan

Order, the most important behaviour first; the modules are done, and so are the
proofs of all compositions.

1. `FreshSources` (abstract) and `SourceCache`, with the proofs in
   `SourceCacheProofs`.
2. `DurableState` (abstract) and `RuleStore`.
3. `NativeHost`, `NativeHostClient`, composed in `NativeMessaging`, which is
   checked against `FreshSources` as well.
4. `DemoLaunch`.
5. `Settings` and `LocalAccess`, which extends it.
6. `FileReads` (abstract), `SafariBridge` and `SafariRead`, which extends it:
   client, bridge, snapshot cache, process and folder authorization.
7. `NativeManifests`, `HostInstaller` and `InstallerHelper`, each extending the
   one before: what is on the disk, the installer processes that change it, and
   the application on top.
8. `PageInjections`, `DemoCard` and `Localization`, composed in
   `ExtensionPages`: rules, pages, tab, card and language.
9. Proofs, a module for each composition: `SourceCacheProofs`,
   `RuleStoreProofs`, `NativeMessagingProofs`, `DemoLaunchProofs`,
   `LocalAccessProofs`, `SafariReadProofs`, `InstallerProofs` and
   `ExtensionPagesProofs`. Every property of the runs but those of liveness is
   proved (section 8).

Every module is written to be proved about: constants with named assumptions
where a proof needs them, one action per operation, no RECURSIVE operator.

## 3. The modules

### FreshSources, SourceCache
`FreshSources` says what a page may rely on: an answer consists of contents
that the files really had at some moment since the rule was last invalidated.
It knows nothing of caches. `SourceCache` is `InjectionSourceCache`: a page's
call of `resolve` is a hit (`ResolveHit`: the entry is touched, the page is
answered, a refresh starts behind it) or a miss (`ResolveMiss`); `Refresh` joins
the promise registered under the key of the rule, its version and its
descriptor, or starts a load. The two files of a load are read at different
moments (`ReadSource`), while `Edit` changes them; `Publish`, `Reject`,
`Finally` and `Return` are the callbacks of the promise, one microtask each;
`invalidate` and `clear` may come between any two of them. Contents are the
number of edits a file had. Since a request starts at most one load, a load is
named by its request.

### DurableState, RuleStore
`DurableState` is a memory and a saved copy: what a restart finds is a state
the memory was in as a whole, and time does not run backwards. A stop may take along what was
not on its way to storage yet: the history is cut (`Crash`) and goes on from what
is loaded. `RuleStore` has
each handler of `Injections` as one action, which includes its
`updateStorage()`. lodash's `throttle` is a window that is open or closed and a
flag for the trailing call (`Timer`); `storage.set` reads the state when it is
called and lands later (`WriteDone`, `WriteFailed`), one after the other. `Stop`
is the browser stopping the background at any moment; `load` is `init` with
migration and repair of what was stored, in the form any version may have left:
`migrateV1ToV2` adds the flags, `NormalRule` what is missing or spelt
differently, `Flagged` only the flags where the rest is right, and an entry that
is no rule (`Malformed`) is dropped. What the editor may hand in is a draft
(`Drafts`): `Normalized` is what the code makes of its site and paths, and
`validateInjectionInput` what it refuses. The source cache is abstracted to the
rule each entry was read for.

### NativeHost, NativeHostClient, NativeMessaging
The Go process takes one request at a time, reads the file whole and writes its
frames; it ends when its input closes or it crashes, and a faulty channel may
lose, change or repeat a frame. A host of another release refuses what it does
not understand (`Unsupported`). The client has a pending map, timers and one current
port; frames of any port it listened to, late time-outs, failed posts and ends
of replaced ports are all separate actions; `Valid` is what the schemas of
`parseNativeResponse` let through. `NativeMessaging` instantiates both
over shared channels and shows that the composition keeps the promise of
`FreshSources`, with a file in the place of a rule.

### DemoLaunch
The launch in memory, the session storage with its queue of writes, the restore
that every entry waits for, the shared promise of `run`, the checks of
`getState`, the requests of documents from the first check to the style, and
the tabs. What waits for the restore resumes before another event is handled,
as microtasks do (`Resume`). `meant`, a ghost, is the launch last set by any
instance of the background; `removed` holds the removals of tabs that wait for
the restore, and `lost`, a ghost, those that were unloaded before they were
handled. A launch's `startedAt` is the number of its run: two runs are not
assumed to fall in the same millisecond.

### Settings, LocalAccess
`Settings` is the chain of promises in `queueSettingsWrite`: a write is queued,
computes the settings it will store when the one before it has settled, lands,
and settles, which assigns the memory and resumes its caller. `LocalAccess`
extends it with the readiness state and its revision, the probes (`getState`:
the permission, then the ping), a read that waits at the host, and the two
pages that run `applyLocalSourceAccessMethod`: the options page requests the
permission before the native host is saved and removes it after browser access
is, the popup only the latter. `Settled` is the rest of the message handler
after its await: the selected method, `methodChanged`, and the reply. A
disconnect rejects what waits for the port, and what the rejected calls then do
belongs to the same step, because nothing but microtasks can come between. The
popup may be closed while it waits, its unsent steps are then lost; it opens
with what the background says then (`OpenPopup`); the options page is assumed to
stay open. Each page has a view of what it was told last, from which `Tone`,
`Offer`, `NeedsPermission` and `Selectable` derive what it offers, and a page
can do nothing it does not offer. No message is handled before the probe a
starting background makes, so `Unload` includes it. `EndRead` sorts the failures
of a read into those of the host as a whole, which change the readiness, and
those of a file (`isNativeHostWideFailure`).

### FileReads, SafariBridge, SafariRead
`FileReads` is the promise of a reader without a cache to invalidate: a read
ends with one content the file had while the read went on, or an error, of which
FILE_NOT_FOUND and FILE_CHANGED are promises themselves. `SafariBridge` is the
native half. The extension handler runs requests one by one on the main queue
(`handling`), in any order of arrival (`queue` is a set). A metadata request is
three steps, because the file may be written between them: the fingerprint and
the look-up in the cache (`readMetadata`), the helper's read (`HelperReads`), the
second fingerprint and the store (`StoreSnapshot`). A chunk request that finds
its digest is one step (`readChunkCached`), and so is one that runs the helper
again, since it looks at the file only there (`readChunk`). `touchBookmark` and
`saveAuthorization` keep the bookmarks in the order of their use (`Filtered` is
its loop over the stored ones, which drops those that no longer resolve);
`recent`, a ghost, holds the folders used since each was. A start finds any list
of grants that `saveAuthorization` may have stored in earlier times
(`GrantAssumption`), and the editor any nonempty list of sources per rule
(`SourcesAssumption`). A folder panel (`Grant`, `Cancel`)
keeps everything else waiting. `SafariRead` adds `SafariNativeClient`: `Deliver`
is the continuation of one answer, up to the next await, and `Fail` holds the
one retry; an answer to a request that nobody awaits any more changes nothing.
`saveRule` and `GrantAnswered` are `saveRuleWithSafariAuthorization`. A content
stands for the bytes, its digest and its size; a fingerprint is the number of
the writing, since it holds inode and change times. The helper is taken to read
a file at one moment, as it does when an editor replaces files.

### NativeManifests, HostInstaller, InstallerHelper
`NativeManifests` is what the installer reads on the disk: what is at the place
of each browser's manifest (nothing, something foreign, a damaged file, a
manifest naming a host and its origins), the host inside each copy of Kode
Injector Helper, and the host a contributor's installation copied. Its operators
are the pure part of `managed.go`: `InspectManaged`, the state derived from the
registrations, and when a copy may register at all (`Installable`: not from a
disk image, not through a link). `HostInstaller` runs the Go program as
processes that change one file per step. Each write may fail before or after it
took effect, a process may be killed between any two steps, others edit the
files, and two installers may run at once, for nothing in the code locks them
out. `InstallerHelper` is the Swift application: `Launch`, `Finish` and
`TimeOut` are the client, which kills an installer after 30 seconds and takes an
answer only if it passes `InstallerContract` (`ValidResponse`, with `DerivedHere`,
the state as Swift derives it a second time); the buttons are actions whose
guards are the view model's; the window may be closed at any time, and the
installer it started goes on. `fresh` and `calm` are ghosts: whether the disk
was changed behind the last operation, and whether two writers ever overlapped.

### PageInjections, DemoCard, Localization, ExtensionPages
`PageInjections` is the way of the rules into one tab: a content script marks
its document and asks (`StartScript`), the background settles what is to be read
(`HandleRequest`), reads, sends the JavaScript and answers with the CSS
(`Resolved`), and what arrives is compared with the mark of the document that is
shown then (`Execute`, `Receive`, `Insert`). `DemoCard` is `DemoStore`: runs,
polls and the generation that drops late answers. `Localization` is
`TranslationStore` with the loads of catalogs each change of the preference
starts. `ExtensionPages` composes them with the two pages: a click sends a call
and leaves the view as it is; the background handles a call when it is the
oldest of its page that has not been handled (`NextSent`), writes of settings
then going through the chain; answers come in the order of the calls within
each of the rules, the settings and the blocklist (`Lane`); each answer changes
the view of its page (`OptionsAfter`, `PopupAfter`), and the tab is reloaded.
Four things are simpler than in the code. A rule has both files; rules with one
are in `RuleStore`. There is one tab and one options page. The popup opens again
only when the calls of its last time are done with. What the source cache
answers is the subject of `SourceCache`; here a read succeeds or fails.

## 4. What the runs check

| Run | Bounds | Shows |
|---|---|---|
| SourceCache | one rule, one file, three pages, one edit, invalidation and clear | an entry is never stale (`EntriesCurrent`), a generation is read once (`NoDuplicateRefresh`), a refresh never replaces newer content (`NeverBackwards`), `FreshSources` is implemented (`AnswersFresh`), every page is answered (`EveryRequestAnswered`) |
| SourceCacheEviction | two rules, two files, two descriptors, two pages, one entry, three bytes, with symmetry | types, `EntriesCurrent`, and the limits with an exact byte counter (`CacheBounded`) |
| RuleStore | two rules, two sites, one site in an old form, five drafts of which two are valid, three changes, two writes under way; first starts from nothing, version 1, the current version (also with an entry that is no rule and one without a flag) and a newer one | `TypeOK`, `QuietIsSaved`, `NoStaleFlags`, `CachedAsTheRuleIs`, `DurableState` (`NeverTorn`), `EventuallySaved` |
| NativeMessaging | two requests, two ports, three files (empty to three chunks, one whose request is too large), one edit, one fault: a frame lost, changed or repeated, or a host of another release | `RequestsKept` (the types and `NoLostRequest`), `AnswerIsAhead`, `FreshSources` (`ReadsAreWhole`) |
| DemoLaunch | two clicks, two runs, two tabs, one document, one change, one unload, one failure | `LaunchIsKept` (the types, `LaunchIsMeant`, `StoredIsMeant`), `OneTabAtATime`, `DemoIsWhole` (with `AppliedTabIsOpen`: the tab is there unless its removal was lost by an unload), `NoDemoBesideRules` |
| DemoLaunchLiveness | one click, tab, document, change, unload and failure | `RunEnds`, `DocumentAnswered` |
| DemoLaunchWait | as small as the counterexample needs | a disagreement, see section 6 |
| LocalAccess | options page and popup, two selections, three probes, one Pause, one failure, one closed popup, one unload, of which probes and disturbances four together | `OnlyItsSetting`, `MemoryIsStored`, `NothingBehindSwitch` (the types, `EvidenceIsCurrent`, `NoReadBehindSwitch`, `WarnsOfSelected`), `NoEndlessChecking`, `ShownOnlyNewer`, `BrowserGivesUpPermission` |
| SafariRead | two calls among two reads and one saving of a rule with two folders, two files, contents of one and two chunks, two writings, one deleted folder, one time-out or restart, one cached snapshot, two grants, with symmetry of the readers | `TypeOK`, `ReadsKeepTheirPromise`, `SnapshotsAreOfTheirWriting`, `GrantsKept` (`GrantsLast`, `SavedIsGranted`) |
| InstallerHelper | two installed copies of which one is of an earlier release, and a disk image; four disks to begin with; three runs, two at once, one a contributor's; one failure, kill or edit | `AllOrNothing`, `Inv` (the types and `NoDanglingManifest`), `ShownIsTrue`, `ContractAgrees`, `OperationEnds` |
| ExtensionPages | two rules, two sites, three acts of the user (or late content scripts), two documents of two scripts, three runs or resets of the card with two polls, one failure, four locales of which the user chooses one or the browser's | `PageIsAsRuled`, `ViewIsTrue`, `Inv` (the types and `CardIsCurrent`) |
| LocalAccessClosed | as LocalAccess, without Pause, failures and unloads | a disagreement, see section 6 |

Each property of a passing run has a mutant in `PROJECT.json`: a definition of
the model changed as a plausible bug would change the code, under which TLC
finds the property violated. The mutants stand before the definitions they
change, marked `Mutant`. Type invariants are parts of a property that says
more, where one run checks both.

**Why the bounds are enough.** The hazards are about two overlapping operations
and one event between them. Three pages are the least number with which one load
is shared, outlived by a clear and followed by another under the same key; two
rules and one entry make every store an eviction; three changes fill a throttle
window and leave one for the next; two requests and two ports are a late answer
beside a new request, and an old port beside a new one; two clicks, two tabs and
a restart are needed for a run that resumes on a launch it did not set; two
selections, one of each page, interleave the two halves of a transition in every
way, and three probes are one that is overtaken by a second whose result a third
one decides; an installer interrupted by a kill, its repair and an inspection
are three runs; three acts are two clicks whose calls overlap and the one thing
that comes between, and two documents the one that asked and the one that is
there when the answer comes; the first document has its files when the model
starts, so that an act is not spent on it; two writings are the least after
which FILE_CHANGED may be final, and two reads over one cached snapshot evict
each other's between metadata and chunk. Counters are bounded by the `Max...`
constants in the guards of the actions that increase them; no other guard refers
to them. `LocaleChoice`, an assumption TLC evaluates in the run ExtensionPages,
compares `CheckLocale` with what it is to choose, for every language of up to
three parts.

**Stopping.** Users' actions are bounded, so every model comes to rest when its
bounds are used up and all calls are answered; `CHECK_DEADLOCK FALSE` is for
that. That nothing stops before is what the liveness properties and, where
fairness is not wanted, `AnswerIsAhead` and `NoEndlessChecking` are for.

**One constraint.** `StorageKeepsUp` of `MCDemoLaunch` leaves states with more
than a few queued session-storage calls unexplored; it is used for safety only.

## 5. Fairness

`SourceCache`: every read ends, because the readers time out (two seconds in
the client) or `fetch` settles, and microtasks run. `RuleStore`: timers fire and
the browser completes or fails the writes it was given; it may still stop the
background, and a user need not do anything. `DemoLaunch`: the browser answers
calls of `tabs`, `scripting` and storage, positively or not. No fairness is
assumed of users, edits, tabs, failures or the browser stopping the background.
`InstallerHelper`: the client starts the installer, its loop ends at the
deadline, and it takes an answer that is there; nothing is assumed of the
installer, which may hang. `NativeMessaging`, `LocalAccess`, `SafariRead` and
`ExtensionPages` are checked for safety only.

Storage calls of one background are assumed to be done in the order they were
made.

## 6. Disagreements found

- **DemoLaunchWait.** The comment on `getState` in `demo-launch-service.ts`
  says the bounded wait fails a launch that was never confirmed; the status is
  tested before an await, so that a launch applied during it is turned into
  "not confirmed".
- **LocalAccessClosed.** `DEVELOPMENT.md` says that switching back to browser
  access, also from the popup, removes the optional permission. The page does
  that itself after the background has saved the method: a popup closed in
  between leaves the permission granted.

Behaviour the models show that no document denies, or that a property has to
make an exception for (the name in brackets is that of the ghost or action):

- A page that joins a refresh started before an edit may still be given the old
  content at the reload after the next one, where the README of the extension
  speaks of the first reload only. `AnswersFresh` promises what the code gives:
  a content since the last invalidation.
- `toggleInjection` of the options page flips its view once per answer: a switch
  clicked twice before the first answer sends the same value twice and shows the
  opposite of what is saved (`twice`).
- `TranslationStore.setLocalePreference` has no generation: when loads for two
  locales overlap, the one that ends last decides what the page is rendered in,
  not the preference (`crossed`).
- A duplicate answered into a list that was emptied meanwhile does not reset the
  demo card, as a new rule does (`refilled`).
- The site switch of the popup acts on the tab as it is at the click, which may
  be on another site than the popup shows (`PopupSite`); and a popup that closes
  before its answer does not reload the tab (`ClosePopup`).
- `getPageInjections` settles what is to be read before it reads and does not
  look at the rules again (`current`).
- Cancelling the editor while it saves lets the save go on, and its end closes
  whichever editor is open then (`EditorSubmit`).
- An options page whose probe is overtaken by the popup's shows "checking" until
  it next has the focus (`ShownOnlyNewer` allows it, `NoEndlessChecking` speaks
  of the background only).
- Closing the window of the Helper leaves the installer running (`Quit`), so that
  two may write at once (`calm`).

## 7. What is proved

Each module of proofs belongs to one composition and proves what its runs check
on small instances, for all values of the constants, the bounds among them. The
only assumptions are those the models name and TLC evaluates. Every module has
an inductive invariant `IInv` (`Invariance`), one lemma per action that says the
action keeps it, and theorems that draw the checked properties from it. The
invariants were model-checked before they were proved.

| Module | Theorem | Property |
|---|---|---|
| `SourceCacheProofs` | `TypeCorrect` | `TypeOK` |
| | `NothingStaleIsCached` | `EntriesCurrent` |
| | `RefreshesAreShared` | `NoDuplicateRefresh` |
| | `TheCounterIsExact` | `CacheBounded` |
| | `EntriesMoveForward` | `NeverBackwards`, an action property |
| | `Implements` | `AnswersFresh`, the refinement of `FreshSources` |
| `RuleStoreProofs` | `TypeCorrect` | `TypeOK` |
| | `RestIsSaved` | `QuietIsSaved` |
| | `FlagsFollowPaths` | `NoStaleFlags` |
| | `CacheFollowsRules` | `CachedAsTheRuleIs` |
| | `Implements` | `NeverTorn`, the refinement of `DurableState` |
| `NativeMessagingProofs` | `NoRequestIsLost` | `RequestsKept` |
| | `TheEndIsAhead` | `AnswerIsAhead` |
| | `Implements` | `ReadsAreWhole`, the refinement of `FreshSources` |
| `DemoLaunchProofs` | `LaunchIsNeverLost` | `LaunchIsKept` |
| | `ClicksShareATab` | `OneTabAtATime` |
| | `AppliedIsWhole` | `DemoIsWhole` |
| | `RulesComeFirst` | `NoDemoBesideRules`, an action property |
| `LocalAccessProofs` | `WritesAreTheirOwn` | `OnlyItsSetting`, an action property |
| | `RestIsStored` | `MemoryIsStored` |
| | `SwitchIsABarrier` | `NothingBehindSwitch` |
| | `SomeProbeDecides` | `NoEndlessChecking` |
| | `NewestIsShown` | `ShownOnlyNewer`, an action property |
| | `PermissionIsGivenUp` | `BrowserGivesUpPermission` |
| `SafariReadProofs` | `TypeCorrect` | `TypeOK` |
| | `FingerprintsFit` | `SnapshotsAreOfTheirWriting` |
| | `GrantsAreKept` | `GrantsKept` |
| | `Implements` | `ReadsKeepTheirPromise`, the refinement of `FileReads` |
| `InstallerProofs` | `NothingDangles` | `Inv` |
| | `WholeOrRefused` | `AllOrNothing` |
| | `WindowIsTrue` | `ShownIsTrue` |
| | `AnswersAreAccepted` | `ContractAgrees` |
| `ExtensionPagesProofs` | `CardStaysCurrent` | `Inv` |
| | `TabShowsItsRules` | `PageIsAsRuled` |
| | `PagesShowWhatIs` | `ViewIsTrue` |
| | `LocaleFits` | what `CheckLocale` gives, for any language and locales |

### SourceCacheProofs
Assumed: the limits are natural numbers with at least one entry, descriptors
name known files, the constants that mark absence are distinct from data.

`EntriesCurrent` alone is not inductive: an entry is stored by a load that began
earlier, so the invariant has to say what a running load knows. `IInv` is
`TypeOK` and five parts. `SinceInv`: the versions of the disk a rule has been
told about are ones the disk has had. `EntriesInv`: the Map holds one entry per
rule, at most `MaximumEntries`, each fresh for its rule and descriptor.
`LoadsInv`: a load that has begun reading the present generation is registered,
and what it holds matches its descriptor. `InFlightInv`: a registered load is of
the present generation, no two have the same key, and if its rule's version is
still the present one, what it has read is fresh. `RequestsInv`: a waiting
request waits for a load that began. Lemmas about
sequences and partial sums (`WithoutMap`, `AppendMap`, `DropOldestMap`) carry
the Map's properties through touch, removal and eviction; `RefreshKeeps`,
`StoreKeeps`, `RemoveKeeps` and `SettleKeeps` do so for the pieces actions are
made of, and there is one lemma per action. `Implements` combines `IInv`
with one lemma per action that says which requests it answers and with what.

`CacheBounded` needs that the byte counter is the sum of the entries' lengths
through every touch, removal and eviction: the sum is the last value of a
recursive function of partial sums, and lemmas say what appending, removing one
and dropping the oldest do to it. `NeverBackwards` needs one fact more about
loads: the only load under a key that can still store has read nothing older
than the entry that stands there.

### RuleStoreProofs
Assumed: `DraftsAssumption` (drafts and hosts have their types, markers are
distinct from data) and `StorageAssumption` (what a first start may find is of a
form some version stored, and a file whose flag says "off" has a path).

The argument goes through the history `log`. `StoredInv` and `WritesInv`:
whatever is stored or on its way to storage is the state the log held at its
`rev`, and the revs never decrease from storage through the queue of writes to
the end of the log. `ReadyInv`: while the background runs, the log ends with the
memory, and if the throttle is open and no write is queued, what was saved last
is that memory. `StoppedInv` says what a stop leaves. From this a restart finds
a state of the log, which is `DurableState`. Flags are kept because every state
of the log is one of `GoodStates`, whatever was loaded.

### NativeMessagingProofs
Assumed: `ConstantsAssumption` (chunks are not empty, numbers are natural, every
version of a file has a size).

A request is taken by one host process once. `LostOK`: until then no frame bears
its number; `RequestOK`: from then on all frames that do are of the one version
its file had at that moment, and the assembly, which accepts a chunk only where
its index is the number of chunks it has, is always a beginning of that version.
Lost, repeated, late and foreign frames are thus harmless. `AheadOK` follows the
end of a pending request through the stages it may be at: in the channel, in the
host, among the frames, at the end of a port. `Implements` then says that a
request is answered only with the whole of the version read after it was made.

### DemoLaunchProofs
Assumed: `BoundsAssumption`, `NoneAssumption`.

`StorageOK`: the last write under way, or without one what is stored, is `meant`,
and nothing is asked for after a read whose result will be taken. `RunsOK`: a
busy run is the pending one and has the latest number. `LaunchesKnown`: every
launch known anywhere (memory, storage, queue, captured by a request) has an
earlier number than the busy run, so the launch it sets is mistaken for none of
them. `DocumentsOK`: what a request may rely on that captured the present
launch; from it no document is handed the demo after a custom rule was seen.

### LocalAccessProofs
Assumed: `PagesAssumption` of `LocalAccess`.

Three arguments. Along the chain of writes (`SettingsInv`): only the oldest write
has been computed, from the memory and the one setting it changes, so that what
is stored is the memory or that write. Along the revision (`ProbesInv`,
`ReadInv`, `CheckingInv`): a probe that is still the newest, and the read, began
after browser access was last selected, and while the state is "checking" such a
probe is under way. Along the permission (`PermissionInv`): as long as no call
failed and nothing was closed or unloaded, either the last write selects native
access, or the permission is gone, or a page is on its way to give it up.

### SafariReadProofs
Assumed: `FolderAssumption`, `ContentAssumption`, `LimitAssumption`,
`GrantAssumption` (grants of earlier times are what `saveAuthorization` stores),
`SourcesAssumption` (a rule to save has a source), `ClientAssumption` (readers
are no editors, codes no contents) and, for the types, `BoundAssumption`
(finitely many files, a bounded number of writings).

What a read may answer is decided long before it answers, and by others, so
`IInv` follows a content on its way. `ReadOK`: attempt n of a read began after
n - 1 writings, and the digest it collects chunks for was on disk since.
`RequestOK` and `ReplyOK`: a request or reply belongs to a read of that file; if
its attempt is the present one (`Live`), its digest is the read's, a content it
carries was on disk during the attempt, and a FILE_CHANGED it carries was caused
by one more writing. `HandlingOK`: the content in the handler is of the first
fingerprint, should that still be the present one. `EntriesOK`: each cached
snapshot is of its fingerprint. Requests and replies of an attempt that was left
say nothing, which is why answers in any order do no harm. The lemmas come in
three layers: what a step of the bridge, a writing and a step of a read each
keep (`BridgeKeeps`, `DiskGrows`, `ReadKeeps`); one lemma per action; and
`DeliverCases`, the four things a reply may do to a read, which serves both the
invariant and the refinement.

`GrantsKept` is about the order of the grants: the stored list is in the order of
the folders' last uses, so a folder that fell out of a full list has an
injection from that list into the folders used since. The editor holds the
grants of the sources before the one it asks for.

`TypeOK` needs both invariants and `TInv`: every message is one of the requests
there are, and no file is written more often than the bound. For the latter an
injection leads from the writings of one file into those of all.

### InstallerProofs
Assumed: `ManifestAssumption` (places and identifiers are distinct, a copy has a
production ID) and `InstallerAssumption`, which says that no manifest on the disk
to begin with names a copied host that is not there.

A process is followed stage by stage (`WellFormed`, `Undisturbed`): while nothing
else wrote, the disk is the one it began with but for its own changes so far,
and the snapshot it reports is of that disk. As long as at most one process
writes and nothing is edited (`CalmInv`), what was changed names no copied host
that is to go. `WindowInv` carries a report into the window.

### ExtensionPagesProofs
Assumed: `PageAssumption` (the rules are numbered, there is at least one, and no
rule or site is `None`), `CardAssumption`, `LocaleAssumption` (the base locale is a
locale) and `PagesAssumption` (the languages offered are preferences).

Four arguments that hardly touch each other. The writes of the settings chain
and the calls being written are in step (`Lined`): a function leads from the
writes of a page to its calls, in their order and onto all of them, so that
`Writing` finds the call whose write has landed. The card that runs has one poll
or one request of its generation (`CardMoves`), which gives the equation of
`CardMovesOn`. The loads of a page are for the language it was told
(`LocaleInv`). The script that marked the document of the tab is followed by its
stages (`ScriptOK`): asked, being read (`files` is what the rules say), answered
(JavaScript that took effect or is on its way, and the styles of the answer, are
what the rules say), done (the styles that took effect are). That holds while
`current` says that nothing has come between and nothing is `Pending`, a reload
the popup has asked for or will ask for when its call is answered: a change from
the popup leaves `current` as it is just because such a reload follows.

`ViewIsTrue` has an invariant of its own beside `IInv`, `VInv`. While calls are
under way a page need not show what the background holds, and the background
takes calls up in their order but does not finish them in it (a setting waits
for its write, the others do not); the answers for one part of the view arrive
in the order of the calls. So `VInv` says where the answers will lead: a
function over the places of the line of calls gives what the page shows when all
those before it are answered (`Story`), it begins with what is shown and ends
with what is held, for each part of the view apart (the rules, the switch of the
extension, the switch of the site). A call that is handled changes the end of
the story, an answer that arrives moves its beginning, and both are the same
because what the answer makes of the view is what the call made of the
background. Two things need more. No setting is written before an earlier one of
its page (`WritesInOrder`). And the answer to the switch of a rule turns the row
over, whatever was asked for: that comes to the same only if each row of the
story is as on as its rule between two switches of it (`OnsAgree`), which a
second click before the first answer breaks (hence `~twice`). In the popup,
rules and site are those of the page in the tab (`OfSite`); what breaks the
story from outside, another page's change or the tab leaving the site, is what
sets `behind`. `LanguagesAre`: whatever is on its way to a page ends with the
saved language. TLC checked the parts of `VInv` on the run's instance before
they were proved.

`LocaleFits` stands by itself: it states for all languages and locales what the
evaluation `LocaleChoice` of `MCExtensionPages` tries on all languages of up to
three of nine parts.

## 8. What is only model-checked

- Liveness under fairness is out of the prover's reach: `EveryRequestAnswered`,
  `EventuallySaved`, `RunEnds`, `DocumentAnswered`, `OperationEnds`.

## 9. What is not modelled

- On the options page: file issues (`getFileIssues` and `refreshFileIssues`,
  which change no rule), and the editor opened by a link from the popup. Several
  options pages, and tabs the extension does not reload.
- The installer on Windows and Linux, the limits of the size of a manifest and
  of an installer's output, and the contributor's `install` without development
  IDs, which writes what `development` writes for fewer origins.
- In Safari: `ping`, which changes nothing; the refreshing of a stale bookmark,
  which keeps its folder; folders that are moved or made again; a file written
  in place while the helper reads it (listed as a hazard).
- The update from version 0.6.0: one execution in the life of an installation.
- The look-up of a message in its catalog, the rendering of components and the
  window of the containing app: presentation.
- URL parsing, hashing, base64 and the schemas of fields no property tells
  apart. A frame that fails validation is one that is ignored.
- Loading the options page during a switch of the popup; closing the options
  page during a transition; the repair of invalid stored settings.
- Build, packaging and release scripts.

The hazards in `PROJECT.json` that no property covers say why.
