---------------------------- MODULE SafariBridge ----------------------------
(***************************************************************************)
(* The native half of the Safari extension: SafariNativeBridge with its    *)
(* snapshot cache, its folder authorizations and the embedded Go helper,   *)
(* of which it runs one process per read.                                  *)
(*                                                                         *)
(* Safari delivers requests in any order; the handler runs them one by one *)
(* on the main queue.  Within one request the files may still be edited:   *)
(* a metadata request looks at the file's fingerprint, lets the helper     *)
(* read it (at one moment), and looks at the fingerprint again. While the  *)
(* folder panel is open nothing else is handled.                           *)
(*                                                                         *)
(* A fingerprint (device, inode, size, times) tells one writing of a file  *)
(* from any other; it is the number of the writing.  A SHA-256 digest is   *)
(* the content itself.                                                     *)
(***************************************************************************)
EXTENDS Integers, Sequences, FiniteSets, SequencesExt

CONSTANTS
    Files, Folders,
    FolderOf,        \* the immediate folder of each file
    Inside,          \* the files in each folder, at any depth
    FirstContent,    \* what each file holds first
    EarlierGrants,   \* lists of bookmarks stored in earlier times
    Contents, Gone,
    Size,            \* bytes of each content
    RawChunkBytes,
    MaximumEntries, MaximumBytes, MaximumBookmarks,
    NoRequest,       \* nothing is being handled
    Never,           \* a folder that was never granted
    MaxWrites, MaxDeletions, MaxFaults    \* bounds of the model

ASSUME FolderAssumption ==
    /\ FolderOf \in [Files -> Folders]
    /\ Inside \in [Folders -> SUBSET Files]
    /\ \A f \in Files : f \in Inside[FolderOf[f]]

ASSUME ContentAssumption ==
    /\ FirstContent \in [Files -> Contents]
    /\ Gone \notin Contents
    /\ Size \in [Contents -> Nat]

ASSUME LimitAssumption ==
    /\ RawChunkBytes \in Nat \ {0}
    /\ MaximumEntries \in Nat
    /\ MaximumBytes \in Nat
    /\ MaximumBookmarks \in Nat \ {0}

\* What earlier times stored, they stored with saveAuthorization.
ASSUME GrantAssumption ==
    /\ \A G \in SUBSET Folders : Never # G
    /\ \A s \in EarlierGrants : /\ s \in Seq(Folders)
                               /\ Len(s) <= MaximumBookmarks
                               /\ \A i, j \in DOMAIN s : s[i] = s[j] => i = j

\* There are finitely many files to write, and they are written so many times.
ASSUME BoundAssumption == IsFiniteSet(Files) /\ MaxWrites \in Nat

NoFingerprint == 0

VARIABLES
    disk,        \* what each file has held, the present content last
    gone,        \* folders that were deleted
    bookmarks,   \* the stored grants, least recently used first (they persist)
    entries,     \* the snapshot cache, least recently used first
    handling,    \* the request on the main queue and how far it is
    queue,       \* requests not handled yet
    replies,     \* responses on their way to the extension
    recent,      \* history: folders used since each granted folder was
    faults       \* restarts and time-outs so far

Fingerprints == 0 .. (MaxWrites + Cardinality(Files))
Entries == [file : Files, content : Contents, fingerprint : Fingerprints]
Phases == {"idle", "reading", "read", "panel"}

Idle == [phase |-> "idle", request |-> NoRequest, before |-> NoFingerprint, content |-> Gone]

-----------------------------------------------------------------------------
(* The file system *)

Content(f) == Last(disk[f])

SafariFileFingerprint(f) == IF Content(f) = Gone THEN NoFingerprint ELSE Len(disk[f])

ChunkCount(c) == (Size[c] + RawChunkBytes - 1) \div RawChunkBytes

-----------------------------------------------------------------------------
(* SafariSnapshotCache *)

At(es, f) == {i \in DOMAIN es : es[i].file = f}

Without(es, f) ==
    IF At(es, f) = {} THEN es ELSE RemoveAt(es, CHOOSE i \in At(es, f) : TRUE)

\* snapshot(for:...): the entry found becomes the most recently used one.
Used(i) == Append(RemoveAt(entries, i), entries[i])

TotalBytes(es) ==
    LET sum[n \in 0..Len(es)] == IF n = 0 THEN 0 ELSE sum[n - 1] + Size[es[n].content]
    IN sum[Len(es)]

\* evictIfNeeded: as many of the least recently used entries as it takes.
Fits(es) == Len(es) <= MaximumEntries /\ TotalBytes(es) <= MaximumBytes
Evicted(es) ==
    LET rest(n) == SubSeq(es, n + 1, Len(es))
    IN rest(CHOOSE n \in 0..Len(es) : Fits(rest(n)) /\ \A k \in 0..(n - 1) : ~Fits(rest(k)))

\* store
Stored(f, c, fingerprint) ==
    IF Size[c] > MaximumBytes THEN Without(entries, f)
    ELSE Evicted(Append(Without(entries, f),
                        [file |-> f, content |-> c, fingerprint |-> fingerprint]))

-----------------------------------------------------------------------------
(* FolderAuthorizationStore *)

\* Places of the bookmarks that resolve and whose folder contains the file.
Covering(f) == {i \in DOMAIN bookmarks : bookmarks[i] \notin gone /\ f \in Inside[bookmarks[i]]}

Authorized(f) == Covering(f) # {}

FirstCovering(f) == CHOOSE i \in Covering(f) : \A j \in Covering(f) : i <= j

NoteUse(g) ==
    recent' = [h \in Folders |-> IF h = g THEN {}
                                 ELSE IF recent[h] = Never THEN Never
                                 ELSE recent[h] \cup {g}]

\* Mutant: the bookmark is not taken from its old place.
TouchBookmarkTwice(i) ==
    /\ bookmarks' = Append(bookmarks, bookmarks[i])
    /\ NoteUse(bookmarks[i])

\* Mutant: an access leaves the order of the bookmarks alone.
TouchBookmarkInPlace(i) ==
    /\ bookmarks' = bookmarks
    /\ NoteUse(bookmarks[i])

touchBookmark(i) ==
    /\ bookmarks' = Append(RemoveAt(bookmarks, i), bookmarks[i])
    /\ NoteUse(bookmarks[i])

\* The stored bookmarks s without those of the dropped folders, in their order.
Filtered(s, dropped) ==
    LET kept[n \in 0..Len(s)] ==
            IF n = 0 THEN << >>
            ELSE IF s[n] \in dropped THEN kept[n - 1] ELSE Append(kept[n - 1], s[n])
    IN kept[Len(s)]

\* The bookmarks that do not resolve go, and the folder's own moves to the end.
saveAuthorization(g) ==
    LET saved == Append(Filtered(bookmarks, gone \cup {g}), g)
        excess == IF Len(saved) > MaximumBookmarks THEN Len(saved) - MaximumBookmarks ELSE 0
    IN /\ bookmarks' = SubSeq(saved, excess + 1, Len(saved))
       /\ NoteUse(g)

-----------------------------------------------------------------------------
(* The handler of one request *)

Take(q, operation) ==
    /\ handling = Idle
    /\ q \in queue
    /\ q.operation = operation
    /\ queue' = queue \ {q}

Reply(q, code, c) == replies' = replies \cup {[request |-> q, code |-> code, content |-> c]}

\* What running the helper on the file may yield now: its present content, or
\* a failure (a time-out, a crash, output that is not accepted).
HelperFailure(f) == IF Content(f) = Gone THEN {"FILE_NOT_FOUND", "READ_FAILED"} ELSE {"READ_FAILED"}

\* withAuthorizedAccess without a usable bookmark
Refuse(q, operation) ==
    /\ Take(q, operation)
    /\ ~Authorized(q.file)
    /\ Reply(q, "AUTHORIZATION_REQUIRED", Gone)
    /\ UNCHANGED <<bookmarks, recent, entries, handling>>

\* withAuthorizedAccess with one
Access(q, operation) ==
    /\ Take(q, operation)
    /\ Authorized(q.file)
    /\ touchBookmark(FirstCovering(q.file))

\* The cached snapshot of the file as it is now.
Same(q) ==
    {i \in At(entries, q.file) : /\ entries[i].fingerprint # NoFingerprint
                                /\ entries[i].fingerprint = SafariFileFingerprint(q.file)}

readMetadataCached(q) ==
    /\ Access(q, "readMetadata")
    /\ \E i \in Same(q) :
          /\ entries' = Used(i)
          /\ Reply(q, "OK", entries[i].content)
    /\ UNCHANGED handling

readMetadata(q) ==
    /\ Access(q, "readMetadata")
    /\ Same(q) = {}
    /\ handling' = [phase |-> "reading", request |-> q,
                    before |-> SafariFileFingerprint(q.file), content |-> Gone]
    /\ UNCHANGED <<entries, replies>>

HelperReads ==
    /\ handling.phase = "reading"
    /\ LET q == handling.request IN
       \/ /\ Content(q.file) # Gone
          /\ handling' = [phase |-> "read", request |-> q,
                          before |-> handling.before, content |-> Content(q.file)]
          /\ UNCHANGED replies
       \/ /\ \E code \in HelperFailure(q.file) : Reply(q, code, Gone)
          /\ handling' = Idle
    /\ UNCHANGED <<bookmarks, recent, entries, queue>>

\* Mutant: the snapshot is filed under the fingerprint seen after the read.
StableFingerprintAfter(f, before, c) ==
    IF SafariFileFingerprint(f) # NoFingerprint THEN SafariFileFingerprint(f) ELSE NoFingerprint

\* The fingerprint, if the file was the same before and after the read.
StableFingerprint(f, before, c) ==
    IF /\ SafariFileFingerprint(f) = before
       /\ Content(f) # Gone
       /\ Size[Content(f)] = Size[c]
    THEN before ELSE NoFingerprint

StoreSnapshot ==
    /\ handling.phase = "read"
    /\ LET q == handling.request
           c == handling.content
       IN /\ entries' = Stored(q.file, c, StableFingerprint(q.file, handling.before, c))
          /\ Reply(q, "OK", c)
    /\ handling' = Idle
    /\ UNCHANGED <<bookmarks, recent, queue>>

WithDigest(q) == {i \in At(entries, q.file) : entries[i].content = q.digest}

readChunkCached(q) ==
    /\ Access(q, "readChunk")
    /\ \E i \in WithDigest(q) : entries' = Used(i)
    /\ Reply(q, "OK", q.digest)
    /\ UNCHANGED handling

\* The snapshot was evicted, replaced or lost: the helper reads the file again.
readChunk(q) ==
    /\ Access(q, "readChunk")
    /\ WithDigest(q) = {}
    /\ \/ /\ \E code \in HelperFailure(q.file) : Reply(q, code, Gone)
          /\ UNCHANGED entries
       \/ /\ Content(q.file) # Gone
          /\ Content(q.file) # q.digest
          /\ Reply(q, "FILE_CHANGED", Gone)
          /\ UNCHANGED entries
       \/ /\ Content(q.file) = q.digest
          /\ entries' = Stored(q.file, Content(q.file), NoFingerprint)
          /\ Reply(q, "OK", Content(q.file))
    /\ UNCHANGED handling

authorizeFolderMissing(q) ==
    /\ Take(q, "authorizeFolder")
    /\ FolderOf[q.file] \in gone
    /\ Reply(q, "AUTHORIZATION_TARGET_NOT_FOUND", Gone)
    /\ UNCHANGED <<bookmarks, recent, entries, handling>>

authorizeFolderGranted(q) ==
    /\ Access(q, "authorizeFolder")
    /\ FolderOf[q.file] \notin gone
    /\ Reply(q, "OK", Gone)
    /\ UNCHANGED <<entries, handling>>

authorizeFolder(q) ==
    /\ Take(q, "authorizeFolder")
    /\ FolderOf[q.file] \notin gone
    /\ ~Authorized(q.file)
    /\ handling' = [phase |-> "panel", request |-> q, before |-> NoFingerprint, content |-> Gone]
    /\ UNCHANGED <<bookmarks, recent, entries, replies>>

\* The panel accepts exactly the folder asked for.
Grant ==
    /\ handling.phase = "panel"
    /\ LET q == handling.request IN
       \/ /\ FolderOf[q.file] \notin gone
          /\ saveAuthorization(FolderOf[q.file])
          /\ Reply(q, "OK", Gone)
       \/ /\ Reply(q, "AUTHORIZATION_FAILED", Gone)
          /\ UNCHANGED <<bookmarks, recent>>
    /\ handling' = Idle
    /\ UNCHANGED <<entries, queue>>

Cancel ==
    /\ handling.phase = "panel"
    /\ Reply(handling.request, "AUTHORIZATION_CANCELLED", Gone)
    /\ handling' = Idle
    /\ UNCHANGED <<bookmarks, recent, entries, queue>>

Handle(q) ==
    \/ Refuse(q, "readMetadata")
    \/ readMetadataCached(q)
    \/ readMetadata(q)
    \/ Refuse(q, "readChunk")
    \/ readChunkCached(q)
    \/ readChunk(q)
    \/ authorizeFolderMissing(q)
    \/ authorizeFolderGranted(q)
    \/ authorizeFolder(q)

\* removeExpired, at the latest when the cache is used next.
Expire ==
    /\ \E i \in DOMAIN entries : entries' = RemoveAt(entries, i)
    /\ UNCHANGED <<bookmarks, recent, handling, queue, replies>>

\* Safari ends the extension's native process: the grants persist, the cache
\* does not, and the requests it had fail.
Restart ==
    /\ faults < MaxFaults
    /\ faults' = faults + 1
    /\ entries' = << >>
    /\ handling' = Idle
    /\ queue' = {}
    /\ LET open == queue \cup ({handling.request} \ {NoRequest})
           rejected(q) == [request |-> q, code |-> "REJECTED", content |-> Gone]
       IN replies' = replies \cup {rejected(q) : q \in open}
    /\ UNCHANGED <<disk, gone, bookmarks, recent>>

-----------------------------------------------------------------------------
(* The user's editor and Finder *)

\* The writings so far, as pairs of a file and a number.
Writes == {w \in Files \X (1..MaxWrites) : w[2] < Len(disk[w[1]])}

Write(f, c) ==
    /\ FolderOf[f] \notin gone
    /\ Cardinality(Writes) < MaxWrites
    /\ disk' = [disk EXCEPT ![f] = Append(@, c)]
    /\ UNCHANGED <<gone, bookmarks, recent, entries, handling, queue, replies, faults>>

DeleteFolder(g) ==
    /\ g \notin gone
    /\ Cardinality(gone) < MaxDeletions
    /\ Cardinality(Writes) < MaxWrites
    /\ gone' = gone \cup {g}
    /\ disk' = [f \in Files |-> IF FolderOf[f] = g THEN Append(disk[f], Gone) ELSE disk[f]]
    /\ UNCHANGED <<bookmarks, recent, entries, handling, queue, replies, faults>>

-----------------------------------------------------------------------------

Init ==
    /\ disk = [f \in Files |-> << FirstContent[f] >>]
    /\ gone = {}
    /\ bookmarks \in EarlierGrants
    /\ recent = [g \in Folders |->
                   IF g \in Range(bookmarks)
                   THEN {h \in Folders : \E i, j \in DOMAIN bookmarks :
                            i < j /\ bookmarks[i] = g /\ bookmarks[j] = h}
                   ELSE Never]
    /\ entries = << >>
    /\ handling = Idle
    /\ queue = {}
    /\ replies = {}
    /\ faults = 0

BridgeStep ==
    /\ \/ \E q \in queue : Handle(q)
       \/ HelperReads
       \/ StoreSnapshot
       \/ Grant
       \/ Cancel
       \/ Expire
    /\ UNCHANGED <<disk, gone, faults>>

Outside ==
    \/ \E f \in Files, c \in Contents \cup {Gone} : Write(f, c)
    \/ \E f \in Files : DeleteFolder(FolderOf[f])
    \/ Restart
=============================================================================
