----------------------------- MODULE SafariRead -----------------------------
(***************************************************************************)
(* Reads of local sources in Safari: SafariNativeClient over SafariBridge, *)
(* and the rule editor that asks for folder grants before it saves a rule. *)
(*                                                                         *)
(* A read asks for the metadata with the first chunk, then for all other   *)
(* chunks at once.  Every request has its own promise and its own timer;   *)
(* the first failure ends the attempt, and what its other requests are     *)
(* answered later is ignored.  FILE_CHANGED starts one second attempt.     *)
(***************************************************************************)
EXTENDS SafariBridge

CONSTANTS
    Readers,         \* calls of readFile
    Editors,         \* rules being saved
    Sources,         \* the JavaScript and CSS file of each such rule, at least one
    NoAnswer,
    MaxCalls         \* bound of the model

VARIABLES
    read,            \* progress of each call of readFile
    editor           \* progress of each call of saveRuleWithSafariAuthorization

vars == <<disk, gone, bookmarks, recent, entries, handling, queue, replies, faults,
          read, editor>>

Errors == {"AUTHORIZATION_REQUIRED", "READ_FAILED", "REJECTED", "NATIVE_TIMEOUT"}
Codes == {"OK", "FILE_NOT_FOUND", "FILE_CHANGED", "AUTHORIZATION_TARGET_NOT_FOUND",
          "AUTHORIZATION_FAILED", "AUTHORIZATION_CANCELLED"} \cup Errors

ASSUME ClientAssumption ==
    /\ Readers \cap Editors = {}
    /\ NoAnswer \notin Files \cup Contents \cup Codes
    /\ Codes \cap (Contents \cup {Gone}) = {}

ASSUME SourcesAssumption == Sources \in [Editors -> Seq(Files) \ {<< >>}]

Request(from, attempt, operation, f, digest, index) ==
    [from |-> from, attempt |-> attempt, operation |-> operation, file |-> f,
     digest |-> digest, index |-> index]

MetadataRequest(r, attempt, f) == Request(r, attempt, "readMetadata", f, Gone, 0)
ChunkRequest(r, attempt, f, c, i) == Request(r, attempt, "readChunk", f, c, i)
GrantRequest(e, n) == Request(e, n, "authorizeFolder", Sources[e][n], Gone, 0)

\* Chunks after the first one.
Remaining(c) == 1 .. (ChunkCount(c) - 1)

Requests ==
    {MetadataRequest(r, n, f) : r \in Readers, n \in 1..2, f \in Files}
    \cup {ChunkRequest(r, n, f, c, i) : r \in Readers, n \in 1..2, f \in Files, c \in Contents,
                                        i \in UNION {Remaining(d) : d \in Contents}}
    \cup UNION {{GrantRequest(e, n) : n \in DOMAIN Sources[e]} : e \in Editors}

Reads ==
    [state : {"idle", "metadata", "chunks", "done"},
     file : Files \cup {NoAnswer}, attempt : 0..2, began : Nat,
     digest : Contents \cup {Gone},
     chunks : SUBSET (Nat \X Contents),    \* index and content of each chunk received
     answer : Contents \cup Codes \cup {NoAnswer}]

TypeOK ==
    /\ disk \in [Files -> Seq(Contents \cup {Gone})]
    /\ gone \subseteq Folders
    /\ bookmarks \in Seq(Folders) /\ IsInjective(bookmarks)
    /\ recent \in [Folders -> (SUBSET Folders) \cup {Never}]
    /\ entries \in Seq(Entries)
    /\ handling \in [phase : Phases, request : Requests \cup {NoRequest},
                     before : Fingerprints, content : Contents \cup {Gone}]
    /\ queue \subseteq Requests
    /\ replies \subseteq [request : Requests, code : Codes, content : Contents \cup {Gone}]
    /\ read \in [Readers -> Reads]
    /\ editor \in [Editors -> [state : {"idle", "asking", "saved", "refused"}, at : Nat]]

MayCall ==
    Cardinality({r \in Readers : read[r].state # "idle"})
      + Cardinality({e \in Editors : editor[e].state # "idle"}) < MaxCalls

-----------------------------------------------------------------------------
(* SafariNativeClient *)

readFile(r, f) ==
    /\ MayCall
    /\ read[r].state = "idle"
    /\ read' = [read EXCEPT ![r] = [state |-> "metadata", file |-> f, attempt |-> 1,
                                    began |-> Len(disk[f]), digest |-> Gone, chunks |-> {},
                                    answer |-> NoAnswer]]
    /\ queue' = queue \cup {MetadataRequest(r, 1, f)}
    /\ UNCHANGED <<replies, editor, faults>>

Answer(r, a) == read' = [read EXCEPT ![r].state = "done", ![r].answer = a]

\* Mutant: a changed file is given up at once.
RetriesNever(r, code) == FALSE

\* readFile: one fresh attempt.
Retries(r, code) == code = "FILE_CHANGED" /\ read[r].attempt = 1

Fail(r, code) ==
    IF Retries(r, code)
    THEN /\ read' = [read EXCEPT ![r].state = "metadata", ![r].attempt = 2,
                                 ![r].digest = Gone, ![r].chunks = {}]
         /\ queue' = queue \cup {MetadataRequest(r, 2, read[r].file)}
    ELSE Answer(r, code) /\ UNCHANGED queue

\* The promise of the request is still awaited.
Awaited(q) ==
    /\ q.from \in Readers
    /\ read[q.from].attempt = q.attempt
    /\ \/ q.operation = "readMetadata" /\ read[q.from].state = "metadata"
       \/ q.operation = "readChunk" /\ read[q.from].state = "chunks"
          /\ ~\E c \in Contents : <<q.index, c>> \in read[q.from].chunks

\* The rest of readOnce when everything has arrived: the digest must fit.
Assemble(r, c, chunks) ==
    IF \A chunk \in chunks : chunk[2] = c
    THEN Answer(r, c) /\ UNCHANGED queue
    ELSE Fail(r, "FILE_CHANGED")

MetadataArrives(r, c) ==
    IF Remaining(c) = {} THEN Assemble(r, c, {})
    ELSE /\ read' = [read EXCEPT ![r].state = "chunks", ![r].digest = c]
         /\ queue' = queue \cup {ChunkRequest(r, read[r].attempt, read[r].file, c, i) :
                                   i \in Remaining(c)}

ChunkArrives(r, i, c) ==
    LET chunks == read[r].chunks \cup {<<i, c>>} IN
    IF Cardinality(chunks) = Cardinality(Remaining(read[r].digest))
    THEN Assemble(r, read[r].digest, chunks)
    ELSE /\ read' = [read EXCEPT ![r].chunks = chunks]
         /\ UNCHANGED queue

Deliver(p) ==
    /\ replies' = replies \ {p}
    /\ LET q == p.request IN
       IF ~Awaited(q) THEN UNCHANGED <<read, queue>>
       ELSE IF p.code # "OK" THEN Fail(q.from, p.code)
       ELSE IF q.operation = "readMetadata" THEN MetadataArrives(q.from, p.content)
       ELSE ChunkArrives(q.from, q.index, p.content)
    /\ UNCHANGED <<editor, faults>>

\* The timer of a request of the read fires.
Timeout(r) ==
    /\ faults < MaxFaults
    /\ faults' = faults + 1
    /\ read[r].state \in {"metadata", "chunks"}
    /\ Fail(r, "NATIVE_TIMEOUT")
    /\ UNCHANGED <<replies, editor>>

-----------------------------------------------------------------------------
(* saveRuleWithSafariAuthorization *)

Ask(e, n) ==
    /\ editor' = [editor EXCEPT ![e] = [state |-> "asking", at |-> n]]
    /\ queue' = queue \cup {GrantRequest(e, n)}

saveRule(e) ==
    /\ MayCall
    /\ editor[e].state = "idle"
    /\ Ask(e, 1)
    /\ UNCHANGED <<replies, read, faults>>

Granted(p) == p.code = "OK"

GrantAnswered(p) ==
    /\ replies' = replies \ {p}
    /\ LET e == p.request.from IN
       IF editor[e] # [state |-> "asking", at |-> p.request.attempt] THEN UNCHANGED <<editor, queue>>
       ELSE IF ~Granted(p)
            THEN editor' = [editor EXCEPT ![e].state = "refused"] /\ UNCHANGED queue
       ELSE IF editor[e].at < Len(Sources[e]) THEN Ask(e, editor[e].at + 1)
       ELSE editor' = [editor EXCEPT ![e].state = "saved"] /\ UNCHANGED queue
    /\ UNCHANGED <<read, faults>>

GrantTimeout(e) ==
    /\ faults < MaxFaults
    /\ faults' = faults + 1
    /\ editor[e].state = "asking"
    /\ editor' = [editor EXCEPT ![e].state = "refused"]
    /\ UNCHANGED <<queue, replies, read>>

-----------------------------------------------------------------------------

SafariInit ==
    /\ Init
    /\ read = [r \in Readers |-> [state |-> "idle", file |-> NoAnswer, attempt |-> 0, began |-> 0,
                                  digest |-> Gone, chunks |-> {}, answer |-> NoAnswer]]
    /\ editor = [e \in Editors |-> [state |-> "idle", at |-> 0]]

ExtensionStep ==
    /\ \/ \E r \in Readers, f \in Files : readFile(r, f)
       \/ \E p \in replies : IF p.request.from \in Readers THEN Deliver(p) ELSE GrantAnswered(p)
       \/ \E r \in Readers : Timeout(r)
       \/ \E e \in Editors : saveRule(e) \/ GrantTimeout(e)
    /\ UNCHANGED <<disk, gone, bookmarks, recent, entries, handling>>

Next ==
    \/ ExtensionStep
    \/ BridgeStep /\ UNCHANGED <<read, editor>>
    \/ Outside /\ UNCHANGED <<read, editor>>

Spec == SafariInit /\ [][Next]_vars

-----------------------------------------------------------------------------
(* Properties *)

\* A snapshot cached under a fingerprint is what the file held in the writing
\* of that fingerprint: the fingerprint was the same before and after the
\* helper read the file.
SnapshotsAreOfTheirWriting ==
    \A i \in DOMAIN entries : entries[i].fingerprint # NoFingerprint =>
        entries[i].content = disk[entries[i].file][entries[i].fingerprint]

\* Every read ends with one whole content its file had since the read began,
\* or an error; FILE_CHANGED means that one retry was not enough.
Promise == INSTANCE FileReads WITH
    reads <- [r \in Readers |-> [file |-> read[r].file, began |-> read[r].began,
                                 answer |-> read[r].answer]]
ReadsKeepTheirPromise == Promise!Spec

\* A grant is only lost with its folder, or after so many other folders were
\* used that it was the least recently used one above the limit.
GrantsLast ==
    \A g \in Folders \ gone :
        \/ recent[g] = Never
        \/ g \in Range(bookmarks)
        \/ Cardinality(recent[g]) >= MaximumBookmarks

\* A rule is saved only when every folder of its sources was granted.
SavedIsGranted ==
    \A e \in Editors : editor[e].state = "saved" =>
        \A n \in DOMAIN Sources[e] :
            \E g \in Folders : Sources[e][n] \in Inside[g] /\ recent[g] # Never

\* What a saved rule was granted stays granted while its folders are there and
\* in use: both of the above.
GrantsKept == GrantsLast /\ SavedIsGranted
=============================================================================
