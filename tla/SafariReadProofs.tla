-------------------------- MODULE SafariReadProofs --------------------------
(***************************************************************************)
(* Proofs about SafariRead, for any files, readers, editors, contents and  *)
(* limits: a read ends with one whole content the file had since the read  *)
(* began, and with FILE_CHANGED only after two writings of the file.       *)
(*                                                                         *)
(* The inductive invariant follows a content from the disk to the reader.  *)
(* A request or reply is live while the attempt it belongs to is the       *)
(* present one of its read.  Attempt n begins after at least n - 1         *)
(* writings, and every content that is under way in a live reply, in the   *)
(* handler or in the digest of a live request was on disk at or after that *)
(* point.                                                                  *)
(*                                                                         *)
(* The grants: the stored bookmarks are in the order of their last uses,   *)
(* so that a folder that drops out of a full list was followed by as many  *)
(* others as the list holds; and an editor that asks for the grant of one  *)
(* source has those of the sources before it.                              *)
(*                                                                         *)
(* The types come last: a message is one of the requests there are, and a  *)
(* fingerprint counts writings, of which there are as many as the bound    *)
(* lets there be.                                                          *)
(***************************************************************************)
EXTENDS SafariRead, SequenceTheorems, FiniteSetTheorems, WellFoundedInduction, TLAPS

-----------------------------------------------------------------------------
(* The inductive invariant *)

DiskOK == disk \in [Files -> Seq(Contents \cup {Gone})]
          /\ \A f \in Files : Len(disk[f]) >= 1

ReadsTyped == read \in [Readers -> Reads]

\* The read's file has held c at or after writing n since the read began.
HeldFrom(r, n, c) ==
    \E i \in Nat : /\ read[r].began + n <= i
                   /\ i <= Len(disk[read[r].file])
                   /\ disk[read[r].file][i] = c

\* The same for the present attempt of the read.
Had(r, c) == HeldFrom(r, read[r].attempt - 1, c)

ReadOK(r) ==
    /\ read[r].state = "idle" =>
          read[r].file = NoAnswer /\ read[r].began = 0 /\ read[r].answer = NoAnswer
    /\ read[r].state # "idle" =>
          /\ read[r].file \in Files
          /\ read[r].began >= 1
          /\ read[r].attempt \in {1, 2}
          /\ read[r].began + read[r].attempt - 1 <= Len(disk[read[r].file])
    /\ read[r].state \in {"metadata", "chunks"} => read[r].answer = NoAnswer
    /\ read[r].state = "metadata" => read[r].chunks = {} /\ read[r].digest = Gone
    /\ read[r].state = "chunks" =>
          /\ read[r].digest \in Contents
          /\ Had(r, read[r].digest)
          /\ \A chunk \in read[r].chunks : chunk[2] = read[r].digest

Live(q) == read[q.from].attempt = q.attempt

RequestOK(q) ==
    IF q.from \in Readers
    THEN /\ q.operation \in {"readMetadata", "readChunk"}
         /\ q.file \in Files
         /\ q.file = read[q.from].file
         /\ q.index \in Nat
         /\ q.attempt \in {1, 2}
         /\ q.attempt <= read[q.from].attempt
         /\ q.operation = "readChunk" =>
               /\ q.digest \in Contents
               /\ Live(q) => q.digest = read[q.from].digest /\ Had(q.from, q.digest)
    ELSE q.operation = "authorizeFolder"

ReplyOK(p) ==
    LET q == p.request IN
    /\ RequestOK(q)
    /\ q.from \in Readers =>
          /\ p.code \in Errors \cup {"OK", "FILE_NOT_FOUND", "FILE_CHANGED"}
          /\ p.code = "OK" /\ q.operation = "readMetadata" =>
                p.content \in Contents /\ (Live(q) => Had(q.from, p.content))
          /\ p.code = "OK" /\ q.operation = "readChunk" => p.content = q.digest
          /\ p.code = "FILE_NOT_FOUND" => HeldFrom(q.from, 0, Gone)
          /\ p.code = "FILE_CHANGED" /\ Live(q) =>
                read[q.from].began + q.attempt <= Len(disk[q.file])

HandlingOK ==
    LET q == handling.request IN
    /\ handling.phase \in Phases
    /\ handling.phase = "idle" => handling = Idle
    /\ handling.phase # "idle" => RequestOK(q)
    /\ handling.phase = "panel" => q.from \notin Readers
    /\ handling.phase \in {"reading", "read"} =>
          /\ q.from \in Readers
          /\ q.operation = "readMetadata"
          /\ handling.before \in Nat
          /\ handling.before <= Len(disk[q.file])
    /\ handling.phase = "read" =>
          /\ handling.content \in Contents
          /\ Live(q) => Had(q.from, handling.content)
          /\ handling.before = Len(disk[q.file]) =>
                handling.content = disk[q.file][handling.before]

\* Snapshots of files that are, under a fingerprint, of that writing.
GoodEntries ==
    {en \in [file : Files, content : Contents, fingerprint : Nat] :
       /\ en.fingerprint <= Len(disk[en.file])
       /\ en.fingerprint # NoFingerprint => en.content = disk[en.file][en.fingerprint]}

EntriesOK == entries \in Seq(GoodEntries)

IInv ==
    /\ DiskOK
    /\ ReadsTyped
    /\ \A r \in Readers : ReadOK(r)
    /\ \A q \in queue : RequestOK(q)
    /\ \A p \in replies : ReplyOK(p)
    /\ HandlingOK
    /\ EntriesOK

-----------------------------------------------------------------------------
(* Sequences of entries *)

\* A nonempty set of naturals has a least element.
LEMMA LeastNat ==
  ASSUME NEW T, T \subseteq Nat, T # {}
  PROVE  \E n \in T : \A k \in T : n <= k
<1> DEFINE R == {ss \in Nat \X Nat : ss[1] < ss[2]}
<1>1. IsWellFoundedOn(R, Nat)
  BY NatLessThanWellFounded DEF OpToRel
<1>2. PICK x \in T : \A y \in T : ~(<<y, x>> \in R)
  BY <1>1, WFMin
<1>3. \A a, b \in Nat : a < b => <<a, b>> \in R
  OBVIOUS
<1> HIDE DEF R
<1>4. \A y \in T : ~(y < x)
  BY <1>2, <1>3
<1> QED BY <1>4

\* A part of a sequence has the elements of the whole.
LEMMA SubSeqSeq ==
  ASSUME NEW S, NEW s \in Seq(S), NEW m \in Nat \ {0}, NEW n \in Nat, n <= Len(s)
  PROVE  SubSeq(s, m, n) \in Seq(S)
<1>1. \A i \in m..n : s[i] \in S
  BY LenProperties, ElementOfSeq
<1> QED BY <1>1, SubSeqProperties

\* Removing one element leaves a sequence over the same set.
LEMMA RemoveAtSeq ==
  ASSUME NEW S, NEW s \in Seq(S), NEW i \in DOMAIN s
  PROVE  RemoveAt(s, i) \in Seq(S) /\ s[i] \in S
<1>1. Len(s) \in Nat /\ i \in 1..Len(s)
  BY LenProperties
<1>2. SubSeq(s, 1, i - 1) \in Seq(S)
  BY <1>1, SubSeqSeq
<1>3. SubSeq(s, i + 1, Len(s)) \in Seq(S)
  BY <1>1, SubSeqSeq
<1>4. RemoveAt(s, i) \in Seq(S)
  BY <1>2, <1>3, ConcatProperties DEF RemoveAt
<1> QED BY <1>1, <1>4, ElementOfSeq

\* A sequence over a set is one over any larger set.
LEMMA WiderSeq ==
  ASSUME NEW S, NEW T, S \subseteq T, NEW s \in Seq(S)
  PROVE  s \in Seq(T)
<1>1. Len(s) \in Nat /\ s \in [1..Len(s) -> S]
  BY LenProperties
<1>2. s \in [1..Len(s) -> T]
  BY <1>1
<1> QED BY <1>1, <1>2

\* The snapshot cache only drops entries when it evicts.
LEMMA EvictedSeq ==
  ASSUME NEW S, NEW s \in Seq(S)
  PROVE  Evicted(s) \in Seq(S)
<1> DEFINE rest(n) == SubSeq(s, n + 1, Len(s))
           Enough == {n \in 0..Len(s) : Fits(rest(n))}
<1>1. Len(s) \in Nat
  BY LenProperties
<1>2. rest(Len(s)) = << >>
  BY <1>1, SubSeqEmpty
<1>3. TotalBytes(<< >>) = 0
  <2> DEFINE body(f) == [n \in 0..0 |-> IF n = 0 THEN 0 ELSE f[n - 1] + Size[<< >>[n].content]]
             sum == CHOOSE f : f = body(f)
  <2>1. [n \in 0..0 |-> 0] = body([n \in 0..0 |-> 0])
    OBVIOUS
  <2>2. sum = body(sum)
    BY <2>1
  <2>3. sum[0] = 0
    BY <2>2
  <2> QED BY <2>3 DEF TotalBytes
<1>4. Fits(<< >>)
  BY <1>3, LimitAssumption DEF Fits
<1>5. Enough # {} /\ Enough \subseteq Nat
  <2>1. Len(s) \in Enough
    <3>1. Fits(rest(Len(s)))
      BY <1>2, <1>4
    <3>2. Len(s) \in 0..Len(s)
      BY <1>1
    <3> HIDE DEF rest
    <3> QED BY <3>1, <3>2
  <2>2. Enough \subseteq Nat
    BY <1>1
  <2> QED BY <2>1, <2>2
<1>6. PICK n \in Enough : \A k \in Enough : n <= k
  <2> HIDE DEF Enough
  <2> QED BY <1>5, LeastNat
<1> DEFINE Choice(n_1) == Fits(rest(n_1)) /\ \A k \in 0..(n_1 - 1) : ~Fits(rest(k))
<1>7. n \in 0..Len(s) /\ Choice(n)
  <2>1. ASSUME NEW k \in 0..(n - 1), Fits(rest(k)) PROVE FALSE
    <3>1. k \in Enough
      BY <2>1, <1>1
    <3> QED BY <3>1, <1>6, <1>1
  <2> QED BY <2>1, <1>6
<1> DEFINE m == CHOOSE m_1 \in 0..Len(s) : Choice(m_1)
<1>8. m \in 0..Len(s)
  <2> HIDE DEF Choice
  <2> QED BY <1>7
<1>9. Evicted(s) = rest(m)
  BY DEF Evicted
<1> HIDE DEF m
<1>10. m + 1 \in Nat \ {0}
  BY <1>8
<1> QED BY <1>1, <1>9, <1>10, SubSeqSeq

\* SafariSnapshotCache.store
LEMMA StoredSeq ==
  ASSUME EntriesOK, NEW f, NEW c, NEW fingerprint,
         [file |-> f, content |-> c, fingerprint |-> fingerprint] \in GoodEntries
  PROVE  Stored(f, c, fingerprint) \in Seq(GoodEntries)
<1>1. Without(entries, f) \in Seq(GoodEntries)
  BY RemoveAtSeq DEF EntriesOK, Without, At
<1>2. Append(Without(entries, f), [file |-> f, content |-> c, fingerprint |-> fingerprint])
        \in Seq(GoodEntries)
  BY <1>1, AppendProperties
<1> QED BY <1>1, <1>2, EvictedSeq DEF Stored

\* A look-up that succeeds only moves an entry.
LEMMA UsedSeq ==
  ASSUME EntriesOK, NEW i \in DOMAIN entries
  PROVE  Used(i) \in Seq(GoodEntries) /\ entries[i] \in GoodEntries
<1>1. RemoveAt(entries, i) \in Seq(GoodEntries) /\ entries[i] \in GoodEntries
  BY RemoveAtSeq DEF EntriesOK
<1> QED BY <1>1, AppendProperties DEF Used

-----------------------------------------------------------------------------
(* What keeps the parts of the invariant *)

\* Only a read under way has requests.
LEMMA RequestsOfReads ==
  ASSUME IInv, NEW q, RequestOK(q), q.from \in Readers
  PROVE  /\ read[q.from].state # "idle"
         /\ q.file = read[q.from].file
         /\ q.file \in Files
         /\ read[q.from].began \in Nat \ {0}
         /\ read[q.from].attempt \in {1, 2}
         /\ q.attempt \in {1, 2}
         /\ read[q.from].began + read[q.from].attempt - 1 <= Len(disk[q.file])
         /\ Len(disk[q.file]) \in Nat \ {0}
<1>1. read[q.from] \in Reads /\ ReadOK(q.from)
  BY DEF IInv, ReadsTyped
<1>2. q.file \in Files /\ q.file = read[q.from].file /\ q.attempt \in {1, 2}
  BY DEF RequestOK
<1>3. read[q.from].state # "idle"
  BY <1>1, <1>2, ClientAssumption DEF ReadOK
<1>4. Len(disk[q.file]) \in Nat \ {0}
  BY <1>2, LenProperties DEF IInv, DiskOK
<1> QED BY <1>1, <1>2, <1>3, <1>4 DEF ReadOK, Reads

\* The present content of the file of a read is one of its present attempt.
LEMMA CurrentHad ==
  ASSUME IInv, NEW q, RequestOK(q), q.from \in Readers
  PROVE  /\ Had(q.from, Content(q.file))
         /\ HeldFrom(q.from, 0, Content(q.file))
         /\ Content(q.file) = disk[q.file][Len(disk[q.file])]
         /\ Content(q.file) \in Contents \cup {Gone}
         /\ SafariFileFingerprint(q.file) \in Nat
         /\ SafariFileFingerprint(q.file) <= Len(disk[q.file])
<1>1. /\ q.file = read[q.from].file
      /\ q.file \in Files
      /\ read[q.from].began \in Nat \ {0}
      /\ read[q.from].attempt \in {1, 2}
      /\ read[q.from].began + read[q.from].attempt - 1 <= Len(disk[q.file])
      /\ Len(disk[q.file]) \in Nat \ {0}
  BY RequestsOfReads
<1>2. Content(q.file) = disk[q.file][Len(disk[q.file])]
  BY DEF Content, Last
<1>3. Content(q.file) \in Contents \cup {Gone}
  BY <1>1, <1>2, ElementOfSeq DEF IInv, DiskOK
<1>4. Had(q.from, Content(q.file)) /\ HeldFrom(q.from, 0, Content(q.file))
  BY <1>1, <1>2 DEF Had, HeldFrom
<1>5. SafariFileFingerprint(q.file) \in Nat /\ SafariFileFingerprint(q.file) <= Len(disk[q.file])
  BY <1>1 DEF SafariFileFingerprint, NoFingerprint
<1> QED BY <1>2, <1>3, <1>4, <1>5

\* A step of the bridge leaves the disk and the reads alone.
LEMMA BridgeKeeps ==
  ASSUME IInv, UNCHANGED <<disk, read>>,
         \A q \in queue' : RequestOK(q),
         \A p \in replies' : ReplyOK(p),
         HandlingOK', EntriesOK'
  PROVE  IInv'
<1>1. DiskOK' /\ ReadsTyped' /\ \A r \in Readers : ReadOK(r)'
  BY DEF IInv, DiskOK, ReadsTyped, ReadOK, Had, HeldFrom
<1>2. ASSUME NEW q PROVE RequestOK(q)' <=> RequestOK(q)
  BY DEF RequestOK, Live, Had, HeldFrom
<1>3. ASSUME NEW p PROVE ReplyOK(p)' <=> ReplyOK(p)
  BY <1>2 DEF ReplyOK, Live, Had, HeldFrom
<1> QED BY <1>1, <1>2, <1>3 DEF IInv

\* The cached entries stay as good as they are.
LEMMA SameEntries ==
  ASSUME EntriesOK, UNCHANGED <<disk, entries>>
  PROVE  EntriesOK'
BY DEF EntriesOK, GoodEntries

\* With the disk unchanged, good entries are still good after the step.
LEMMA NewEntries ==
  ASSUME UNCHANGED disk, entries' \in Seq(GoodEntries)
  PROVE  EntriesOK'
BY DEF EntriesOK, GoodEntries

\* A handler that is not touched stays right while disk and reads stay.
LEMMA SameHandling ==
  ASSUME HandlingOK, UNCHANGED <<disk, read, handling>>
  PROVE  HandlingOK'
BY DEF HandlingOK, RequestOK, Live, Had, HeldFrom

\* A handler that is done needs nothing.
LEMMA IdleHandling ==
  ASSUME handling' = Idle
  PROVE  HandlingOK'
BY DEF HandlingOK, Idle, Phases

\* One more reply, to a request that is taken from the queue or the handler.
LEMMA ReplyKeeps ==
  ASSUME IInv, NEW q, NEW code, NEW c, Reply(q, code, c),
         ReplyOK([request |-> q, code |-> code, content |-> c])
  PROVE  \A p \in replies' : ReplyOK(p)
BY DEF IInv, Reply

\* An error reply that says nothing of the file.
LEMMA ErrorReply ==
  ASSUME NEW q, RequestOK(q), NEW code, code \in Errors
  PROVE  ReplyOK([request |-> q, code |-> code, content |-> Gone])
BY DEF ReplyOK, Errors

\* A reply about a folder grant says nothing of a read.
LEMMA EditorReply ==
  ASSUME NEW q, RequestOK(q), q.from \notin Readers, NEW code, NEW c
  PROVE  ReplyOK([request |-> q, code |-> code, content |-> c])
BY DEF ReplyOK

-----------------------------------------------------------------------------
(* The steps of the bridge *)

\* A request taken from the queue is a right one, and the rest stay.
LEMMA TakeKeeps ==
  ASSUME IInv, NEW q, NEW operation, Take(q, operation)
  PROVE  /\ RequestOK(q)
         /\ \A x \in queue' : RequestOK(x)
         /\ operation \in {"readMetadata", "readChunk"} => q.from \in Readers
         /\ operation = "authorizeFolder" => q.from \notin Readers
BY DEF IInv, Take, RequestOK

\* withAuthorizedAccess without a bookmark answers AUTHORIZATION_REQUIRED.
LEMMA RefuseKeeps ==
  ASSUME IInv, UNCHANGED <<disk, read>>, NEW q, NEW operation, Refuse(q, operation)
  PROVE  IInv'
<1>1. RequestOK(q) /\ \A x \in queue' : RequestOK(x)
  BY TakeKeeps DEF Refuse
<1>2. ReplyOK([request |-> q, code |-> "AUTHORIZATION_REQUIRED", content |-> Gone])
  BY <1>1, ErrorReply DEF Errors
<1>3. \A p \in replies' : ReplyOK(p)
  BY <1>2, ReplyKeeps DEF Refuse
<1>4. HandlingOK' /\ EntriesOK'
  BY SameHandling, SameEntries DEF IInv, Refuse
<1> QED BY <1>1, <1>3, <1>4, BridgeKeeps

\* A cached snapshot of the present fingerprint is the present content.
LEMMA ReadMetadataCachedKeeps ==
  ASSUME IInv, UNCHANGED <<disk, read>>, NEW q, readMetadataCached(q)
  PROVE  IInv'
<1>1. Take(q, "readMetadata")
  BY DEF readMetadataCached, Access
<1>2. RequestOK(q) /\ q.from \in Readers /\ q.operation = "readMetadata"
      /\ \A x \in queue' : RequestOK(x)
  BY <1>1, TakeKeeps DEF Take
<1>3. PICK i \in Same(q) : entries' = Used(i) /\ Reply(q, "OK", entries[i].content)
  BY DEF readMetadataCached
<1>4. /\ i \in DOMAIN entries
      /\ entries[i].file = q.file
      /\ entries[i].fingerprint # NoFingerprint
      /\ entries[i].fingerprint = SafariFileFingerprint(q.file)
  BY <1>3 DEF Same, At
<1>5. Used(i) \in Seq(GoodEntries) /\ entries[i] \in GoodEntries
  BY <1>4, UsedSeq DEF IInv
<1>6. entries[i].content \in Contents /\ entries[i].content = Content(q.file)
  <2>1. entries[i].content = disk[q.file][SafariFileFingerprint(q.file)]
    BY <1>4, <1>5 DEF GoodEntries
  <2>2. SafariFileFingerprint(q.file) = Len(disk[q.file])
    BY <1>4 DEF SafariFileFingerprint
  <2>3. entries[i].content \in Contents
    BY <1>5 DEF GoodEntries
  <2> QED BY <2>1, <2>2, <2>3, <1>2, CurrentHad
<1>7. ReplyOK([request |-> q, code |-> "OK", content |-> entries[i].content])
  BY <1>2, <1>6, CurrentHad DEF ReplyOK
<1>8. \A p \in replies' : ReplyOK(p)
  BY <1>3, <1>7, ReplyKeeps
<1>9. HandlingOK' /\ EntriesOK'
  BY <1>3, <1>5, SameHandling, NewEntries DEF IInv, readMetadataCached
<1> QED BY <1>2, <1>8, <1>9, BridgeKeeps

\* The first fingerprint is at most the number of the last writing.
LEMMA ReadMetadataKeeps ==
  ASSUME IInv, UNCHANGED <<disk, read>>, NEW q, readMetadata(q)
  PROVE  IInv'
<1>1. Take(q, "readMetadata")
  BY DEF readMetadata, Access
<1>2. RequestOK(q) /\ q.from \in Readers /\ q.operation = "readMetadata"
      /\ \A x \in queue' : RequestOK(x)
  BY <1>1, TakeKeeps DEF Take
<1>3. SafariFileFingerprint(q.file) \in Nat /\ SafariFileFingerprint(q.file) <= Len(disk[q.file])
  BY <1>2, CurrentHad
<1>4. HandlingOK'
  <2>1. handling' = [phase |-> "reading", request |-> q,
                     before |-> SafariFileFingerprint(q.file), content |-> Gone]
    BY DEF readMetadata
  <2>2. RequestOK(q)'
    BY <1>2 DEF RequestOK, Live, Had, HeldFrom
  <2> QED BY <1>2, <1>3, <2>1, <2>2 DEF HandlingOK, Phases
<1>5. (\A p \in replies' : ReplyOK(p)) /\ EntriesOK'
  BY SameEntries DEF IInv, readMetadata
<1> QED BY <1>2, <1>4, <1>5, BridgeKeeps

\* The helper reads the present content, or says truly that there is none.
LEMMA HelperReadsKeeps ==
  ASSUME IInv, UNCHANGED <<disk, read>>, HelperReads
  PROVE  IInv'
<1> DEFINE q == handling.request
<1>1. /\ RequestOK(q) /\ q.from \in Readers /\ q.operation = "readMetadata"
      /\ handling.before \in Nat /\ handling.before <= Len(disk[q.file])
  BY DEF IInv, HandlingOK, HelperReads
<1>2. (\A x \in queue' : RequestOK(x)) /\ EntriesOK'
  BY SameEntries DEF IInv, HelperReads
<1>3. /\ Had(q.from, Content(q.file))
      /\ HeldFrom(q.from, 0, Content(q.file))
      /\ Content(q.file) = disk[q.file][Len(disk[q.file])]
      /\ Content(q.file) \in Contents \cup {Gone}
  BY <1>1, CurrentHad
<1>4. CASE /\ Content(q.file) # Gone
           /\ handling' = [phase |-> "read", request |-> q,
                           before |-> handling.before, content |-> Content(q.file)]
           /\ UNCHANGED replies
  <2>1. HandlingOK'
    <3>1. RequestOK(q) /\ disk' = disk /\ read' = read
      BY <1>1
    <3>2. handling'.request = q /\ handling'.phase = "read" /\ handling'.before = handling.before
          /\ handling'.content = Content(q.file)
      BY <1>4
    <3> HIDE DEF q
    <3>3. \A x : RequestOK(x) => RequestOK(x)'
      BY <3>1 DEF RequestOK, Live, Had, HeldFrom
    <3>4. RequestOK(handling.request)'
      BY <3>1, <3>2, <3>3 DEF RequestOK, Live, Had, HeldFrom
    <3>5. Live(q) => HeldFrom(q.from, read[q.from].attempt - 1, Content(q.file))
      BY <1>3 DEF Had
    <3> QED BY <1>1, <1>3, <1>4, <3>1, <3>2, <3>4, <3>5 DEF HandlingOK, Phases, Live, Had, HeldFrom
  <2>2. \A p \in replies' : ReplyOK(p)
    BY <1>4 DEF IInv
  <2> QED BY <1>2, <2>1, <2>2, BridgeKeeps
<1>5. CASE /\ \E code \in HelperFailure(q.file) : Reply(q, code, Gone)
           /\ handling' = Idle
  <2>1. PICK code \in HelperFailure(q.file) : Reply(q, code, Gone)
    BY <1>5
  <2>2. ReplyOK([request |-> q, code |-> code, content |-> Gone])
    BY <1>1, <1>3, <2>1 DEF ReplyOK, HelperFailure, Errors
  <2>3. \A p \in replies' : ReplyOK(p)
    BY <2>1, <2>2, ReplyKeeps
  <2> QED BY <1>2, <1>5, <2>3, IdleHandling, BridgeKeeps
<1> QED BY <1>4, <1>5 DEF HelperReads

\* A snapshot is stored under its own fingerprint or under none.
LEMMA StoreSnapshotKeeps ==
  ASSUME IInv, UNCHANGED <<disk, read>>, StoreSnapshot
  PROVE  IInv'
<1> DEFINE q == handling.request
           c == handling.content
           fp == StableFingerprint(q.file, handling.before, c)
<1>1. /\ RequestOK(q) /\ q.from \in Readers /\ q.operation = "readMetadata"
      /\ handling.before \in Nat /\ handling.before <= Len(disk[q.file])
      /\ c \in Contents
      /\ Live(q) => Had(q.from, c)
      /\ handling.before = Len(disk[q.file]) => c = disk[q.file][handling.before]
  BY DEF IInv, HandlingOK, StoreSnapshot
<1>2. [file |-> q.file, content |-> c, fingerprint |-> fp] \in GoodEntries
  <2>1. q.file \in Files /\ Len(disk[q.file]) \in Nat
    BY <1>1, RequestsOfReads
  <2>2. CASE fp = NoFingerprint
    BY <1>1, <2>1, <2>2 DEF GoodEntries, NoFingerprint
  <2>3. CASE fp # NoFingerprint
    <3>1. fp = handling.before /\ handling.before = Len(disk[q.file])
      BY <2>3 DEF StableFingerprint, SafariFileFingerprint
    <3> QED BY <1>1, <2>1, <3>1 DEF GoodEntries
  <2> QED BY <2>2, <2>3
<1>3. entries' \in Seq(GoodEntries)
  <2>1. Stored(q.file, c, fp) \in Seq(GoodEntries)
    BY <1>2, StoredSeq DEF IInv
  <2> QED BY <2>1 DEF StoreSnapshot
<1>4. ReplyOK([request |-> q, code |-> "OK", content |-> c])
  BY <1>1 DEF ReplyOK
<1>5. \A p \in replies' : ReplyOK(p)
  <2>1. Reply(q, "OK", c)
    BY DEF StoreSnapshot
  <2> QED BY <1>4, <2>1, ReplyKeeps
<1>6. \A x \in queue' : RequestOK(x)
  BY DEF IInv, StoreSnapshot
<1>7. HandlingOK' /\ EntriesOK'
  BY <1>3, IdleHandling, NewEntries DEF StoreSnapshot
<1> QED BY <1>5, <1>6, <1>7, BridgeKeeps

\* A chunk of a cached snapshot is of the digest that was asked for.
LEMMA ReadChunkCachedKeeps ==
  ASSUME IInv, UNCHANGED <<disk, read>>, NEW q, readChunkCached(q)
  PROVE  IInv'
<1>1. Take(q, "readChunk")
  BY DEF readChunkCached, Access
<1>2. RequestOK(q) /\ q.from \in Readers /\ q.operation = "readChunk"
      /\ \A x \in queue' : RequestOK(x)
  BY <1>1, TakeKeeps DEF Take
<1>3. PICK i \in WithDigest(q) : entries' = Used(i)
  BY DEF readChunkCached
<1>4. Used(i) \in Seq(GoodEntries)
  BY <1>3, UsedSeq DEF IInv, WithDigest, At
<1>5. ReplyOK([request |-> q, code |-> "OK", content |-> q.digest])
  BY <1>2 DEF ReplyOK
<1>6. \A p \in replies' : ReplyOK(p)
  BY <1>5, ReplyKeeps DEF readChunkCached
<1>7. HandlingOK' /\ EntriesOK'
  BY <1>3, <1>4, SameHandling, NewEntries DEF IInv, readChunkCached
<1> QED BY <1>2, <1>6, <1>7, BridgeKeeps

\* A chunk from a fresh read is of the digest asked for; FILE_CHANGED is
\* answered only after another writing than those of the earlier attempts.
LEMMA ReadChunkKeeps ==
  ASSUME IInv, UNCHANGED <<disk, read>>, NEW q, readChunk(q)
  PROVE  IInv'
<1>1. Take(q, "readChunk")
  BY DEF readChunk, Access
<1>2. RequestOK(q) /\ q.from \in Readers /\ q.operation = "readChunk"
      /\ \A x \in queue' : RequestOK(x)
  BY <1>1, TakeKeeps DEF Take
<1>3. HandlingOK'
  BY SameHandling DEF IInv, readChunk
<1>4. CASE (\E code \in HelperFailure(q.file) : Reply(q, code, Gone)) /\ UNCHANGED entries
  <2>1. PICK code \in HelperFailure(q.file) : Reply(q, code, Gone)
    BY <1>4
  <2>2. HeldFrom(q.from, 0, Content(q.file))
    BY <1>2, CurrentHad
  <2>3. ReplyOK([request |-> q, code |-> code, content |-> Gone])
    BY <1>2, <2>1, <2>2 DEF ReplyOK, HelperFailure, Errors
  <2>4. \A p \in replies' : ReplyOK(p)
    BY <2>1, <2>3, ReplyKeeps
  <2> QED BY <1>2, <1>3, <1>4, <2>4, SameEntries, BridgeKeeps DEF IInv
<1>5. CASE /\ Content(q.file) # q.digest
           /\ Reply(q, "FILE_CHANGED", Gone)
           /\ UNCHANGED entries
  <2>1. Live(q) => read[q.from].began + q.attempt <= Len(disk[q.file])
    <3>1. /\ Content(q.file) = disk[q.file][Len(disk[q.file])]
          /\ read[q.from].began \in Nat
          /\ read[q.from].attempt \in {1, 2}
          /\ Len(disk[q.file]) \in Nat
          /\ q.file = read[q.from].file
      BY <1>2, CurrentHad, RequestsOfReads
    <3>2. SUFFICES ASSUME Live(q) PROVE read[q.from].began + q.attempt <= Len(disk[q.file])
      OBVIOUS
    <3>3. PICK i \in Nat : /\ read[q.from].began + (read[q.from].attempt - 1) <= i
                           /\ i <= Len(disk[q.file])
                           /\ disk[q.file][i] = q.digest
      BY <1>2, <3>1, <3>2 DEF RequestOK, Had, HeldFrom
    <3>4. i # Len(disk[q.file])
      BY <1>5, <3>1, <3>3
    <3> QED BY <3>1, <3>2, <3>3, <3>4 DEF Live
  <2>2. ReplyOK([request |-> q, code |-> "FILE_CHANGED", content |-> Gone])
    BY <1>2, <2>1 DEF ReplyOK
  <2>3. \A p \in replies' : ReplyOK(p)
    BY <1>5, <2>2, ReplyKeeps
  <2> QED BY <1>2, <1>3, <1>5, <2>3, SameEntries, BridgeKeeps DEF IInv
<1>6. CASE /\ Content(q.file) = q.digest
           /\ entries' = Stored(q.file, Content(q.file), NoFingerprint)
           /\ Reply(q, "OK", Content(q.file))
  <2>1. [file |-> q.file, content |-> Content(q.file), fingerprint |-> NoFingerprint] \in GoodEntries
    <3>1. q.file \in Files /\ q.digest \in Contents /\ Len(disk[q.file]) \in Nat
      BY <1>2, RequestsOfReads DEF RequestOK
    <3> QED BY <1>6, <3>1 DEF GoodEntries, NoFingerprint
  <2>2. entries' \in Seq(GoodEntries)
    BY <1>6, <2>1, StoredSeq DEF IInv
  <2>3. ReplyOK([request |-> q, code |-> "OK", content |-> Content(q.file)])
    BY <1>2, <1>6 DEF ReplyOK
  <2>4. \A p \in replies' : ReplyOK(p)
    BY <1>6, <2>3, ReplyKeeps
  <2> QED BY <1>2, <1>3, <2>2, <2>4, NewEntries, BridgeKeeps
<1> QED BY <1>4, <1>5, <1>6 DEF readChunk

\* A request for a folder grant is no part of a read.
LEMMA AuthorizeKeeps ==
  ASSUME IInv, UNCHANGED <<disk, read>>, NEW q,
         authorizeFolderMissing(q) \/ authorizeFolderGranted(q) \/ authorizeFolder(q)
  PROVE  IInv'
<1>1. Take(q, "authorizeFolder")
  BY DEF authorizeFolderMissing, authorizeFolderGranted, authorizeFolder, Access
<1>2. RequestOK(q) /\ q.from \notin Readers /\ \A x \in queue' : RequestOK(x)
  BY <1>1, TakeKeeps
<1>3. EntriesOK'
  BY SameEntries DEF IInv, authorizeFolderMissing, authorizeFolderGranted, authorizeFolder
<1>4. \A p \in replies' : ReplyOK(p)
  <2>1. CASE authorizeFolderMissing(q)
    BY <1>2, <2>1, EditorReply, ReplyKeeps DEF authorizeFolderMissing
  <2>2. CASE authorizeFolderGranted(q)
    BY <1>2, <2>2, EditorReply, ReplyKeeps DEF authorizeFolderGranted
  <2>3. CASE authorizeFolder(q)
    BY <2>3 DEF authorizeFolder, IInv
  <2> QED BY <2>1, <2>2, <2>3
<1>5. HandlingOK'
  <2>1. CASE UNCHANGED handling
    BY <2>1, SameHandling DEF IInv
  <2>2. CASE authorizeFolder(q)
    <3>1. RequestOK(q)'
      BY <1>2 DEF RequestOK
    <3> QED BY <1>2, <2>2, <3>1 DEF authorizeFolder, HandlingOK, Phases
  <2> QED BY <2>1, <2>2 DEF authorizeFolderMissing, authorizeFolderGranted
<1> QED BY <1>2, <1>3, <1>4, <1>5, BridgeKeeps

\* The end of the folder panel answers an editor.
LEMMA PanelKeeps ==
  ASSUME IInv, UNCHANGED <<disk, read>>, Grant \/ Cancel
  PROVE  IInv'
<1> DEFINE q == handling.request
<1>1. RequestOK(q) /\ q.from \notin Readers
  BY DEF IInv, HandlingOK, Grant, Cancel
<1>2. PICK code \in {"OK", "AUTHORIZATION_FAILED", "AUTHORIZATION_CANCELLED"} : Reply(q, code, Gone)
  BY DEF Grant, Cancel
<1>3. \A p \in replies' : ReplyOK(p)
  BY <1>1, <1>2, EditorReply, ReplyKeeps
<1>4. HandlingOK' /\ EntriesOK' /\ \A x \in queue' : RequestOK(x)
  BY IdleHandling, SameEntries DEF IInv, Grant, Cancel
<1> QED BY <1>3, <1>4, BridgeKeeps

\* Expiry only drops an entry.
LEMMA ExpireKeeps ==
  ASSUME IInv, UNCHANGED <<disk, read>>, Expire
  PROVE  IInv'
<1>1. entries' \in Seq(GoodEntries)
  BY RemoveAtSeq DEF IInv, EntriesOK, Expire
<1>2. HandlingOK' /\ EntriesOK' /\ (\A x \in queue' : RequestOK(x)) /\ \A p \in replies' : ReplyOK(p)
  BY <1>1, SameHandling, NewEntries DEF IInv, Expire
<1> QED BY <1>2, BridgeKeeps

\* Every step of the bridge keeps the invariant.
LEMMA BridgeStepKeeps ==
  ASSUME IInv, BridgeStep, UNCHANGED <<read, editor>>
  PROVE  IInv'
<1>1. UNCHANGED <<disk, read>>
  BY DEF BridgeStep
<1>2. ASSUME NEW q \in queue, Handle(q) PROVE IInv'
  BY <1>1, <1>2, RefuseKeeps, ReadMetadataCachedKeeps, ReadMetadataKeeps, ReadChunkCachedKeeps,
     ReadChunkKeeps, AuthorizeKeeps DEF Handle
<1> QED
  BY <1>1, <1>2, HelperReadsKeeps, StoreSnapshotKeeps, PanelKeeps, ExpireKeeps DEF BridgeStep

\* A restart rejects what is open and forgets the snapshots.
LEMMA RestartKeeps ==
  ASSUME IInv, Restart, UNCHANGED <<read, editor>>
  PROVE  IInv'
<1> DEFINE open == queue \cup ({handling.request} \ {NoRequest})
<1>1. \A q \in open : RequestOK(q)
  BY DEF IInv, HandlingOK, Idle
<1>2. \A p \in replies' : ReplyOK(p)
  <2>1. SUFFICES ASSUME NEW q \in open
                 PROVE  ReplyOK([request |-> q, code |-> "REJECTED", content |-> Gone])
    BY DEF Restart, IInv
  <2> QED BY <1>1, <2>1, ErrorReply DEF Errors
<1>3. entries' \in Seq(GoodEntries)
  BY DEF Restart
<1>4. HandlingOK' /\ EntriesOK' /\ \A x \in queue' : RequestOK(x)
  BY <1>3, IdleHandling, NewEntries DEF Restart
<1> QED BY <1>2, <1>4, BridgeKeeps DEF Restart

-----------------------------------------------------------------------------
(* The steps outside the program: the disk only grows *)

\* What the file of a read has held, it has held for good.
LEMMA HeldGrows ==
  ASSUME DiskOK, UNCHANGED read,
         NEW r \in Readers, read[r].file \in Files, read[r].began \in Nat \ {0},
         \A f \in Files : /\ Len(disk'[f]) \in Nat
                          /\ Len(disk[f]) <= Len(disk'[f])
                          /\ \A i \in 1..Len(disk[f]) : disk'[f][i] = disk[f][i],
         NEW n \in Nat, NEW c, HeldFrom(r, n, c)
  PROVE  \E i \in Nat : /\ read'[r].began + n <= i
                        /\ i <= Len(disk'[read'[r].file])
                        /\ disk'[read'[r].file][i] = c
<1>1. PICK i \in Nat : /\ read[r].began + n <= i
                       /\ i <= Len(disk[read[r].file])
                       /\ disk[read[r].file][i] = c
  BY DEF HeldFrom
<1>2. Len(disk[read[r].file]) \in Nat
  BY LenProperties DEF DiskOK
<1>3. i \in 1..Len(disk[read[r].file]) /\ i <= Len(disk'[read[r].file])
  BY <1>1, <1>2
<1> QED BY <1>1, <1>3 DEF HeldFrom

\* Whatever is written, what was under way stays true.
LEMMA DiskGrows ==
  ASSUME IInv, DiskOK', UNCHANGED <<read, entries, handling, queue, replies>>,
         \A f \in Files : /\ Len(disk'[f]) \in Nat
                          /\ Len(disk[f]) <= Len(disk'[f])
                          /\ \A i \in 1..Len(disk[f]) : disk'[f][i] = disk[f][i]
  PROVE  IInv'
<1>1. \A f \in Files : Len(disk[f]) \in Nat \ {0}
  BY LenProperties DEF IInv, DiskOK
<1>2. ASSUME NEW r \in Readers PROVE ReadOK(r)'
  <2>1. ReadOK(r) /\ read[r] \in Reads
    BY DEF IInv, ReadsTyped
  <2>2. CASE read[r].state = "idle"
    BY <2>1, <2>2 DEF ReadOK
  <2>3. CASE read[r].state # "idle"
    <3>1. /\ read[r].file \in Files
          /\ read[r].began \in Nat \ {0}
          /\ read[r].attempt \in {1, 2}
          /\ read[r].began + read[r].attempt - 1 <= Len(disk[read[r].file])
      BY <2>1, <2>3 DEF ReadOK, Reads
    <3>2. read[r].began + read[r].attempt - 1 <= Len(disk'[read[r].file])
      BY <1>1, <3>1
    <3>3. Had(r, read[r].digest) => HeldFrom(r, read[r].attempt - 1, read[r].digest)'
      BY <3>1, HeldGrows DEF IInv, Had, HeldFrom
    <3>4. HeldFrom(r, read[r].attempt - 1, read[r].digest)' <=> Had(r, read[r].digest)'
      BY DEF Had, HeldFrom
    <3> QED BY <2>1, <3>1, <3>2, <3>3, <3>4 DEF ReadOK
  <2> QED BY <2>2, <2>3
<1>3. ASSUME NEW q, RequestOK(q) PROVE RequestOK(q)'
  <2>1. CASE q.from \notin Readers
    BY <1>3, <2>1 DEF RequestOK
  <2>2. CASE q.from \in Readers
    <3>1. /\ read[q.from].file \in Files
          /\ read[q.from].began \in Nat \ {0}
          /\ read[q.from].attempt \in {1, 2}
      BY <1>3, <2>2, RequestsOfReads
    <3>2. Had(q.from, q.digest) => HeldFrom(q.from, read[q.from].attempt - 1, q.digest)'
      BY <2>2, <3>1, HeldGrows DEF IInv, Had, HeldFrom
    <3> QED BY <1>3, <2>2, <3>2 DEF RequestOK, Live, Had, HeldFrom
  <2> QED BY <2>1, <2>2
<1>4. ASSUME NEW p, ReplyOK(p) PROVE ReplyOK(p)'
  <2> DEFINE q == p.request
  <2>1. RequestOK(q) /\ RequestOK(q)'
    BY <1>3, <1>4 DEF ReplyOK
  <2>2. CASE q.from \notin Readers
    BY <2>1, <2>2 DEF ReplyOK
  <2>3. CASE q.from \in Readers
    <3>1. /\ read[q.from].file \in Files
          /\ read[q.from].began \in Nat \ {0}
          /\ read[q.from].attempt \in {1, 2}
          /\ q.file = read[q.from].file
          /\ q.attempt \in {1, 2}
      BY <2>1, <2>3, RequestsOfReads
    <3>2. Had(q.from, p.content) => HeldFrom(q.from, read[q.from].attempt - 1, p.content)'
      <4>1. SUFFICES ASSUME Had(q.from, p.content)
                     PROVE  HeldFrom(q.from, read[q.from].attempt - 1, p.content)'
        OBVIOUS
      <4>2. read[q.from].attempt - 1 \in Nat
        BY <3>1
      <4>3. HeldFrom(q.from, read[q.from].attempt - 1, p.content)
        BY <4>1 DEF Had
      <4>4. \E i \in Nat : /\ read'[q.from].began + (read[q.from].attempt - 1) <= i
                          /\ i <= Len(disk'[read'[q.from].file])
                          /\ disk'[read'[q.from].file][i] = p.content
        BY <2>3, <3>1, <4>2, <4>3, HeldGrows DEF IInv
      <4> QED BY <4>4 DEF HeldFrom
    <3>3. HeldFrom(q.from, 0, Gone) => HeldFrom(q.from, 0, Gone)'
      BY <2>3, <3>1, HeldGrows DEF IInv, HeldFrom
    <3>4. read[q.from].began + q.attempt <= Len(disk[q.file])
            => read[q.from].began + q.attempt <= Len(disk'[q.file])
      BY <1>1, <3>1
    <3>5. /\ p.code \in Errors \cup {"OK", "FILE_NOT_FOUND", "FILE_CHANGED"}
          /\ p.code = "OK" /\ q.operation = "readMetadata" =>
                p.content \in Contents /\ (Live(q) => Had(q.from, p.content))
          /\ p.code = "OK" /\ q.operation = "readChunk" => p.content = q.digest
          /\ p.code = "FILE_NOT_FOUND" => HeldFrom(q.from, 0, Gone)
          /\ p.code = "FILE_CHANGED" /\ Live(q) =>
                read[q.from].began + q.attempt <= Len(disk[q.file])
      BY <1>4, <2>3 DEF ReplyOK
    <3>6. Live(q)' <=> Live(q)
      BY DEF Live
    <3>7. HeldFrom(q.from, read[q.from].attempt - 1, p.content)' <=> Had(q.from, p.content)'
      BY DEF Had, HeldFrom
    <3> QED BY <2>1, <2>3, <3>2, <3>3, <3>4, <3>5, <3>6, <3>7 DEF ReplyOK
  <2> QED BY <2>2, <2>3
<1>5. HandlingOK'
  <2> DEFINE q == handling.request
  <2>1. CASE handling.phase = "idle"
    BY <2>1 DEF IInv, HandlingOK
  <2>2. CASE handling.phase = "panel"
    <3>1. RequestOK(q) /\ RequestOK(q)'
      BY <1>3, <2>2 DEF IInv, HandlingOK
    <3> QED BY <2>2, <3>1 DEF IInv, HandlingOK, RequestOK
  <2>3. CASE handling.phase \in {"reading", "read"}
    <3>1. /\ RequestOK(q) /\ q.from \in Readers
          /\ handling.before \in Nat /\ handling.before <= Len(disk[q.file])
      BY <2>3 DEF IInv, HandlingOK
    <3>2. /\ q.file = read[q.from].file
          /\ q.file \in Files
          /\ read[q.from].began \in Nat \ {0}
          /\ read[q.from].attempt \in {1, 2}
      BY <3>1, RequestsOfReads
    <3>3. handling.before <= Len(disk'[q.file])
      BY <1>1, <3>1, <3>2
    <3>4. RequestOK(q)'
      <4> HIDE DEF q
      <4>1. q' = q
        BY DEF q
      <4> QED BY <1>3, <3>1, <4>1 DEF RequestOK, Live, Had, HeldFrom
    <3>5. Had(q.from, handling.content)
            => HeldFrom(q.from, read[q.from].attempt - 1, handling.content)'
      BY <3>1, <3>2, HeldGrows DEF IInv, Had, HeldFrom
    <3>6. handling.phase = "read" /\ handling.before = Len(disk'[q.file]) =>
             handling.content = disk'[q.file][handling.before]
      <4>1. SUFFICES ASSUME handling.phase = "read", handling.before = Len(disk'[q.file])
                     PROVE  handling.content = disk'[q.file][handling.before]
        OBVIOUS
      <4>2. handling.before = Len(disk[q.file])
        BY <1>1, <3>1, <3>2, <4>1
      <4>3. handling.content = disk[q.file][handling.before]
        BY <4>1, <4>2 DEF IInv, HandlingOK
      <4> QED BY <1>1, <3>2, <4>2, <4>3
    <3> QED BY <2>3, <3>1, <3>3, <3>4, <3>5, <3>6 DEF IInv, HandlingOK, Live, Had, HeldFrom
  <2> QED BY <2>1, <2>2, <2>3 DEF IInv, HandlingOK, Phases
<1>6. EntriesOK'
  <2>1. GoodEntries \subseteq GoodEntries'
    <3>1. SUFFICES ASSUME NEW en \in GoodEntries PROVE en \in GoodEntries'
      OBVIOUS
    <3>2. /\ en \in [file : Files, content : Contents, fingerprint : Nat]
          /\ en.fingerprint <= Len(disk[en.file])
          /\ en.fingerprint # NoFingerprint => en.content = disk[en.file][en.fingerprint]
      BY DEF GoodEntries
    <3>3. en.fingerprint <= Len(disk'[en.file])
      BY <1>1, <3>2
    <3>4. en.fingerprint # NoFingerprint => en.content = disk'[en.file][en.fingerprint]
      BY <1>1, <3>2 DEF NoFingerprint
    <3> QED BY <3>2, <3>3, <3>4 DEF GoodEntries
  <2>2. entries \in Seq(GoodEntries')
    BY <2>1, WiderSeq DEF IInv, EntriesOK
  <2> QED BY <2>2 DEF EntriesOK
<1> QED BY <1>2, <1>3, <1>4, <1>5, <1>6 DEF IInv, ReadsTyped

\* Writing any set of files at once keeps the invariant.
LEMMA WritingKeeps ==
  ASSUME IInv, UNCHANGED <<read, entries, handling, queue, replies>>,
         NEW fs, NEW c \in Contents \cup {Gone},
         disk' = [f \in Files |-> IF f \in fs THEN Append(disk[f], c) ELSE disk[f]]
  PROVE  IInv'
<1>1. \A f \in Files : disk[f] \in Seq(Contents \cup {Gone}) /\ Len(disk[f]) \in Nat /\ Len(disk[f]) >= 1
  BY LenProperties DEF IInv, DiskOK
<1>2. ASSUME NEW f \in Files
      PROVE  /\ disk'[f] \in Seq(Contents \cup {Gone})
             /\ Len(disk'[f]) \in Nat
             /\ Len(disk[f]) <= Len(disk'[f])
             /\ \A i \in 1..Len(disk[f]) : disk'[f][i] = disk[f][i]
  <2>1. CASE f \in fs
    BY <1>1, <2>1, AppendProperties
  <2>2. CASE f \notin fs
    BY <1>1, <2>2
  <2> QED BY <2>1, <2>2
<1>3. DiskOK'
  BY <1>1, <1>2 DEF DiskOK
<1> QED BY <1>2, <1>3, DiskGrows

\* Writing one file is writing the set that holds it.
LEMMA WriteIsWriting ==
  ASSUME DiskOK, NEW f \in Files, NEW c, Write(f, c)
  PROVE  disk' = [g \in Files |-> IF g \in {f} THEN Append(disk[g], c) ELSE disk[g]]
BY DEF DiskOK, Write

\* Editor, Finder and a restart keep the invariant.
LEMMA OutsideKeeps ==
  ASSUME IInv, Outside, UNCHANGED <<read, editor>>
  PROVE  IInv'
<1>1. CASE Restart
  BY <1>1, RestartKeeps
<1>2. ASSUME NEW f \in Files, NEW c \in Contents \cup {Gone}, Write(f, c) PROVE IInv'
  <2>1. disk' = [g \in Files |-> IF g \in {f} THEN Append(disk[g], c) ELSE disk[g]]
    BY <1>2, WriteIsWriting DEF IInv
  <2>2. UNCHANGED <<read, entries, handling, queue, replies>>
    BY <1>2 DEF Write
  <2> QED BY <2>1, <2>2, WritingKeeps
<1>3. ASSUME NEW g, DeleteFolder(g) PROVE IInv'
  <2>1. disk' = [f \in Files |-> IF f \in {x \in Files : FolderOf[x] = g}
                                 THEN Append(disk[f], Gone) ELSE disk[f]]
    BY <1>3 DEF DeleteFolder
  <2> QED BY <1>3, <2>1, WritingKeeps DEF DeleteFolder
<1> QED BY <1>1, <1>2, <1>3 DEF Outside

-----------------------------------------------------------------------------
(* The steps of the extension *)

\* A read moves on: it stays with its file and its beginning, an attempt is
\* left for good, and a digest stays for the rest of its attempt.
Keeps(r) ==
    \/ read[r].state = "idle"
    \/ /\ read'[r].file = read[r].file
       /\ read'[r].began = read[r].began
       /\ read'[r].attempt \in Nat
       /\ read[r].attempt <= read'[r].attempt
       /\ read'[r].attempt = read[r].attempt =>
             read'[r].digest = read[r].digest \/ read[r].digest \notin Contents

\* The requests stay right when a read moves on.
LEMMA RequestSurvives ==
  ASSUME IInv, UNCHANGED disk, NEW r \in Readers, Keeps(r),
         \A x \in Readers \ {r} : read'[x] = read[x],
         NEW q, RequestOK(q)
  PROVE  /\ RequestOK(q)'
         /\ q.from \in Readers => /\ Live(q)' => Live(q)
                                  /\ read'[q.from].began = read[q.from].began
                                  /\ read'[q.from].file = read[q.from].file
<1>1. CASE q.from \notin Readers
  BY <1>1 DEF RequestOK
<1>2. CASE q.from \in Readers /\ q.from # r
  <2>1. read'[q.from] = read[q.from]
    BY <1>2
  <2> QED BY <1>2, <2>1 DEF RequestOK, Live, Had, HeldFrom
<1>3. CASE q.from = r
  <2>1. /\ read[r].state # "idle"
        /\ read[r].attempt \in {1, 2}
        /\ q.attempt \in {1, 2}
        /\ q.attempt <= read[r].attempt
    BY <1>3, RequestsOfReads DEF RequestOK
  <2>2. /\ read'[r].file = read[r].file
        /\ read'[r].began = read[r].began
        /\ read'[r].attempt \in Nat
        /\ read[r].attempt <= read'[r].attempt
        /\ read'[r].attempt = read[r].attempt =>
              read'[r].digest = read[r].digest \/ read[r].digest \notin Contents
    BY <2>1 DEF Keeps
  <2>3. Live(q)' => Live(q) /\ read'[r].attempt = read[r].attempt
    BY <1>3, <2>1, <2>2 DEF Live
  <2>4. q.attempt <= read'[r].attempt
    BY <2>1, <2>2
  <2> QED BY <1>3, <2>1, <2>2, <2>3, <2>4 DEF RequestOK, Had, HeldFrom, Live
<1> QED BY <1>1, <1>2, <1>3

\* So do the replies.
LEMMA ReplySurvives ==
  ASSUME IInv, UNCHANGED disk, NEW r \in Readers, Keeps(r),
         \A x \in Readers \ {r} : read'[x] = read[x],
         NEW p, ReplyOK(p)
  PROVE  ReplyOK(p)'
<1> DEFINE q == p.request
<1>1. RequestOK(q)
  BY DEF ReplyOK
<1>2. /\ RequestOK(q)'
      /\ q.from \in Readers => /\ Live(q)' => Live(q)
                               /\ read'[q.from].began = read[q.from].began
                               /\ read'[q.from].file = read[q.from].file
  BY <1>1, RequestSurvives
<1>3. CASE q.from \notin Readers
  BY <1>2, <1>3 DEF ReplyOK
<1>4. CASE q.from \in Readers
  <2>1. Live(q)' => read'[q.from].attempt = read[q.from].attempt
    BY <1>2, <1>4 DEF Live
  <2> QED BY <1>2, <1>4, <2>1 DEF ReplyOK, Live, Had, HeldFrom
<1> QED BY <1>3, <1>4

\* So does the handler.
LEMMA HandlingSurvives ==
  ASSUME IInv, UNCHANGED <<disk, handling>>, NEW r \in Readers, Keeps(r),
         \A x \in Readers \ {r} : read'[x] = read[x]
  PROVE  HandlingOK'
<1>1. CASE handling.phase = "idle"
  BY <1>1 DEF IInv, HandlingOK
<1>2. CASE handling.phase # "idle"
  <2>1. PICK q : q = handling.request
    OBVIOUS
  <2>2. RequestOK(q)
    BY <1>2, <2>1 DEF IInv, HandlingOK
  <2>3. /\ RequestOK(q)'
        /\ q.from \in Readers => /\ Live(q)' => Live(q)
                                 /\ read'[q.from].began = read[q.from].began
                                 /\ read'[q.from].file = read[q.from].file
    BY <2>2, RequestSurvives
  <2>4. q.from \in Readers /\ Live(q)' => read'[q.from].attempt = read[q.from].attempt
    BY <2>3 DEF Live
  <2>5. RequestOK(handling.request)'
    <3>1. handling'.request = q
      BY <2>1
    <3> QED BY <2>3, <3>1 DEF RequestOK, Live, Had, HeldFrom
  <2>6. handling' = handling
    OBVIOUS
  <2>7. handling.phase = "read" /\ Live(q)'
          => HeldFrom(q.from, read[q.from].attempt - 1, handling.content)
    BY <2>1, <2>3 DEF IInv, HandlingOK, Had
  <2>8. handling.phase = "read" /\ Live(handling.request)'
          => Had(handling.request.from, handling.content)'
    BY <1>2, <2>1, <2>3, <2>4, <2>6, <2>7 DEF IInv, HandlingOK, Live, Had, HeldFrom
  <2> QED BY <1>2, <2>5, <2>6, <2>8 DEF IInv, HandlingOK
<1> QED BY <1>1, <1>2

\* A read that moves on and stays right keeps the invariant.
LEMMA ReadKeeps ==
  ASSUME IInv, UNCHANGED <<disk, entries, handling>>, NEW r \in Readers, Keeps(r),
         \A x \in Readers \ {r} : read'[x] = read[x],
         ReadsTyped', ReadOK(r)',
         replies' \subseteq replies,
         \A q \in queue' : q \in queue \/ RequestOK(q)'
  PROVE  IInv'
<1>1. ASSUME NEW x \in Readers PROVE ReadOK(x)'
  <2>1. CASE x = r
    BY <2>1
  <2>2. CASE x # r
    <3>1. read'[x] = read[x] /\ ReadOK(x)
      BY <2>2 DEF IInv
    <3> QED BY <3>1 DEF ReadOK, Had, HeldFrom
  <2> QED BY <2>1, <2>2
<1>2. \A q \in queue' : RequestOK(q)'
  BY RequestSurvives DEF IInv
<1>3. \A p \in replies' : ReplyOK(p)'
  BY ReplySurvives DEF IInv
<1>4. HandlingOK' /\ EntriesOK'
  BY HandlingSurvives, SameEntries DEF IInv
<1> QED BY <1>1, <1>2, <1>3, <1>4 DEF IInv, DiskOK

\* A new read has no request of an older one.
LEMMA ReadFileKeeps ==
  ASSUME IInv, UNCHANGED <<disk, entries, handling>>, NEW r \in Readers, NEW f \in Files,
         readFile(r, f)
  PROVE  IInv'
<1> DEFINE begun == [state |-> "metadata", file |-> f, attempt |-> 1, began |-> Len(disk[f]),
                     digest |-> Gone, chunks |-> {}, answer |-> NoAnswer]
<1>1. read \in [Readers -> Reads] /\ read[r].state = "idle"
  BY DEF IInv, ReadsTyped, readFile
<1>2. read' = [read EXCEPT ![r] = begun] /\ queue' = queue \cup {MetadataRequest(r, 1, f)}
      /\ replies' = replies
  BY DEF readFile
<1>3. Len(disk[f]) \in Nat \ {0}
  BY LenProperties DEF IInv, DiskOK
<1>4. begun \in Reads
  BY <1>3 DEF Reads
<1> HIDE DEF begun
<1>5. ReadsTyped' /\ read'[r] = begun /\ \A x \in Readers \ {r} : read'[x] = read[x]
  BY <1>1, <1>2, <1>4 DEF ReadsTyped
<1>6. ReadOK(r)'
  BY <1>3, <1>5 DEF ReadOK, begun
<1>7. RequestOK(MetadataRequest(r, 1, f))'
  BY <1>5 DEF RequestOK, MetadataRequest, Request, begun
<1>8. \A q \in queue' : q \in queue \/ RequestOK(q)'
  BY <1>2, <1>7
<1> QED BY <1>1, <1>2, <1>5, <1>6, <1>8, ReadKeeps DEF Keeps

\* What the continuation of a reply does to the read r.
Active(r) == read[r].state \in {"metadata", "chunks"}

\* The read ends with an answer it may give.
Answered(r) ==
    \E a \in Contents \cup Codes :
        Active(r) /\ a \in Promise!Answers(r) /\ Answer(r, a) /\ UNCHANGED queue

Retried(r) ==
    /\ Active(r)
    /\ read[r].attempt = 1
    /\ read[r].began + 1 <= Len(disk[read[r].file])
    /\ read' = [read EXCEPT ![r].state = "metadata", ![r].attempt = 2,
                            ![r].digest = Gone, ![r].chunks = {}]
    /\ queue' = queue \cup {MetadataRequest(r, 2, read[r].file)}

AsksForChunks(r) ==
    \E c \in Contents :
        /\ Had(r, c)
        /\ read[r].state = "metadata"
        /\ read' = [read EXCEPT ![r].state = "chunks", ![r].digest = c]
        /\ queue' = queue \cup {ChunkRequest(r, read[r].attempt, read[r].file, c, i) :
                                  i \in Remaining(c)}

Collects(r) ==
    \E chunks \in SUBSET (Nat \X Contents) :
        /\ read[r].state = "chunks"
        /\ \A chunk \in chunks : chunk[2] = read[r].digest
        /\ read' = [read EXCEPT ![r].chunks = chunks]
        /\ UNCHANGED queue

\* What is known of a read under way.
LEMMA ActiveRead ==
  ASSUME IInv, NEW r \in Readers, Active(r)
  PROVE  /\ read[r].file \in Files
         /\ read[r].began \in Nat \ {0}
         /\ read[r].attempt \in {1, 2}
         /\ read[r].began + read[r].attempt - 1 <= Len(disk[read[r].file])
         /\ Len(disk[read[r].file]) \in Nat
         /\ read[r].answer = NoAnswer
         /\ read[r].file # NoAnswer
         /\ read \in [Readers -> Reads]
<1>1. ReadOK(r) /\ read[r] \in Reads /\ read[r].state # "idle" /\ read \in [Readers -> Reads]
  BY DEF IInv, ReadsTyped, Active
<1>2. read[r].file \in Files /\ read[r].answer = NoAnswer
  BY <1>1 DEF ReadOK, Active
<1>3. Len(disk[read[r].file]) \in Nat
  BY <1>2, LenProperties DEF IInv, DiskOK
<1> QED BY <1>1, <1>2, <1>3, ClientAssumption DEF ReadOK, Reads

\* What the invariant says the file has held, FileReads says too.
LEMMA HeldIsHeld ==
  ASSUME IInv, NEW r \in Readers, Active(r), NEW n \in Nat, NEW c, HeldFrom(r, n, c)
  PROVE  c \in Promise!Held(r)
<1>1. PICK i \in Nat : /\ read[r].began + n <= i
                       /\ i <= Len(disk[read[r].file])
                       /\ disk[read[r].file][i] = c
  BY DEF HeldFrom
<1>2. read[r].began \in Nat /\ Len(disk[read[r].file]) \in Nat
  BY ActiveRead
<1>3. i \in read[r].began .. Len(disk[read[r].file])
  BY <1>1, <1>2
<1> QED BY <1>1, <1>3 DEF Promise!Held

\* A content of the present attempt may be answered.
LEMMA ContentMayBeAnswered ==
  ASSUME IInv, NEW r \in Readers, Active(r), NEW c \in Contents, Had(r, c)
  PROVE  c \in Promise!Answers(r)
<1>1. read[r].attempt - 1 \in Nat
  BY ActiveRead
<1>2. c \in Promise!Held(r)
  BY <1>1, HeldIsHeld DEF Had
<1> QED BY <1>2, ContentAssumption DEF Promise!Answers

\* A time-out ends a read with an error that needs no reason.
LEMMA TimeoutAnswers ==
  ASSUME IInv, NEW r \in Readers, Timeout(r)
  PROVE  Answered(r) /\ UNCHANGED <<replies, editor>>
<1>1. Active(r) /\ Answer(r, "NATIVE_TIMEOUT") /\ UNCHANGED <<queue, replies, editor>>
  BY DEF Timeout, Fail, Retries, Active
<1>2. "NATIVE_TIMEOUT" \in Codes /\ "NATIVE_TIMEOUT" \in Promise!Answers(r)
  BY DEF Codes, Errors, Promise!Answers
<1> QED BY <1>1, <1>2 DEF Answered

\* A reply is ignored, or does one of four things to its read.
LEMMA DeliverCases ==
  ASSUME IInv, NEW p \in replies, p.request.from \in Readers, Deliver(p),
         NEW r, r = p.request.from
  PROVE  \/ UNCHANGED <<read, queue>>
         \/ Answered(r)
         \/ Retried(r)
         \/ AsksForChunks(r)
         \/ Collects(r)
<1> DEFINE q == p.request
<1>1. SUFFICES ASSUME Awaited(q)
               PROVE  Answered(r) \/ Retried(r) \/ AsksForChunks(r) \/ Collects(r)
  BY DEF Deliver
<1>2. ReplyOK(p) /\ RequestOK(q)
  BY DEF IInv, ReplyOK
<1>3. Active(r) /\ Live(q) /\ q.operation \in {"readMetadata", "readChunk"}
  BY <1>1 DEF Awaited, Active, Live
<1>4. /\ read[r].file \in Files
      /\ read[r].began \in Nat \ {0}
      /\ read[r].attempt \in {1, 2}
      /\ q.attempt = read[r].attempt
      /\ q.file = read[r].file
      /\ Len(disk[read[r].file]) \in Nat
  BY <1>2, <1>3, ActiveRead DEF RequestOK, Live
<1>5. CASE p.code # "OK"
  <2>1. Fail(r, p.code)
    BY <1>1, <1>5 DEF Deliver
  <2>2. p.code \in Errors \cup {"FILE_NOT_FOUND", "FILE_CHANGED"}
    BY <1>2, <1>5 DEF ReplyOK
  <2>3. CASE Retries(r, p.code)
    <3>1. p.code = "FILE_CHANGED" /\ read[r].attempt = 1
      BY <2>3 DEF Retries
    <3>2. read[r].began + 1 <= Len(disk[read[r].file])
      BY <1>2, <1>3, <1>4, <3>1 DEF ReplyOK
    <3> QED BY <1>3, <2>1, <2>3, <3>1, <3>2 DEF Fail, Retried
  <2>4. CASE ~Retries(r, p.code)
    <3>1. Answer(r, p.code) /\ UNCHANGED queue
      BY <2>1, <2>4 DEF Fail
    <3>2. p.code \in Promise!Answers(r)
      <4>1. CASE p.code \in Errors
        BY <4>1 DEF Promise!Answers
      <4>2. CASE p.code = "FILE_NOT_FOUND"
        <5>1. HeldFrom(r, 0, Gone)
          BY <1>2, <4>2 DEF ReplyOK
        <5>2. Gone \in Promise!Held(r)
          BY <1>3, <5>1, HeldIsHeld
        <5> QED BY <4>2, <5>2 DEF Promise!Answers
      <4>3. CASE p.code = "FILE_CHANGED"
        <5>1. read[r].attempt = 2
          BY <1>4, <2>4, <4>3 DEF Retries
        <5>2. read[r].began + 2 <= Len(disk[read[r].file])
          BY <1>2, <1>3, <1>4, <4>3, <5>1 DEF ReplyOK
        <5> QED BY <1>4, <4>3, <5>2 DEF Promise!Answers
      <4> QED BY <2>2, <4>1, <4>2, <4>3
    <3>3. p.code \in Codes
      BY <2>2 DEF Codes
    <3> QED BY <1>3, <3>1, <3>2, <3>3 DEF Answered
  <2> QED BY <2>3, <2>4
<1>6. CASE p.code = "OK" /\ q.operation = "readMetadata"
  <2>1. MetadataArrives(r, p.content)
    BY <1>1, <1>6 DEF Deliver
  <2>2. p.content \in Contents /\ Had(r, p.content)
    BY <1>2, <1>3, <1>6 DEF ReplyOK
  <2>3. read[r].state = "metadata"
    BY <1>1, <1>6 DEF Awaited
  <2>4. CASE Remaining(p.content) = {}
    <3>1. Answer(r, p.content) /\ UNCHANGED queue
      BY <2>1, <2>4 DEF MetadataArrives, Assemble
    <3> QED BY <1>3, <2>2, <3>1, ContentMayBeAnswered DEF Answered
  <2>5. CASE Remaining(p.content) # {}
    BY <2>1, <2>2, <2>3, <2>5 DEF MetadataArrives, AsksForChunks
  <2> QED BY <2>4, <2>5
<1>7. CASE p.code = "OK" /\ q.operation = "readChunk"
  <2> DEFINE chunks == read[r].chunks \cup {<<q.index, p.content>>}
  <2>1. ChunkArrives(r, q.index, p.content)
    BY <1>1, <1>7 DEF Deliver
  <2>2. read[r].state = "chunks" /\ ReadOK(r) /\ read[r] \in Reads
    BY <1>1, <1>7 DEF Awaited, IInv, ReadsTyped
  <2>3. p.content = read[r].digest /\ read[r].digest \in Contents /\ Had(r, read[r].digest)
    BY <1>2, <1>3, <1>7, <2>2 DEF ReplyOK, RequestOK, ReadOK
  <2>4. q.index \in Nat
    BY <1>2 DEF RequestOK
  <2>5. chunks \in SUBSET (Nat \X Contents)
    BY <2>2, <2>3, <2>4 DEF Reads
  <2>6. \A chunk \in chunks : chunk[2] = read[r].digest
    BY <2>2, <2>3 DEF ReadOK
  <2>7. CASE Cardinality(chunks) = Cardinality(Remaining(read[r].digest))
    <3>1. Assemble(r, read[r].digest, chunks)
      BY <2>1, <2>7 DEF ChunkArrives
    <3>2. Answer(r, read[r].digest) /\ UNCHANGED queue
      <4> HIDE DEF chunks
      <4> QED BY <2>6, <3>1 DEF Assemble
    <3> QED BY <1>3, <2>3, <3>2, ContentMayBeAnswered DEF Answered
  <2>8. CASE Cardinality(chunks) # Cardinality(Remaining(read[r].digest))
    <3>1. read' = [read EXCEPT ![r].chunks = chunks] /\ UNCHANGED queue
      BY <2>1, <2>8 DEF ChunkArrives
    <3> HIDE DEF chunks
    <3> QED BY <2>2, <2>5, <2>6, <3>1 DEF Collects
  <2> QED BY <2>7, <2>8
<1> QED BY <1>3, <1>5, <1>6, <1>7

\* The four of them keep the invariant: an answer,
LEMMA AnsweredKeeps ==
  ASSUME IInv, UNCHANGED <<disk, entries, handling>>, replies' \subseteq replies,
         NEW r \in Readers, Answered(r)
  PROVE  IInv'
<1>1. PICK a \in Contents \cup Codes : Answer(r, a) /\ UNCHANGED queue
  BY DEF Answered
<1>2. /\ read \in [Readers -> Reads] /\ ReadOK(r) /\ read[r].state # "idle"
      /\ read[r].attempt \in {1, 2}
  BY ActiveRead DEF IInv, Answered, Active
<1>3. read' = [read EXCEPT ![r] = [read[r] EXCEPT !.state = "done", !.answer = a]]
  BY <1>1, <1>2 DEF Answer, Reads
<1>4. ReadsTyped'
  BY <1>2, <1>3 DEF ReadsTyped, Reads
<1>5. ReadOK(r)' /\ Keeps(r)
  BY <1>2, <1>3 DEF ReadOK, Keeps, Reads
<1>6. \A x \in Readers \ {r} : read'[x] = read[x]
  BY <1>2, <1>3
<1> QED BY <1>1, <1>4, <1>5, <1>6, ReadKeeps

\* A read that begins again is still a read.
LEMMA AttemptTyped ==
  ASSUME NEW x \in Reads
  PROVE  [x EXCEPT !.state = "metadata", !.attempt = 2] \in Reads
<1>1. [x EXCEPT !.state = "metadata"] \in Reads
  BY DEF Reads
<1>2. ASSUME NEW y \in Reads PROVE [y EXCEPT !.attempt = 2] \in Reads
  BY DEF Reads
<1> QED BY <1>1, <1>2

\* a second attempt, for which the file was written once more,
LEMMA RetriedKeeps ==
  ASSUME IInv, UNCHANGED <<disk, entries, handling>>, replies' \subseteq replies,
         NEW r \in Readers, Retried(r)
  PROVE  IInv'
<1>1. /\ read \in [Readers -> Reads] /\ ReadOK(r) /\ read[r].state # "idle"
      /\ read[r].file \in Files
      /\ read[r].answer = NoAnswer
      /\ read[r].began \in Nat \ {0}
  BY ActiveRead DEF IInv, Retried, Active
<1>2. /\ read[r].attempt = 1
      /\ read[r].began + 1 <= Len(disk[read[r].file])
      /\ queue' = queue \cup {MetadataRequest(r, 2, read[r].file)}
  BY DEF Retried
<1>3. read' = [read EXCEPT ![r] = [read[r] EXCEPT !.state = "metadata", !.attempt = 2,
                                                  !.digest = Gone, !.chunks = {}]]
  BY <1>1 DEF Retried, Reads
<1>4. ReadsTyped'
  <2>1. read[r] \in Reads
    BY <1>1
  <2> DEFINE one == [read[r] EXCEPT !.state = "metadata", !.attempt = 2]
             two == [one EXCEPT !.digest = Gone, !.chunks = {}]
  <2>2. one \in Reads
    BY <2>1, AttemptTyped
  <2>3. two \in Reads
    <3> HIDE DEF one
    <3> QED BY <2>2 DEF Reads
  <2>4. read'[r] = two
    BY <1>1, <1>3
  <2>5. \A x \in Readers : x # r => read'[x] = read[x]
    BY <1>1, <1>3
  <2>6. read' = [x \in Readers |-> read'[x]]
    BY <1>1, <1>3
  <2> HIDE DEF two
  <2> QED BY <1>1, <2>3, <2>4, <2>5, <2>6 DEF ReadsTyped
<1>5. ReadOK(r)' /\ Keeps(r)
  BY <1>1, <1>2, <1>3 DEF ReadOK, Keeps, Reads
<1>6. \A x \in Readers \ {r} : read'[x] = read[x]
  BY <1>1, <1>3
<1>7. RequestOK(MetadataRequest(r, 2, read[r].file))'
  BY <1>1, <1>3 DEF RequestOK, MetadataRequest, Request
<1>8. \A q \in queue' : q \in queue \/ RequestOK(q)'
  <2>1. SUFFICES ASSUME NEW q, q = MetadataRequest(r, 2, read[r].file) PROVE RequestOK(q)'
    BY <1>2
  <2> QED BY <1>1, <1>3, <2>1 DEF RequestOK, MetadataRequest, Request
<1> QED BY <1>4, <1>5, <1>6, <1>8, ReadKeeps

\* metadata, after which all requests for chunks have its digest,
LEMMA AsksForChunksKeeps ==
  ASSUME IInv, UNCHANGED <<disk, entries, handling>>, replies' \subseteq replies,
         NEW r \in Readers, AsksForChunks(r)
  PROVE  IInv'
<1>1. PICK c \in Contents :
        /\ Had(r, c)
        /\ read[r].state = "metadata"
        /\ read' = [read EXCEPT ![r].state = "chunks", ![r].digest = c]
        /\ queue' = queue \cup {ChunkRequest(r, read[r].attempt, read[r].file, c, i) :
                                  i \in Remaining(c)}
  BY DEF AsksForChunks
<1>2. /\ read \in [Readers -> Reads] /\ ReadOK(r) /\ read[r] \in Reads
      /\ read[r].file \in Files
      /\ read[r].attempt \in {1, 2}
      /\ read[r].answer = NoAnswer
  BY <1>1, ActiveRead DEF IInv, Active
<1>3. read' = [read EXCEPT ![r] = [read[r] EXCEPT !.state = "chunks", !.digest = c]]
  BY <1>1, <1>2 DEF Reads
<1>4. ReadsTyped'
  BY <1>2, <1>3 DEF ReadsTyped, Reads
<1>5. /\ read'[r].file = read[r].file
      /\ read'[r].began = read[r].began
      /\ read'[r].attempt = read[r].attempt
      /\ read'[r].digest = c
      /\ read'[r].state = "chunks"
      /\ read'[r].chunks = {}
      /\ read'[r].answer = NoAnswer
  BY <1>1, <1>2, <1>3 DEF ReadOK, Reads
<1>6. Had(r, c)'
  BY <1>1, <1>5 DEF Had, HeldFrom
<1>7. ReadOK(r)'
  BY <1>1, <1>2, <1>5, <1>6 DEF ReadOK, Had, HeldFrom
<1>8. Keeps(r)
  BY <1>1, <1>2, <1>5, ContentAssumption DEF ReadOK, Keeps
<1>9. \A x \in Readers \ {r} : read'[x] = read[x]
  BY <1>2, <1>3
<1>10. \A q \in queue' : q \in queue \/ RequestOK(q)'
  <2>1. SUFFICES ASSUME NEW i \in Remaining(c), NEW q,
                        q = ChunkRequest(r, read[r].attempt, read[r].file, c, i)
                 PROVE  RequestOK(q)'
    BY <1>1
  <2>2. i \in Nat
    BY ContentAssumption, LimitAssumption DEF Remaining, ChunkCount
  <2>3. /\ q.from = r /\ q.operation = "readChunk" /\ q.file = read[r].file /\ q.index = i
        /\ q.attempt = read[r].attempt /\ q.digest = c
    BY <2>1 DEF ChunkRequest, Request
  <2> QED BY <1>2, <1>5, <1>6, <2>2, <2>3 DEF RequestOK, Live
<1> QED BY <1>4, <1>7, <1>8, <1>9, <1>10, ReadKeeps

\* and a chunk, which is of that digest.
LEMMA CollectsKeeps ==
  ASSUME IInv, UNCHANGED <<disk, entries, handling>>, replies' \subseteq replies,
         NEW r \in Readers, Collects(r)
  PROVE  IInv'
<1>1. PICK chunks \in SUBSET (Nat \X Contents) :
        /\ read[r].state = "chunks"
        /\ \A chunk \in chunks : chunk[2] = read[r].digest
        /\ read' = [read EXCEPT ![r].chunks = chunks]
        /\ UNCHANGED queue
  BY DEF Collects
<1>2. /\ read \in [Readers -> Reads] /\ ReadOK(r) /\ read[r] \in Reads
      /\ read[r].attempt \in {1, 2}
  BY <1>1, ActiveRead DEF IInv, Active
<1>3. read' = [read EXCEPT ![r] = [read[r] EXCEPT !.chunks = chunks]]
  BY <1>1, <1>2 DEF Reads
<1>4. ReadsTyped'
  BY <1>2, <1>3 DEF ReadsTyped, Reads
<1>5. ReadOK(r)' /\ Keeps(r)
  BY <1>1, <1>2, <1>3 DEF ReadOK, Keeps, Reads, Had, HeldFrom
<1>6. \A x \in Readers \ {r} : read'[x] = read[x]
  BY <1>2, <1>3
<1> QED BY <1>1, <1>4, <1>5, <1>6, ReadKeeps

\* Every reply to a reader keeps the invariant.
LEMMA DeliverKeeps ==
  ASSUME IInv, UNCHANGED <<disk, entries, handling>>,
         NEW p \in replies, p.request.from \in Readers, Deliver(p)
  PROVE  IInv'
<1>1. replies' \subseteq replies
  BY DEF Deliver
<1>2. CASE UNCHANGED <<read, queue>>
  <2>1. \A x \in replies' : ReplyOK(x)
    BY <1>1 DEF IInv
  <2> QED BY <1>2, <2>1, SameHandling, SameEntries, BridgeKeeps DEF IInv
<1> QED BY <1>1, <1>2, DeliverCases, AnsweredKeeps, RetriedKeeps, AsksForChunksKeeps, CollectsKeeps

\* The steps of an editor do not touch the reads.
LEMMA EditorKeeps ==
  ASSUME IInv, UNCHANGED <<disk, entries, handling, read>>,
         replies' \subseteq replies,
         \A q \in queue' : q \in queue \/ RequestOK(q)
  PROVE  IInv'
<1>1. \A q \in queue' : RequestOK(q)
  BY DEF IInv
<1>2. \A p \in replies' : ReplyOK(p)
  BY DEF IInv
<1> QED BY <1>1, <1>2, SameHandling, SameEntries, BridgeKeeps DEF IInv

\* An editor asks for nothing but a folder grant.
LEMMA AskAsks ==
  ASSUME NEW e, e \notin Readers, NEW n, Ask(e, n)
  PROVE  \A q \in queue' : q \in queue \/ RequestOK(q)
<1>1. queue' = queue \cup {GrantRequest(e, n)}
  BY DEF Ask
<1>2. GrantRequest(e, n).from = e /\ GrantRequest(e, n).operation = "authorizeFolder"
  BY DEF GrantRequest, Request
<1>3. RequestOK(GrantRequest(e, n))
  BY <1>2 DEF RequestOK
<1> QED BY <1>1, <1>3

\* Every step of the extension keeps the invariant.
LEMMA ExtensionKeeps ==
  ASSUME IInv, ExtensionStep
  PROVE  IInv'
<1>1. UNCHANGED <<disk, entries, handling>>
  BY DEF ExtensionStep
<1>2. ASSUME NEW r \in Readers, NEW f \in Files, readFile(r, f) PROVE IInv'
  BY <1>1, <1>2, ReadFileKeeps
<1>3. ASSUME NEW r \in Readers, Timeout(r) PROVE IInv'
  BY <1>1, <1>3, TimeoutAnswers, AnsweredKeeps
<1>4. ASSUME NEW p \in replies, p.request.from \in Readers, Deliver(p) PROVE IInv'
  BY <1>1, <1>4, DeliverKeeps
<1>5. ASSUME NEW p \in replies, p.request.from \notin Readers, GrantAnswered(p) PROVE IInv'
  <2>1. UNCHANGED read /\ replies' \subseteq replies
    BY <1>5 DEF GrantAnswered
  <2>2. UNCHANGED queue \/ \E n : Ask(p.request.from, n)
    BY <1>5 DEF GrantAnswered
  <2>3. \A q \in queue' : q \in queue \/ RequestOK(q)
    BY <1>5, <2>2, AskAsks
  <2> QED BY <1>1, <2>1, <2>3, EditorKeeps
<1>6. ASSUME NEW e \in Editors, saveRule(e) PROVE IInv'
  <2>1. e \notin Readers
    BY ClientAssumption
  <2> QED BY <1>1, <1>6, <2>1, AskAsks, EditorKeeps DEF saveRule
<1>7. ASSUME NEW e \in Editors, GrantTimeout(e) PROVE IInv'
  <2>1. UNCHANGED <<queue, replies, read>> /\ \A q \in queue' : q \in queue \/ RequestOK(q)
    BY <1>7 DEF GrantTimeout
  <2> QED BY <1>1, <2>1, EditorKeeps
<1> QED BY <1>2, <1>3, <1>4, <1>5, <1>6, <1>7 DEF ExtensionStep

-----------------------------------------------------------------------------
(* The invariant and what it yields *)

\* The invariant holds at the start.
LEMMA InitiallyIInv ==
  ASSUME SafariInit
  PROVE  IInv
<1>1. \A f \in Files : disk[f] = << FirstContent[f] >> /\ FirstContent[f] \in Contents
  BY ContentAssumption DEF SafariInit, Init
<1>2. DiskOK
  BY <1>1, ContentAssumption DEF SafariInit, Init, DiskOK
<1>3. ReadsTyped /\ \A r \in Readers : ReadOK(r)
  BY DEF SafariInit, ReadsTyped, Reads, ReadOK
<1>4. entries \in Seq(GoodEntries) /\ handling = Idle /\ queue = {} /\ replies = {}
  BY DEF SafariInit, Init
<1>5. HandlingOK
  BY <1>4 DEF HandlingOK, Idle, Phases
<1> QED BY <1>2, <1>3, <1>4, <1>5 DEF IInv, EntriesOK

\* The invariant is inductive.
LEMMA StepKeeps ==
  ASSUME IInv, [Next]_vars
  PROVE  IInv'
<1>1. CASE UNCHANGED vars
  BY <1>1 DEF vars, IInv, DiskOK, ReadsTyped, ReadOK, RequestOK, ReplyOK, HandlingOK, EntriesOK,
     GoodEntries, Live, Had, HeldFrom
<1>2. CASE Next
  BY <1>2, ExtensionKeeps, BridgeStepKeeps, OutsideKeeps DEF Next
<1> QED BY <1>1, <1>2

\* The inductive invariant holds in every reachable state.
THEOREM Invariance == Spec => []IInv
<1>1. SafariInit => IInv
  BY InitiallyIInv
<1>2. IInv /\ [Next]_vars => IInv'
  BY StepKeeps
<1> QED BY <1>1, <1>2, PTL DEF Spec

\* A snapshot is never filed under the fingerprint of another writing of its
\* file, whatever is written while the helper reads (SafariNativeBridge.handle,
\* SafariSnapshotCache.store).
THEOREM FingerprintsFit == Spec => []SnapshotsAreOfTheirWriting
<1>1. ASSUME IInv PROVE SnapshotsAreOfTheirWriting
  <2>1. SUFFICES ASSUME NEW i \in DOMAIN entries, entries[i].fingerprint # NoFingerprint
                 PROVE  entries[i].content = disk[entries[i].file][entries[i].fingerprint]
    BY DEF SnapshotsAreOfTheirWriting
  <2>2. entries[i] \in GoodEntries
    BY <1>1, RemoveAtSeq DEF IInv, EntriesOK
  <2> QED BY <2>1, <2>2 DEF GoodEntries
<1>2. IInv => SnapshotsAreOfTheirWriting
  BY <1>1
<1> QED BY <1>2, Invariance, PTL

-----------------------------------------------------------------------------
(* The promise of a read *)

\* FileReads does not see a step that leaves file, beginning and answer alone.
LEMMA SameReads ==
  ASSUME UNCHANGED disk,
         \A r \in Readers : /\ read'[r].file = read[r].file
                            /\ read'[r].began = read[r].began
                            /\ read'[r].answer = read[r].answer
  PROVE  UNCHANGED Promise!vars
BY DEF Promise!vars

\* readFile is the beginning of a read of FileReads.
LEMMA ReadFileBegins ==
  ASSUME IInv, UNCHANGED disk, NEW r \in Readers, NEW f \in Files, readFile(r, f)
  PROVE  Promise!Begin(r, f)
<1>1. read \in [Readers -> Reads] /\ ReadOK(r) /\ read[r].state = "idle"
  BY DEF IInv, ReadsTyped, readFile
<1>2. read[r].file = NoAnswer /\ read[r].began = 0 /\ read[r].answer = NoAnswer
  BY <1>1 DEF ReadOK
<1>3. \A x \in Readers :
        /\ x # r => read'[x] = read[x]
        /\ x = r => /\ read'[x].file = f
                    /\ read'[x].began = Len(disk[f])
                    /\ read'[x].answer = NoAnswer
  BY <1>1 DEF readFile
<1> QED BY <1>2, <1>3 DEF Promise!Begin, Promise!Idle

\* An answer is the end of a read of FileReads.
LEMMA AnsweredEnds ==
  ASSUME IInv, UNCHANGED disk, NEW r \in Readers, Answered(r)
  PROVE  Promise!End(r)
<1>1. PICK a \in Contents \cup Codes : a \in Promise!Answers(r) /\ Answer(r, a)
  BY DEF Answered
<1>2. read \in [Readers -> Reads] /\ read[r].file # NoAnswer /\ read[r].answer = NoAnswer
  BY ActiveRead DEF Answered
<1>3. read[r] \in Reads
  BY <1>2
<1>4. \A x \in Readers :
        /\ x # r => read'[x] = read[x]
        /\ x = r => /\ read'[x].file = read[r].file
                    /\ read'[x].began = read[r].began
                    /\ read'[x].answer = a
  BY <1>1, <1>2, <1>3 DEF Answer, Reads
<1> QED BY <1>1, <1>2, <1>4 DEF Promise!End

\* FileReads sees no attempts and no chunks.
LEMMA OtherwiseSame ==
  ASSUME IInv, UNCHANGED disk, NEW r \in Readers, Retried(r) \/ AsksForChunks(r) \/ Collects(r)
  PROVE  UNCHANGED Promise!vars
<1>1. read \in [Readers -> Reads] /\ read[r] \in Reads
  BY DEF IInv, ReadsTyped
<1>2. \A x \in Readers : /\ read'[x].file = read[x].file
                         /\ read'[x].began = read[x].began
                         /\ read'[x].answer = read[x].answer
  BY <1>1 DEF Retried, AsksForChunks, Collects, Reads
<1> QED BY <1>2, SameReads

\* A writing, also the deletion of a folder, is a writing of FileReads.
LEMMA WriteWrites ==
  ASSUME IInv, Outside, UNCHANGED read
  PROVE  Promise!Next \/ UNCHANGED Promise!vars
<1>1. CASE Restart
  BY <1>1, SameReads DEF Restart
<1>2. ASSUME NEW f \in Files, NEW c \in Contents \cup {Gone}, Write(f, c)
      PROVE  Promise!Next
  <2>1. disk' = [g \in Files |-> IF g \in {f} THEN Append(disk[g], c) ELSE disk[g]]
    BY <1>2, WriteIsWriting DEF IInv
  <2>2. Promise!Write({f}, c)
    BY <2>1 DEF Promise!Write
  <2>3. {f} \in SUBSET Files
    OBVIOUS
  <2> QED BY <2>2, <2>3 DEF Promise!Next
<1>3. ASSUME NEW g, DeleteFolder(g)
      PROVE  Promise!Next
  <2> DEFINE fs == {f \in Files : FolderOf[f] = g}
  <2>1. disk' = [f \in Files |-> IF f \in fs THEN Append(disk[f], Gone) ELSE disk[f]]
    BY <1>3 DEF DeleteFolder
  <2>2. Promise!Write(fs, Gone)
    BY <2>1 DEF Promise!Write
  <2>3. fs \in SUBSET Files
    OBVIOUS
  <2> QED BY <2>2, <2>3 DEF Promise!Next
<1> QED BY <1>1, <1>2, <1>3 DEF Outside

\* Every step of the extension is one of FileReads or is not seen by it.
LEMMA ExtensionKeepsPromise ==
  ASSUME IInv, ExtensionStep
  PROVE  Promise!Next \/ UNCHANGED Promise!vars
<1>1. UNCHANGED disk
  BY DEF ExtensionStep
<1>2. ASSUME NEW r \in Readers, NEW f \in Files, readFile(r, f) PROVE Promise!Next
  BY <1>1, <1>2, ReadFileBegins DEF Promise!Next
<1>3. ASSUME NEW r \in Readers, Answered(r) PROVE Promise!Next
  BY <1>1, <1>3, AnsweredEnds DEF Promise!Next
<1>4. ASSUME NEW p \in replies, p.request.from \in Readers, Deliver(p)
      PROVE  Promise!Next \/ UNCHANGED Promise!vars
  <2>1. CASE UNCHANGED <<read, queue>>
    BY <1>1, <2>1, SameReads
  <2> QED BY <1>1, <1>3, <1>4, <2>1, DeliverCases, OtherwiseSame
<1>5. ASSUME UNCHANGED read PROVE UNCHANGED Promise!vars
  BY <1>1, <1>5, SameReads
<1> QED
  BY <1>2, <1>3, <1>4, <1>5, TimeoutAnswers DEF ExtensionStep, saveRule, GrantTimeout, GrantAnswered

\* A read ends with one whole content the file had since it began, or with an
\* error that is true: SafariRead implements FileReads (SafariNativeClient.readFile
\* over SafariNativeBridge).
THEOREM Implements == Spec => ReadsKeepTheirPromise
<1>1. SafariInit => Promise!Init
  BY ContentAssumption DEF SafariInit, Init, Promise!Init, Promise!Idle
<1>2. IInv /\ [Next]_vars => [Promise!Next]_(Promise!vars)
  <2>1. SUFFICES ASSUME IInv, [Next]_vars PROVE Promise!Next \/ UNCHANGED Promise!vars
    OBVIOUS
  <2>2. CASE UNCHANGED vars
    BY <2>2, SameReads DEF vars
  <2>3. CASE BridgeStep /\ UNCHANGED <<read, editor>>
    BY <2>3, SameReads DEF BridgeStep
  <2>4. CASE Outside /\ UNCHANGED <<read, editor>>
    BY <2>1, <2>4, WriteWrites
  <2>5. CASE ExtensionStep
    BY <2>1, <2>5, ExtensionKeepsPromise
  <2> QED BY <2>1, <2>2, <2>3, <2>4, <2>5 DEF Next
<1> QED BY <1>1, <1>2, Invariance, PTL DEF Spec, ReadsKeepTheirPromise, Promise!Spec
-----------------------------------------------------------------------------
(* The stored grants: sequences of folders *)

Distinct(s) == \A i, j \in DOMAIN s : s[i] = s[j] => i = j

\* An element less, the others in their order.
LEMMA RemovedAt ==
  ASSUME NEW S, NEW s \in Seq(S), NEW i \in DOMAIN s
  PROVE  /\ RemoveAt(s, i) \in Seq(S)
         /\ Len(RemoveAt(s, i)) = Len(s) - 1
         /\ \A j \in 1..(Len(s) - 1) : RemoveAt(s, i)[j] = IF j < i THEN s[j] ELSE s[j + 1]
<1>1. Len(s) \in Nat /\ DOMAIN s = 1..Len(s) /\ i \in 1..Len(s)
  BY LenProperties
<1>2. \A j \in 1..Len(s) : s[j] \in S
  BY ElementOfSeq
<1> DEFINE front == SubSeq(s, 1, i - 1)
           back == SubSeq(s, i + 1, Len(s))
           rest == RemoveAt(s, i)
<1>3. /\ front \in Seq(S)
      /\ Len(front) = i - 1
      /\ \A j \in 1..(i - 1) : front[j] = s[j]
  <2>1. \A j \in 1..(i - 1) : s[j] \in S
    BY <1>1, <1>2
  <2> QED BY <2>1, <1>1, SubSeqProperties
<1>4. /\ back \in Seq(S)
      /\ Len(back) = Len(s) - i
      /\ \A j \in 1..(Len(s) - i) : back[j] = s[i + j]
  <2>1. \A j \in (i + 1)..Len(s) : s[j] \in S
    BY <1>1, <1>2
  <2>2. /\ back \in Seq(S)
        /\ Len(back) = IF i + 1 <= Len(s) THEN Len(s) - (i + 1) + 1 ELSE 0
        /\ \A j \in 1..(Len(s) - (i + 1) + 1) : back[j] = s[(i + 1) + j - 1]
    BY <2>1, <1>1, SubSeqProperties
  <2> HIDE DEF back
  <2>3. Len(back) = Len(s) - i
    BY <2>2, <1>1
  <2>4. ASSUME NEW j \in 1..(Len(s) - i)
        PROVE  back[j] = s[i + j]
    <3>1. j \in 1..(Len(s) - (i + 1) + 1) /\ (i + 1) + j - 1 = i + j
      BY <1>1
    <3> QED BY <3>1, <2>2
  <2> QED BY <2>2, <2>3, <2>4
<1>5. rest = front \o back
  BY DEF RemoveAt
<1> HIDE DEF front, back
<1>6. /\ rest \in Seq(S)
      /\ Len(rest) = Len(front) + Len(back)
      /\ \A j \in 1..(Len(front) + Len(back)) :
            rest[j] = IF j <= Len(front) THEN front[j] ELSE back[j - Len(front)]
  <2>1. front \in Seq(S) /\ back \in Seq(S)
    BY <1>3, <1>4
  <2> HIDE DEF rest
  <2> QED BY <2>1, <1>5, ConcatProperties, Zenon
<1> HIDE DEF rest
<1>7. Len(rest) = Len(s) - 1
  BY <1>6, <1>1, <1>3, <1>4
<1>8. ASSUME NEW j \in 1..(Len(s) - 1)
      PROVE  rest[j] = IF j < i THEN s[j] ELSE s[j + 1]
  <2>1. j \in 1..(Len(front) + Len(back))
    BY <1>1, <1>3, <1>4
  <2>2. CASE j < i
    <3>1. j \in 1..(i - 1) /\ j <= Len(front)
      BY <2>2, <1>1, <1>3
    <3> QED BY <3>1, <2>1, <2>2, <1>6, <1>3
  <2>3. CASE ~(j < i)
    <3>1. /\ ~(j <= Len(front))
          /\ j - Len(front) \in 1..(Len(s) - i)
          /\ i + (j - Len(front)) = j + 1
      BY <2>3, <1>1, <1>3
    <3>2. rest[j] = back[j - Len(front)]
      BY <3>1, <2>1, <1>6
    <3> QED BY <3>1, <3>2, <2>3, <1>4
  <2> QED BY <2>2, <2>3
<1> QED BY <1>6, <1>7, <1>8 DEF rest

\* What remains of the first n bookmarks of s without those of the dropped
\* folders: these folders, in their order.
Remains(s, n, dropped, out) ==
    /\ out \in Seq(Folders)
    /\ Len(out) <= n
    /\ \A k \in DOMAIN out : \E i \in 1..n : out[k] = s[i] /\ s[i] \notin dropped
    /\ \A k, l \in DOMAIN out :
          k < l => \E i, j \in 1..n : i < j /\ out[k] = s[i] /\ out[l] = s[j]
    /\ \A i \in 1..n : s[i] \in dropped \/ \E k \in DOMAIN out : out[k] = s[i]

\* The recursive function behind Filtered, on a prefix of the bookmarks.
Kept(s, n, dropped) ==
    {f \in [0..n -> Seq(Folders)] :
       \A i \in 0..n : f[i] = IF i = 0 THEN << >>
                              ELSE IF s[i] \in dropped THEN f[i - 1] ELSE Append(f[i - 1], s[i])}

LEMMA KeptExists ==
  ASSUME NEW s \in Seq(Folders), NEW dropped
  PROVE  \A n \in 0..Len(s) : Kept(s, n, dropped) # {}
<1> DEFINE Bad == {n \in 0..Len(s) : Kept(s, n, dropped) = {}}
<1>1. SUFFICES ASSUME Bad # {} PROVE FALSE
  OBVIOUS
<1>2. Bad \subseteq Nat
  BY LenProperties
<1>3. PICK n \in Bad : \A k \in Bad : n <= k
  <2> HIDE DEF Bad
  <2> QED BY <1>1, <1>2, LeastNat
<1>4. n \in 0..Len(s) /\ Kept(s, n, dropped) = {} /\ n \in Nat /\ Len(s) \in Nat
  BY <1>2, LenProperties
<1>5. CASE n = 0
  <2> DEFINE f == [i \in 0..0 |-> << >>]
  <2>1. << >> \in Seq(Folders)
    BY EmptySeq
  <2>2. f \in [0..0 -> Seq(Folders)] /\ \A i \in 0..0 : i = 0 /\ f[i] = << >>
    BY <2>1
  <2> HIDE DEF f
  <2>3. f \in Kept(s, 0, dropped)
    BY <2>2 DEF Kept
  <2> QED BY <2>3, <1>4, <1>5
<1>6. CASE n # 0
  <2>1. n - 1 \in 0..Len(s) /\ n - 1 \in Nat /\ ~(n <= n - 1)
    BY <1>4, <1>6
  <2>2. PICK f : f \in Kept(s, n - 1, dropped)
    BY <2>1, <1>3
  <2>3. f \in [0..(n - 1) -> Seq(Folders)]
        /\ \A i \in 0..(n - 1) :
              f[i] = IF i = 0 THEN << >>
                     ELSE IF s[i] \in dropped THEN f[i - 1] ELSE Append(f[i - 1], s[i])
    BY <2>2 DEF Kept
  <2> DEFINE new == IF s[n] \in dropped THEN f[n - 1] ELSE Append(f[n - 1], s[n])
             g == [i \in 0..n |-> IF i = n THEN new ELSE f[i]]
  <2>4. new \in Seq(Folders)
    <3>1. s[n] \in Folders /\ f[n - 1] \in Seq(Folders)
      BY <2>1, <2>3, <1>4, <1>6, ElementOfSeq
    <3> QED BY <3>1, AppendProperties
  <2>5. new = IF s[n] \in dropped THEN f[n - 1] ELSE Append(f[n - 1], s[n])
    OBVIOUS
  <2> HIDE DEF new
  <2>6. g \in [0..n -> Seq(Folders)] /\ \A i \in 0..n : g[i] = IF i = n THEN new ELSE f[i]
    BY <2>3, <2>4, <1>4, <1>6
  <2> HIDE DEF g
  <2>7. ASSUME NEW i \in 0..n
        PROVE  g[i] = IF i = 0 THEN << >>
                      ELSE IF s[i] \in dropped THEN g[i - 1] ELSE Append(g[i - 1], s[i])
    <3>1. CASE i = n
      <4>1. n - 1 \in 0..n /\ n - 1 # n
        BY <2>1, <1>4
      <4>2. g[i - 1] = f[n - 1] /\ g[i] = new
        BY <4>1, <2>6, <3>1
      <4> QED BY <4>2, <2>5, <3>1, <1>6
    <3>2. CASE i # n
      <4>1. i \in 0..(n - 1) /\ (i # 0 => i - 1 \in 0..(n - 1) /\ i - 1 \in 0..n /\ i - 1 # n)
        BY <3>2, <1>4
      <4>2. g[i] = f[i] /\ (i # 0 => g[i - 1] = f[i - 1])
        BY <4>1, <3>2, <2>6
      <4> QED BY <4>1, <4>2, <2>3
    <3> QED BY <3>1, <3>2
  <2>8. g \in Kept(s, n, dropped)
    BY <2>6, <2>7 DEF Kept
  <2> QED BY <2>8, <1>4
<1> QED BY <1>5, <1>6

\* One bookmark more is dropped, or remains as the last.
LEMMA RemainsStep ==
  ASSUME NEW s \in Seq(Folders), NEW n \in 1..Len(s), NEW dropped, NEW out,
         Remains(s, n - 1, dropped, out)
  PROVE  Remains(s, n, dropped, IF s[n] \in dropped THEN out ELSE Append(out, s[n]))
<1>1. /\ out \in Seq(Folders) /\ Len(out) \in Nat /\ DOMAIN out = 1..Len(out)
      /\ n \in Nat /\ n - 1 \in Nat /\ Len(s) \in Nat /\ s[n] \in Folders /\ Len(out) <= n - 1
  BY ElementOfSeq, LenProperties DEF Remains
<1>2. \A i \in 1..(n - 1) : i \in 1..n /\ i < n
  BY <1>1
<1>3. \A i \in 1..n : i = n \/ i \in 1..(n - 1)
  BY <1>1
<1>4. n \in 1..n
  BY <1>1
<1>5. CASE s[n] \in dropped
  <2>1. \A k \in DOMAIN out : \E i \in 1..n : out[k] = s[i] /\ s[i] \notin dropped
    BY <1>2 DEF Remains
  <2>2. \A k, l \in DOMAIN out :
           k < l => \E i, j \in 1..n : i < j /\ out[k] = s[i] /\ out[l] = s[j]
    BY <1>2 DEF Remains
  <2>3. \A i \in 1..n : s[i] \in dropped \/ \E k \in DOMAIN out : out[k] = s[i]
    BY <1>3, <1>5 DEF Remains
  <2>4. Len(out) <= n
    BY <1>1
  <2>5. Remains(s, n, dropped, out)
    BY <2>1, <2>2, <2>3, <2>4, <1>1 DEF Remains
  <2> QED BY <2>5, <1>5
<1>6. CASE s[n] \notin dropped
  <2>1. PICK more : more = Append(out, s[n])
    OBVIOUS
  <2>2. /\ more \in Seq(Folders) /\ Len(more) = Len(out) + 1
        /\ \A k \in 1..Len(out) : more[k] = out[k]
        /\ more[Len(out) + 1] = s[n]
    BY <2>1, <1>1, AppendProperties
  <2>3. DOMAIN more = 1..(Len(out) + 1) /\ Len(more) <= n
    BY <2>2, <1>1, LenProperties
  <2>4. ASSUME NEW k \in DOMAIN more
        PROVE  \/ k \in DOMAIN out /\ more[k] = out[k]
               \/ k = Len(out) + 1 /\ more[k] = s[n]
    BY <2>2, <2>3, <1>1
  <2>5. ASSUME NEW k \in DOMAIN more
        PROVE  \E i \in 1..n : more[k] = s[i] /\ s[i] \notin dropped
    BY <2>4, <1>2, <1>4, <1>6 DEF Remains
  <2>6. ASSUME NEW k \in DOMAIN more, NEW l \in DOMAIN more, k < l
        PROVE  \E i, j \in 1..n : i < j /\ more[k] = s[i] /\ more[l] = s[j]
    <3>1. k \in DOMAIN out /\ more[k] = out[k]
      BY <2>6, <2>3, <2>4, <1>1
    <3>2. CASE l \in DOMAIN out /\ more[l] = out[l]
      <4>1. PICK i \in 1..(n - 1), j \in 1..(n - 1) : i < j /\ out[k] = s[i] /\ out[l] = s[j]
        BY <3>1, <3>2, <2>6 DEF Remains
      <4> QED BY <4>1, <3>1, <3>2, <1>2
    <3>3. CASE l = Len(out) + 1 /\ more[l] = s[n]
      <4>1. PICK i \in 1..(n - 1) : out[k] = s[i]
        BY <3>1 DEF Remains
      <4> QED BY <4>1, <3>1, <3>3, <1>2, <1>4
    <3> QED BY <2>4, <3>2, <3>3
  <2>7. ASSUME NEW i \in 1..n
        PROVE  s[i] \in dropped \/ \E k \in DOMAIN more : more[k] = s[i]
    <3>1. CASE i = n
      <4>1. Len(out) + 1 \in DOMAIN more
        BY <2>3, <1>1
      <4> QED BY <4>1, <3>1, <2>2
    <3>2. CASE i \in 1..(n - 1)
      <4>1. \A k \in DOMAIN out : k \in DOMAIN more
        BY <2>3, <1>1
      <4> QED BY <4>1, <3>2, <2>2, <1>1 DEF Remains
    <3> QED BY <3>1, <3>2, <1>3
  <2>8. Remains(s, n, dropped, more)
    BY <2>2, <2>3, <2>5, <2>6, <2>7 DEF Remains
  <2> QED BY <2>1, <2>8, <1>6
<1> QED BY <1>5, <1>6

\* storedBookmarks.filter keeps exactly the bookmarks that are not dropped.
LEMMA FilteredRemains ==
  ASSUME NEW s \in Seq(Folders), NEW dropped
  PROVE  Remains(s, Len(s), dropped, Filtered(s, dropped))
<1>1. Len(s) \in Nat /\ Len(s) \in 0..Len(s)
  BY LenProperties
<1>2. PICK f : f \in Kept(s, Len(s), dropped)
  BY <1>1, KeptExists
<1>3. f \in [0..Len(s) -> Seq(Folders)]
      /\ \A i \in 0..Len(s) :
            f[i] = IF i = 0 THEN << >>
                   ELSE IF s[i] \in dropped THEN f[i - 1] ELSE Append(f[i - 1], s[i])
  BY <1>2 DEF Kept
<1> DEFINE eq(g) == g = [n \in 0..Len(s) |->
                            IF n = 0 THEN << >>
                            ELSE IF s[n] \in dropped THEN g[n - 1] ELSE Append(g[n - 1], s[n])]
<1>4. eq(f)
  BY <1>3
<1>5. PICK g : eq(g) /\ Filtered(s, dropped) = g[Len(s)]
  <2>1. Filtered(s, dropped) = (CHOOSE g : eq(g))[Len(s)]
    BY DEF Filtered
  <2>2. eq(CHOOSE g : eq(g))
    <3> HIDE DEF eq
    <3> QED BY <1>4
  <2> QED BY <2>1, <2>2
<1>6. \A n \in 0..Len(s) :
         g[n] = IF n = 0 THEN << >>
                ELSE IF s[n] \in dropped THEN g[n - 1] ELSE Append(g[n - 1], s[n])
  BY <1>5
<1> DEFINE Bad == {n \in 0..Len(s) : ~Remains(s, n, dropped, g[n])}
<1>7. Bad = {}
  <2> SUFFICES ASSUME Bad # {} PROVE FALSE
    OBVIOUS
  <2>1. Bad \subseteq Nat
    BY <1>1
  <2>2. PICK n \in Bad : \A k \in Bad : n <= k
    <3> HIDE DEF Bad
    <3> QED BY <2>1, LeastNat
  <2>3. n \in 0..Len(s) /\ ~Remains(s, n, dropped, g[n])
    OBVIOUS
  <2>4. CASE n = 0
    <3>1. g[n] = << >>
      BY <2>4, <2>3, <1>6
    <3>2. << >> \in Seq(Folders) /\ Len(<< >>) = 0 /\ DOMAIN << >> = {} /\ 1..0 = {}
      BY EmptySeq
    <3>3. Remains(s, 0, dropped, << >>)
      BY <3>2 DEF Remains
    <3> QED BY <3>1, <3>3, <2>3, <2>4
  <2>5. CASE n # 0
    <3>1. n - 1 \in 0..Len(s) /\ ~(n <= n - 1) /\ n \in 1..Len(s)
      BY <2>3, <2>5, <1>1
    <3>2. Remains(s, n - 1, dropped, g[n - 1])
      BY <3>1, <2>2
    <3>3. g[n] = IF s[n] \in dropped THEN g[n - 1] ELSE Append(g[n - 1], s[n])
      BY <2>3, <2>5, <1>6
    <3> QED BY <3>1, <3>2, <3>3, <2>3, RemainsStep
  <2> QED BY <2>4, <2>5
<1> QED BY <1>1, <1>5, <1>7

\* The bookmarks t after a use of folder g: g is the last, the others are in
\* their order of before, and one that is missing was lost or preceded all
\* others of a full list.
Renewed(s, t, g, lost) ==
    /\ t \in Seq(Folders)
    /\ Len(t) <= MaximumBookmarks
    /\ \E k \in DOMAIN t : t[k] = g /\ \A l \in DOMAIN t : l <= k
    /\ Distinct(t)
    /\ \A k \in DOMAIN t : t[k] = g \/ \E i \in DOMAIN s : t[k] = s[i]
    /\ \A k, l \in DOMAIN t :
          k < l /\ t[l] # g => \E i, j \in DOMAIN s : i < j /\ t[k] = s[i] /\ t[l] = s[j]
    /\ \A i \in DOMAIN s :
          \/ s[i] \in lost
          \/ \E k \in DOMAIN t : t[k] = s[i]
          \/ /\ Len(t) = MaximumBookmarks
             /\ \A k \in DOMAIN t : t[k] = g \/ \E j \in DOMAIN s : i < j /\ t[k] = s[j]

\* touchBookmark moves the bookmark to the end.
LEMMA TouchRenews ==
  ASSUME NEW s \in Seq(Folders), Distinct(s), Len(s) <= MaximumBookmarks,
         NEW i \in DOMAIN s, NEW lost
  PROVE  Renewed(s, Append(RemoveAt(s, i), s[i]), s[i], lost)
<1>1. PICK n \in Nat : n = Len(s) /\ DOMAIN s = 1..n /\ i \in 1..n /\ s[i] \in Folders
  BY ElementOfSeq, LenProperties
<1>2. PICK rest \in Seq(Folders) :
         /\ rest = RemoveAt(s, i)
         /\ Len(rest) = n - 1
         /\ \A j \in 1..(n - 1) : rest[j] = IF j < i THEN s[j] ELSE s[j + 1]
  BY <1>1, RemovedAt
<1>3. PICK t \in Seq(Folders) :
         /\ t = Append(rest, s[i])
         /\ Len(t) = n
         /\ \A k \in 1..(n - 1) : t[k] = rest[k]
         /\ t[n] = s[i]
  <2>1. /\ Append(rest, s[i]) \in Seq(Folders)
        /\ Len(Append(rest, s[i])) = Len(rest) + 1
        /\ \A k \in 1..Len(rest) : Append(rest, s[i])[k] = rest[k]
        /\ Append(rest, s[i])[Len(rest) + 1] = s[i]
    BY <1>1, AppendProperties
  <2>2. Len(rest) + 1 = n /\ 1..Len(rest) = 1..(n - 1)
    BY <1>1, <1>2
  <2> QED BY <2>1, <2>2
<1> DEFINE old(k) == IF k = n THEN i ELSE IF k < i THEN k ELSE k + 1
<1>4. DOMAIN t = 1..n
  BY <1>3, LenProperties
<1>5. ASSUME NEW k \in 1..n
      PROVE  /\ old(k) \in 1..n
             /\ t[k] = s[old(k)]
             /\ old(k) = i <=> k = n
  BY <1>1, <1>2, <1>3
<1>6. ASSUME NEW k \in 1..n, NEW l \in 1..n, k < l, l # n
      PROVE  old(k) < old(l)
  BY <1>1, <1>6
<1>7. ASSUME NEW j \in 1..n
      PROVE  \E k \in 1..n : old(k) = j
  <2>1. CASE j < i
    <3>1. old(j) = j
      BY <2>1, <1>1
    <3> QED BY <3>1
  <2>2. CASE j = i
    <3>1. old(n) = j /\ n \in 1..n
      BY <2>2, <1>1
    <3> QED BY <3>1
  <2>3. CASE j > i
    <3>1. j - 1 \in 1..n /\ old(j - 1) = j
      BY <2>3, <1>1
    <3> QED BY <3>1
  <2> QED BY <2>1, <2>2, <2>3, <1>1
<1>8. ASSUME NEW k \in 1..n, NEW l \in 1..n, t[k] = t[l] PROVE k = l
  <2>1. old(k) = old(l)
    BY <1>1, <1>5, <1>8 DEF Distinct
  <2> HIDE DEF old
  <2>2. CASE k = n \/ l = n
    BY <2>1, <2>2, <1>5
  <2>3. CASE k # n /\ l # n
    <3>1. ~(k < l) /\ ~(l < k)
      <4>1. old(k) \in Nat /\ old(l) \in Nat
        BY <1>5
      <4> QED BY <4>1, <2>1, <2>3, <1>6
    <3> QED BY <3>1
  <2> QED BY <2>2, <2>3
<1>9. \A k \in 1..n : t[k] = s[i] <=> k = n
  BY <1>1, <1>3, <1>8
<1> HIDE DEF old
<1>10. ASSUME NEW k \in 1..n, NEW l \in 1..n, k < l, t[l] # s[i]
       PROVE  \E a, b \in 1..n : a < b /\ t[k] = s[a] /\ t[l] = s[b]
  <2>1. old(k) < old(l)
    BY <1>6, <1>9, <1>10
  <2> QED BY <2>1, <1>5
<1>11. \A k \in 1..n : \E a \in 1..n : t[k] = s[a]
  BY <1>5
<1>12. \A j \in 1..n : \E k \in 1..n : t[k] = s[j]
  BY <1>5, <1>7
<1>13. \E k \in 1..n : t[k] = s[i] /\ \A l \in 1..n : l <= k
  <2>1. n \in 1..n /\ \A l \in 1..n : l <= n
    BY <1>1
  <2> QED BY <2>1, <1>3
<1>14. Distinct(t)
  BY <1>4, <1>8 DEF Distinct
<1>15. Len(t) <= MaximumBookmarks
  BY <1>1, <1>3
<1>16. Renewed(s, t, s[i], lost)
  <2>1. \E k \in DOMAIN t : t[k] = s[i] /\ \A l \in DOMAIN t : l <= k
    BY <1>4, <1>13
  <2>2. \A k \in DOMAIN t : \E a \in DOMAIN s : t[k] = s[a]
    BY <1>1, <1>4, <1>11
  <2>3. ASSUME NEW k \in DOMAIN t, NEW l \in DOMAIN t, k < l, t[l] # s[i]
        PROVE  \E a, b \in DOMAIN s : a < b /\ t[k] = s[a] /\ t[l] = s[b]
    <3>1. k \in 1..n /\ l \in 1..n
      BY <1>4
    <3>2. \E a, b \in 1..n : a < b /\ t[k] = s[a] /\ t[l] = s[b]
      BY <3>1, <2>3, <1>10
    <3> QED BY <3>2, <1>1
  <2>4. \A a \in DOMAIN s : \E k \in DOMAIN t : t[k] = s[a]
    BY <1>1, <1>4, <1>12
  <2> QED BY <2>1, <2>2, <2>3, <2>4, <1>14, <1>15 DEF Renewed
<1> QED BY <1>2, <1>3, <1>16

\* The bookmarks saveAuthorization stores.
WithGrant(s, g, lost) ==
    LET saved == Append(Filtered(s, lost \cup {g}), g)
        excess == IF Len(saved) > MaximumBookmarks THEN Len(saved) - MaximumBookmarks ELSE 0
    IN SubSeq(saved, excess + 1, Len(saved))

\* saveAuthorization adds the folder and drops one above the limit.
LEMMA SaveRenews ==
  ASSUME NEW s \in Seq(Folders), Distinct(s), Len(s) <= MaximumBookmarks,
         NEW g \in Folders, NEW lost
  PROVE  Renewed(s, WithGrant(s, g, lost), g, lost)
<1>1. /\ Len(s) \in Nat /\ DOMAIN s = 1..Len(s) /\ MaximumBookmarks \in Nat \ {0}
  BY LenProperties, LimitAssumption
<1>2. PICK others : others = Filtered(s, lost \cup {g}) /\ Remains(s, Len(s), lost \cup {g}, others)
  BY FilteredRemains
<1>3. PICK m \in Nat : m = Len(others) /\ m <= Len(s)
  BY <1>2, LenProperties DEF Remains
<1>4. others \in Seq(Folders) /\ DOMAIN others = 1..m
  BY <1>2, <1>3, LenProperties DEF Remains
<1>5. ASSUME NEW k \in 1..m
      PROVE  others[k] # g /\ \E i \in DOMAIN s : others[k] = s[i]
  <2>1. \E i \in 1..Len(s) : others[k] = s[i] /\ s[i] \notin lost \cup {g}
    BY <1>4, <1>2 DEF Remains
  <2> QED BY <2>1, <1>1
<1>6. ASSUME NEW k \in 1..m, NEW l \in 1..m, k < l
      PROVE  \E i, j \in DOMAIN s : i < j /\ others[k] = s[i] /\ others[l] = s[j]
  <2>1. \A a, b \in DOMAIN others :
           a < b => \E i, j \in 1..Len(s) : i < j /\ others[a] = s[i] /\ others[b] = s[j]
    BY <1>2 DEF Remains
  <2>2. k \in DOMAIN others /\ l \in DOMAIN others
    BY <1>4
  <2>3. \E i, j \in 1..Len(s) : i < j /\ others[k] = s[i] /\ others[l] = s[j]
    BY <2>1, <2>2, <1>6
  <2> QED BY <2>3, <1>1
<1>7. ASSUME NEW i \in DOMAIN s
      PROVE  s[i] \in lost \cup {g} \/ \E k \in 1..m : others[k] = s[i]
  <2>1. s[i] \in lost \cup {g} \/ \E k \in DOMAIN others : others[k] = s[i]
    BY <1>1, <1>2 DEF Remains
  <2> QED BY <2>1, <1>4
<1>8. PICK saved \in Seq(Folders) :
         /\ saved = Append(others, g)
         /\ Len(saved) = m + 1
         /\ \A k \in 1..m : saved[k] = others[k]
         /\ saved[m + 1] = g
  <2>1. /\ Append(others, g) \in Seq(Folders)
        /\ Len(Append(others, g)) = Len(others) + 1
        /\ \A k \in 1..Len(others) : Append(others, g)[k] = others[k]
        /\ Append(others, g)[Len(others) + 1] = g
    BY <1>4, AppendProperties
  <2> QED BY <2>1, <1>3
<1>9. PICK x \in Nat, n \in Nat :
         /\ x = (IF m + 1 > MaximumBookmarks THEN (m + 1) - MaximumBookmarks ELSE 0)
         /\ n = (m + 1) - x /\ n >= 1 /\ n <= MaximumBookmarks
         /\ x = 0 \/ (x = 1 /\ n = MaximumBookmarks)
  <2>1. CASE m + 1 > MaximumBookmarks
    <3>1. m = MaximumBookmarks /\ (m + 1) - MaximumBookmarks = 1
      BY <2>1, <1>1, <1>3
    <3>2. 1 \in Nat /\ m \in Nat /\ m = (m + 1) - 1 /\ m >= 1
          /\ m <= MaximumBookmarks
      BY <3>1, <1>1
    <3> QED BY <2>1, <3>1, <3>2
  <2>2. CASE ~(m + 1 > MaximumBookmarks)
    <3>1. m + 1 <= MaximumBookmarks
      BY <2>2, <1>1, <1>3
    <3>2. 0 \in Nat /\ m + 1 \in Nat /\ m + 1 = (m + 1) - 0 /\ m + 1 >= 1
      BY <1>3
    <3> QED BY <2>2, <3>1, <3>2
  <2> QED BY <2>1, <2>2
<1>10. /\ x \in Nat /\ n \in Nat /\ m \in Nat
       /\ n + x = m + 1 /\ n >= 1
       /\ x = 0 \/ (x = 1 /\ n = MaximumBookmarks)
  BY <1>3, <1>9
<1>11. PICK t \in Seq(Folders) :
         /\ t = SubSeq(saved, x + 1, m + 1)
         /\ Len(t) = n
         /\ \A k \in 1..n : t[k] = saved[k + x]
  <2>1. PICK a \in Nat, b \in Nat : a = x + 1 /\ b = m + 1
    <3>1. x + 1 \in Nat /\ m + 1 \in Nat
      BY <1>3, <1>9
    <3> QED BY <3>1
  <2>2. \A k \in a..b : saved[k] \in Folders
    <3>1. \A k \in a..b : k \in 1..Len(saved)
      BY <2>1, <1>3, <1>8, <1>9
    <3> QED BY <3>1, <1>8, ElementOfSeq
  <2>3. PICK u : u = SubSeq(saved, a, b)
    OBVIOUS
  <2>4. /\ u \in Seq(Folders)
        /\ Len(u) = IF a <= b THEN b - a + 1 ELSE 0
        /\ \A k \in 1..(b - a + 1) : u[k] = saved[a + k - 1]
    <3>1. /\ SubSeq(saved, a, b) \in Seq(Folders)
          /\ Len(SubSeq(saved, a, b)) = (IF a <= b THEN b - a + 1 ELSE 0)
          /\ \A k \in 1..(b - a + 1) : SubSeq(saved, a, b)[k] = saved[a + k - 1]
      BY <2>1, <2>2, SubSeqProperties
    <3> QED BY <3>1, <2>3
  <2>5. a <= b /\ b - a + 1 = n
    BY <2>1, <1>10
  <2>6. Len(u) = n
    BY <2>4, <2>5
  <2>7. ASSUME NEW k \in 1..n PROVE u[k] = saved[k + x]
    <3>1. k \in 1..(b - a + 1) /\ a + k - 1 = k + x
      BY <2>1, <2>5, <1>9
    <3> QED BY <3>1, <2>4
  <2>8. u = SubSeq(saved, x + 1, m + 1)
    BY <2>1, <2>3
  <2> QED BY <2>4, <2>6, <2>7, <2>8
<1>12. DOMAIN t = 1..n
  BY <1>11, LenProperties
<1>13. ASSUME NEW k \in 1..n
       PROVE  (k = n /\ t[k] = g) \/ (k < n /\ k + x \in 1..m /\ t[k] = others[k + x])
  <2>1. CASE k = n
    <3>1. k + x = m + 1
      BY <2>1, <1>9
    <3> QED BY <2>1, <3>1, <1>8, <1>11
  <2>2. CASE k # n
    <3>1. k < n /\ k + x \in 1..m
      BY <2>2, <1>10
    <3> QED BY <3>1, <1>8, <1>11
  <2> QED BY <2>1, <2>2
<1>14. ASSUME NEW k \in 1..n PROVE t[k] = g <=> k = n
  <2>1. CASE k = n /\ t[k] = g
    BY <2>1
  <2>2. CASE k < n /\ k + x \in 1..m /\ t[k] = others[k + x]
    <3>1. t[k] # g
      BY <2>2, <1>5
    <3>2. k # n
      BY <2>2, <1>9
    <3> QED BY <3>1, <3>2
  <2> QED BY <2>1, <2>2, <1>13
<1>15. ASSUME NEW k \in 1..n, NEW l \in 1..n, k < l, t[l] # g
       PROVE  \E i, j \in DOMAIN s : i < j /\ t[k] = s[i] /\ t[l] = s[j]
  <2>1. k # n
    BY <1>9, <1>15
  <2>2. PICK a \in 1..m, b \in 1..m :
           a = k + x /\ b = l + x /\ t[k] = others[a] /\ t[l] = others[b]
    BY <2>1, <1>13, <1>15
  <2>3. a < b
    BY <2>2, <1>15, <1>10
  <2> QED BY <2>2, <2>3, <1>6
<1>16. ASSUME NEW k \in 1..n, NEW l \in 1..n, t[k] = t[l], k < l PROVE FALSE
  <2>1. CASE t[l] = g
    BY <2>1, <1>14, <1>16
  <2>2. CASE t[l] # g
    <3>1. PICK i \in DOMAIN s, j \in DOMAIN s : i < j /\ t[k] = s[i] /\ t[l] = s[j]
      BY <2>2, <1>15, <1>16
    <3>2. i = j
      BY <3>1, <1>16 DEF Distinct
    <3> QED BY <3>1, <3>2, <1>1
  <2> QED BY <2>1, <2>2
<1>17. Distinct(t)
  <2> SUFFICES ASSUME NEW k \in 1..n, NEW l \in 1..n, t[k] = t[l] PROVE k = l
    BY <1>12 DEF Distinct
  <2>1. ~(k < l) /\ ~(l < k)
    BY <1>16
  <2> QED BY <2>1
<1>18. ASSUME NEW i \in DOMAIN s, s[i] \notin lost
       PROVE  \/ \E k \in 1..n : t[k] = s[i]
              \/ /\ n = MaximumBookmarks
                 /\ \A k \in 1..n : t[k] = g \/ \E j \in DOMAIN s : i < j /\ t[k] = s[j]
  <2>1. CASE s[i] = g
    <3>1. n \in 1..n
      BY <1>9
    <3> QED BY <2>1, <3>1, <1>14
  <2>2. CASE s[i] # g
    <3>1. PICK k \in 1..m : others[k] = s[i]
      BY <2>2, <1>7, <1>18
    <3>2. CASE k > x
      <4>1. PICK l \in 1..n : l = k - x
        <5>1. k \in Nat /\ k <= m /\ x \in Nat /\ n = (m + 1) - x
          BY <1>3, <1>9
        <5>2. k - x \in 1..n
          BY <5>1, <3>2, <1>3
        <5> QED BY <5>2
      <4>2. l + x = k /\ l # n
        <5>1. k \in Nat /\ k <= m /\ x \in Nat /\ n = (m + 1) - x
          BY <1>3, <1>9
        <5> QED BY <5>1, <4>1, <1>3
      <4> QED BY <4>2, <3>1, <1>13
    <3>3. CASE ~(k > x)
      <4>1. k = 1 /\ x = 1 /\ n = MaximumBookmarks
        <5>1. k \in Nat /\ k >= 1 /\ x \in Nat
          BY <1>3
        <5> QED BY <5>1, <3>3, <1>9
      <4>2. ASSUME NEW l \in 1..n, t[l] # g
            PROVE  \E j \in DOMAIN s : i < j /\ t[l] = s[j]
        <5>1. PICK b \in 1..m : b = l + x /\ t[l] = others[b]
          BY <4>2, <1>13
        <5>2. k < b
          BY <5>1, <4>1
        <5>3. PICK a \in DOMAIN s, c \in DOMAIN s : a < c /\ others[k] = s[a] /\ others[b] = s[c]
          BY <5>2, <1>6
        <5>4. a = i
          BY <5>3, <3>1 DEF Distinct
        <5> QED BY <5>1, <5>3, <5>4
      <4> QED BY <4>1, <4>2
    <3> QED BY <3>2, <3>3, <1>9
  <2> QED BY <2>1, <2>2
<1>19. \E k \in 1..n : t[k] = g /\ \A l \in 1..n : l <= k
  <2>1. n \in 1..n /\ \A l \in 1..n : l <= n
    BY <1>9
  <2> QED BY <2>1, <1>14
<1>20. ASSUME NEW k \in 1..n
       PROVE  t[k] = g \/ \E i \in DOMAIN s : t[k] = s[i]
  BY <1>5, <1>13
<1>21. Len(t) <= MaximumBookmarks
  BY <1>9, <1>11
<1>22. Renewed(s, t, g, lost)
  <2>1. \E k \in DOMAIN t : t[k] = g /\ \A l \in DOMAIN t : l <= k
    BY <1>12, <1>19
  <2>2. \A k \in DOMAIN t : t[k] = g \/ \E i \in DOMAIN s : t[k] = s[i]
    BY <1>12, <1>20
  <2>3. ASSUME NEW k \in DOMAIN t, NEW l \in DOMAIN t, k < l, t[l] # g
        PROVE  \E i, j \in DOMAIN s : i < j /\ t[k] = s[i] /\ t[l] = s[j]
    BY <2>3, <1>12, <1>15
  <2>4. ASSUME NEW i \in DOMAIN s
        PROVE  \/ s[i] \in lost
               \/ \E k \in DOMAIN t : t[k] = s[i]
               \/ /\ Len(t) = MaximumBookmarks
                  /\ \A k \in DOMAIN t : t[k] = g \/ \E j \in DOMAIN s : i < j /\ t[k] = s[j]
    <3>1. CASE s[i] \in lost
      BY <3>1
    <3>2. CASE s[i] \notin lost
      <4>1. CASE \E k \in 1..n : t[k] = s[i]
        BY <4>1, <1>12
      <4>2. CASE /\ n = MaximumBookmarks
                 /\ \A k \in 1..n : t[k] = g \/ \E j \in DOMAIN s : i < j /\ t[k] = s[j]
        BY <4>2, <1>11, <1>12
      <4> QED BY <4>1, <4>2, <3>2, <1>18
    <3> QED BY <3>1, <3>2
  <2> QED BY <2>1, <2>2, <2>3, <2>4, <1>17, <1>21 DEF Renewed
<1>23. WithGrant(s, g, lost) = t
  <2>1. WithGrant(s, g, lost) =
          SubSeq(saved, (IF Len(saved) > MaximumBookmarks THEN Len(saved) - MaximumBookmarks
                         ELSE 0) + 1, Len(saved))
    BY <1>2, <1>8 DEF WithGrant
  <2> QED BY <2>1, <1>8, <1>9, <1>11
<1> QED BY <1>22, <1>23

-----------------------------------------------------------------------------
(* The stored grants stay in the order of their last uses *)

GrantsInv ==
    /\ bookmarks \in Seq(Folders)
    /\ Len(bookmarks) <= MaximumBookmarks
    /\ Distinct(bookmarks)
    /\ recent \in [Folders -> (SUBSET Folders) \cup {Never}]
    /\ \A g \in Folders : recent[g] # Never => IsFiniteSet(recent[g])
    /\ \A i \in DOMAIN bookmarks : recent[bookmarks[i]] # Never
    /\ \A i, j \in DOMAIN bookmarks : i < j => bookmarks[j] \in recent[bookmarks[i]]
    /\ GrantsLast

\* A use of a folder, as the history has it.
LEMMA NotedUse ==
  ASSUME GrantsInv, NEW g \in Folders, NoteUse(g)
  PROVE  /\ recent' \in [Folders -> (SUBSET Folders) \cup {Never}]
         /\ recent'[g] # Never
         /\ \A h \in Folders : recent[h] # Never => recent'[h] # Never
         /\ \A h \in Folders : recent[h] = Never => h = g \/ recent'[h] = Never
         /\ \A h \in Folders : h # g /\ recent[h] # Never => recent'[h] = recent[h] \cup {g}
         /\ \A h \in Folders : recent'[h] # Never => IsFiniteSet(recent'[h])
<1>1. /\ recent \in [Folders -> (SUBSET Folders) \cup {Never}]
      /\ \A h \in Folders : recent[h] # Never => IsFiniteSet(recent[h])
  BY DEF GrantsInv
<1>2. \A G \in SUBSET Folders : Never # G
  BY GrantAssumption
<1>3. recent' = [h \in Folders |-> IF h = g THEN {}
                                   ELSE IF recent[h] = Never THEN Never
                                   ELSE recent[h] \cup {g}]
  BY DEF NoteUse
<1>4. \A h \in Folders : recent[h] # Never => recent[h] \cup {g} \in SUBSET Folders
  BY <1>1
<1>5. ASSUME NEW h \in Folders
      PROVE  recent'[h] \in (SUBSET Folders) \cup {Never}
  BY <1>3, <1>4
<1>6. recent' \in [Folders -> (SUBSET Folders) \cup {Never}]
  BY <1>3, <1>4
<1>7. recent'[g] = {} /\ {} \in SUBSET Folders
  BY <1>3
<1>8. ASSUME NEW h \in Folders, h # g
      PROVE  recent'[h] = IF recent[h] = Never THEN Never ELSE recent[h] \cup {g}
  BY <1>3, <1>8
<1>9. ASSUME NEW h \in Folders, recent[h] # Never PROVE recent'[h] # Never
  BY <1>2, <1>4, <1>7, <1>8, <1>9
<1>10. ASSUME NEW h \in Folders, recent'[h] # Never PROVE IsFiniteSet(recent'[h])
  <2>1. CASE h = g
    BY <2>1, <1>7, FS_EmptySet
  <2>2. CASE h # g
    <3>1. recent[h] # Never /\ recent'[h] = recent[h] \cup {g}
      BY <2>2, <1>8, <1>10
    <3>2. IsFiniteSet(recent[h])
      BY <3>1, <1>1
    <3>3. IsFiniteSet(recent[h] \cup {g})
      BY <3>2, FS_AddElement
    <3> QED BY <3>1, <3>3
  <2> QED BY <2>1, <2>2
<1>11. recent'[g] # Never
  BY <1>2, <1>7
<1>12. \A h \in Folders : recent[h] = Never => h = g \/ recent'[h] = Never
  BY <1>8
<1>13. \A h \in Folders : h # g /\ recent[h] # Never => recent'[h] = recent[h] \cup {g}
  BY <1>8
<1> QED BY <1>6, <1>9, <1>10, <1>11, <1>12, <1>13

\* As many different folders as there are places in the list.
LEMMA FullList ==
  ASSUME NEW t \in Seq(Folders), Distinct(t), Len(t) = MaximumBookmarks,
         NEW used, IsFiniteSet(used), \A k \in DOMAIN t : t[k] \in used
  PROVE  Cardinality(used) >= MaximumBookmarks
<1>1. DOMAIN t = 1..MaximumBookmarks /\ MaximumBookmarks \in Nat /\ MaximumBookmarks >= 1
  BY LenProperties, LimitAssumption
<1>2. t \in [DOMAIN t -> used]
  BY LenProperties
<1>3. t \in Injection(DOMAIN t, used)
  BY <1>2 DEF Distinct, Injection, IsInjective
<1>4. Cardinality(DOMAIN t) <= Cardinality(used)
  BY <1>3, FS_Injection
<1>5. Cardinality(DOMAIN t) = MaximumBookmarks
  <2>1. Cardinality(1..MaximumBookmarks) = MaximumBookmarks
    BY <1>1, FS_Interval
  <2> QED BY <2>1, <1>1
<1>6. Cardinality(used) \in Nat
  BY FS_CardinalityType
<1> QED BY <1>1, <1>4, <1>5, <1>6

\* A use keeps the order and loses no folder early.
LEMMA UseKeeps ==
  ASSUME GrantsInv, NEW g \in Folders, NoteUse(g), UNCHANGED gone,
         Renewed(bookmarks, bookmarks', g, gone)
  PROVE  GrantsInv'
<1> PICK s \in Seq(Folders) : s = bookmarks
  BY DEF GrantsInv
<1>1. PICK t \in Seq(Folders) : t = bookmarks' /\ Renewed(s, t, g, gone)
  BY DEF Renewed
<1>2. /\ \A i \in DOMAIN s : recent[s[i]] # Never
      /\ \A i, j \in DOMAIN s : i < j => s[j] \in recent[s[i]]
      /\ \A i \in DOMAIN s : s[i] \in Folders
  BY ElementOfSeq, LenProperties DEF GrantsInv
<1>3. /\ recent' \in [Folders -> (SUBSET Folders) \cup {Never}]
      /\ recent'[g] # Never
      /\ \A h \in Folders : recent[h] # Never => recent'[h] # Never
      /\ \A h \in Folders : recent[h] = Never => h = g \/ recent'[h] = Never
      /\ \A h \in Folders : h # g /\ recent[h] # Never => recent'[h] = recent[h] \cup {g}
      /\ \A h \in Folders : recent'[h] # Never => IsFiniteSet(recent'[h])
  BY NotedUse
<1>4. /\ Len(t) <= MaximumBookmarks /\ Distinct(t)
      /\ \A k \in DOMAIN t : t[k] \in Folders /\ k \in Nat
  BY <1>1, ElementOfSeq, LenProperties DEF Renewed
<1>5. PICK last \in DOMAIN t : t[last] = g /\ \A l \in DOMAIN t : l <= last
  BY <1>1 DEF Renewed
<1>6. ASSUME NEW k \in DOMAIN t
      PROVE  t[k] = g \/ \E i \in DOMAIN s : t[k] = s[i]
  BY <1>1 DEF Renewed
<1>7. ASSUME NEW k \in DOMAIN t PROVE recent'[t[k]] # Never
  BY <1>2, <1>3, <1>6
<1>8. ASSUME NEW k \in DOMAIN t, NEW l \in DOMAIN t, k < l
      PROVE  t[l] \in recent'[t[k]]
  <2>1. t[k] # g
    <3>1. k # last
      BY <1>4, <1>5, <1>8
    <3> QED BY <3>1, <1>4, <1>5 DEF Distinct
  <2>2. PICK i \in DOMAIN s : t[k] = s[i]
    BY <2>1, <1>6
  <2>3. t[k] \in Folders /\ recent[t[k]] # Never /\ recent'[t[k]] = recent[t[k]] \cup {g}
    BY <2>1, <2>2, <1>2, <1>3
  <2>4. CASE t[l] = g
    BY <2>3, <2>4
  <2>5. CASE t[l] # g
    <3>1. PICK a \in DOMAIN s, b \in DOMAIN s : a < b /\ t[k] = s[a] /\ t[l] = s[b]
      BY <2>5, <1>1, <1>8 DEF Renewed
    <3> QED BY <3>1, <2>3, <1>2
  <2> QED BY <2>4, <2>5
<1>9. ASSUME NEW h \in Folders, h \notin gone, recent'[h] # Never, h \notin Range(t)
      PROVE  Cardinality(recent'[h]) >= MaximumBookmarks
  <2>1. h # g
    BY <1>5, <1>9 DEF Range
  <2>2. recent[h] # Never /\ recent'[h] = recent[h] \cup {g} /\ IsFiniteSet(recent'[h])
    BY <2>1, <1>3, <1>9
  <2>3. CASE h \in Range(s)
    <3>1. PICK i \in DOMAIN s : s[i] = h
      BY <2>3 DEF Range
    <3>2. ~ \E k \in DOMAIN t : t[k] = s[i]
      BY <3>1, <1>9 DEF Range
    <3>3. /\ Len(t) = MaximumBookmarks
          /\ \A k \in DOMAIN t : t[k] = g \/ \E j \in DOMAIN s : i < j /\ t[k] = s[j]
      BY <3>1, <3>2, <1>1, <1>9 DEF Renewed
    <3>4. ASSUME NEW k \in DOMAIN t PROVE t[k] \in recent'[h]
      <4>1. CASE t[k] = g
        BY <4>1, <2>2
      <4>2. CASE \E j \in DOMAIN s : i < j /\ t[k] = s[j]
        BY <4>2, <3>1, <2>2, <1>2
      <4> QED BY <4>1, <4>2, <3>3
    <3> QED BY <3>3, <3>4, <2>2, <1>4, FullList
  <2>4. CASE h \notin Range(s)
    <3>1. Cardinality(recent[h]) >= MaximumBookmarks
      BY <2>2, <2>4, <1>9 DEF GrantsInv, GrantsLast
    <3>2. recent[h] \in SUBSET recent'[h]
      BY <2>2
    <3>3. Cardinality(recent[h]) <= Cardinality(recent'[h]) /\ IsFiniteSet(recent[h])
      BY <3>2, <2>2, FS_Subset
    <3>4. Cardinality(recent[h]) \in Nat /\ Cardinality(recent'[h]) \in Nat
      BY <3>3, <2>2, FS_CardinalityType
    <3> QED BY <3>1, <3>3, <3>4, LimitAssumption
  <2> QED BY <2>3, <2>4
<1>10. GrantsLast'
  BY <1>1, <1>9 DEF GrantsLast
<1> QED BY <1>1, <1>3, <1>4, <1>7, <1>8, <1>10 DEF GrantsInv

\* The first usable bookmark is one.
LEMMA FirstCovers ==
  ASSUME GrantsInv, NEW f, Authorized(f)
  PROVE  FirstCovering(f) \in Covering(f)
<1>1. DOMAIN bookmarks \subseteq Nat
  BY LenProperties DEF GrantsInv
<1>2. Covering(f) \subseteq Nat /\ Covering(f) # {}
  BY <1>1 DEF Covering, Authorized
<1>3. PICK i \in Covering(f) : \A j \in Covering(f) : i <= j
  BY <1>2, LeastNat
<1> DEFINE least(i_1) == \A j \in Covering(f) : i_1 <= j
<1>4. least(i)
  BY <1>3
<1>5. FirstCovering(f) = CHOOSE i_1 \in Covering(f) : least(i_1)
  BY DEF FirstCovering
<1> HIDE DEF least
<1> QED BY <1>4, <1>5

\* An access to a file through a grant.
LEMMA AccessKeeps ==
  ASSUME GrantsInv, NEW f, Authorized(f), touchBookmark(FirstCovering(f)), UNCHANGED gone
  PROVE  GrantsInv'
<1>1. PICK i : i = FirstCovering(f) /\ i \in Covering(f)
  BY FirstCovers
<1>2. i \in DOMAIN bookmarks
  BY <1>1 DEF Covering
<1>3. bookmarks' = Append(RemoveAt(bookmarks, i), bookmarks[i]) /\ NoteUse(bookmarks[i])
  BY <1>1 DEF touchBookmark
<1>4. bookmarks \in Seq(Folders) /\ Distinct(bookmarks) /\ Len(bookmarks) <= MaximumBookmarks
  BY DEF GrantsInv
<1>5. bookmarks[i] \in Folders
  BY <1>2, <1>4, ElementOfSeq, LenProperties
<1>6. Renewed(bookmarks, bookmarks', bookmarks[i], gone)
  BY <1>2, <1>3, <1>4, TouchRenews
<1> QED BY <1>3, <1>5, <1>6, UseKeeps

\* A new grant.
LEMMA SaveKeeps ==
  ASSUME GrantsInv, NEW g \in Folders, saveAuthorization(g), UNCHANGED gone
  PROVE  GrantsInv'
<1>1. bookmarks' = WithGrant(bookmarks, g, gone) /\ NoteUse(g)
  BY DEF saveAuthorization, WithGrant
<1>2. bookmarks \in Seq(Folders) /\ Distinct(bookmarks) /\ Len(bookmarks) <= MaximumBookmarks
  BY DEF GrantsInv
<1>3. Renewed(bookmarks, bookmarks', g, gone)
  BY <1>1, <1>2, SaveRenews
<1> QED BY <1>1, <1>3, UseKeeps

\* Nothing happens to the grants, though folders may be deleted.
LEMMA GrantsStay ==
  ASSUME GrantsInv, UNCHANGED <<bookmarks, recent>>, gone \subseteq gone'
  PROVE  GrantsInv'
BY DEF GrantsInv, GrantsLast

\* What earlier times stored.
LEMMA InitialGrants ==
  ASSUME Init
  PROVE  GrantsInv
<1>1. /\ bookmarks \in Seq(Folders) /\ Len(bookmarks) <= MaximumBookmarks
      /\ Distinct(bookmarks)
  BY GrantAssumption DEF Init, Distinct
<1>2. \A G \in SUBSET Folders : Never # G
  BY GrantAssumption
<1> DEFINE after(g) == {h \in Folders : \E i, j \in DOMAIN bookmarks :
                            i < j /\ bookmarks[i] = g /\ bookmarks[j] = h}
<1>3. recent = [g \in Folders |-> IF g \in Range(bookmarks) THEN after(g) ELSE Never]
  BY DEF Init
<1>4. \A g : after(g) \in SUBSET Folders /\ after(g) \in SUBSET Range(bookmarks)
  BY DEF Range
<1>5. \A i \in DOMAIN bookmarks : bookmarks[i] \in Range(bookmarks) /\ bookmarks[i] \in Folders
  BY <1>1, ElementOfSeq, LenProperties DEF Range
<1>6. \A i, j \in DOMAIN bookmarks : i < j => bookmarks[j] \in after(bookmarks[i])
  BY <1>5
<1>7. IsFiniteSet(Range(bookmarks))
  <2>1. IsFiniteSet(DOMAIN bookmarks)
    <3>1. DOMAIN bookmarks = 1..Len(bookmarks) /\ Len(bookmarks) \in Nat
      BY <1>1, LenProperties
    <3>2. IsFiniteSet(1..Len(bookmarks))
      BY <3>1, FS_Interval
    <3> QED BY <3>1, <3>2
  <2>2. bookmarks \in Surjection(DOMAIN bookmarks, Range(bookmarks))
    <3>1. bookmarks \in [DOMAIN bookmarks -> Range(bookmarks)]
      BY <1>1, LenProperties DEF Range
    <3> QED BY <3>1 DEF Surjection, Range
  <2> QED BY <2>1, <2>2, FS_Surjection
<1> HIDE DEF after
<1>8. recent \in [Folders -> (SUBSET Folders) \cup {Never}]
  BY <1>3, <1>4
<1>9. ASSUME NEW g \in Folders, recent[g] # Never PROVE IsFiniteSet(recent[g])
  <2>1. recent[g] = after(g)
    BY <1>3, <1>9
  <2>2. IsFiniteSet(after(g))
    BY <1>4, <1>7, FS_Subset
  <2> QED BY <2>1, <2>2
<1>10. \A i \in DOMAIN bookmarks : recent[bookmarks[i]] = after(bookmarks[i])
  BY <1>3, <1>5
<1>11. \A i \in DOMAIN bookmarks : recent[bookmarks[i]] # Never
  BY <1>2, <1>4, <1>10
<1>12. \A i, j \in DOMAIN bookmarks : i < j => bookmarks[j] \in recent[bookmarks[i]]
  BY <1>6, <1>10
<1>13. GrantsLast
  BY <1>3 DEF GrantsLast
<1> QED BY <1>1, <1>8, <1>9, <1>11, <1>12, <1>13 DEF GrantsInv

-----------------------------------------------------------------------------
(* A saved rule was granted every folder it needs *)

\* A folder with the file was granted at some time.
GrantedFile(f) == \E g \in Folders : f \in Inside[g] /\ recent[g] # Never

\* What was granted stays in the history.
GrantsGrow == \A g \in Folders : recent[g] # Never => recent'[g] # Never

\* A request of saveRuleWithSafariAuthorization, for one of the rule's sources.
FromEditor(q) ==
    /\ q.from \in Editors
    /\ q.attempt \in DOMAIN Sources[q.from]
    /\ q.file = Sources[q.from][q.attempt]

Known(q) == q.from \in Readers \/ FromEditor(q)

ReplyKnown(p) == Known(p.request) /\ (p.code = "OK" => GrantedFile(p.request.file))

HandlingKnown ==
    /\ handling.phase # "idle" => Known(handling.request)
    /\ handling.phase \in {"reading", "read"} => GrantedFile(handling.request.file)

\* The editor has the grants for the sources before the one it asks for.
EditorOK(e) ==
    /\ editor[e].state = "asking" =>
          /\ editor[e].at \in DOMAIN Sources[e]
          /\ \A k \in DOMAIN Sources[e] : k < editor[e].at => GrantedFile(Sources[e][k])
    /\ editor[e].state = "saved" => \A k \in DOMAIN Sources[e] : GrantedFile(Sources[e][k])

EditorsTyped == editor \in [Editors -> [state : {"idle", "asking", "saved", "refused"}, at : Nat]]

EditInv ==
    /\ \A q \in queue : Known(q)
    /\ \A p \in replies : ReplyKnown(p)
    /\ HandlingKnown
    /\ EditorsTyped
    /\ \A e \in Editors : EditorOK(e)

GInv == GrantsInv /\ EditInv

\* A granted file stays one.
LEMMA GrantedStays ==
  ASSUME GrantsGrow
  PROVE  /\ \A f : GrantedFile(f) => GrantedFile(f)'
         /\ \A p : ReplyKnown(p) => ReplyKnown(p)'
<1>1. ASSUME NEW f, GrantedFile(f) PROVE GrantedFile(f)'
  BY <1>1 DEF GrantedFile, GrantsGrow
<1> QED BY <1>1 DEF ReplyKnown, Known, FromEditor

\* A step that leaves the editors alone keeps what they have.
LEMMA EditorsStay ==
  ASSUME EditInv, GrantsGrow, UNCHANGED editor,
         \A q \in queue' : Known(q), \A p \in replies' : ReplyKnown(p)', HandlingKnown'
  PROVE  EditInv'
<1>1. ASSUME NEW e \in Editors PROVE EditorOK(e)'
  <2>1. EditorOK(e)
    BY DEF EditInv
  <2> QED BY <2>1, GrantedStays DEF EditorOK
<1>2. \A q \in queue' : Known(q)'
  BY DEF Known, FromEditor
<1> QED BY <1>1, <1>2 DEF EditInv, EditorsTyped

\* One request of the queue is taken, and answered at most once.
LEMMA TakenIsKnown ==
  ASSUME EditInv, NEW q, NEW operation, Take(q, operation)
  PROVE  Known(q) /\ \A x \in queue' : Known(x)
BY DEF EditInv, Take

LEMMA AnswerIsKnown ==
  ASSUME EditInv, GrantsGrow, NEW q, NEW code, NEW c, Reply(q, code, c),
         Known(q), code = "OK" => GrantedFile(q.file)'
  PROVE  \A p \in replies' : ReplyKnown(p)'
<1>1. \A p \in replies : ReplyKnown(p)'
  BY GrantedStays DEF EditInv
<1>2. ReplyKnown([request |-> q, code |-> code, content |-> c])'
  BY DEF ReplyKnown, Known, FromEditor
<1> QED BY <1>1, <1>2 DEF Reply

\* While the handler is idle it needs nothing, and it may stay as it is.
LEMMA HandlingStays ==
  ASSUME HandlingKnown, GrantsGrow, UNCHANGED handling
  PROVE  HandlingKnown'
BY GrantedStays DEF HandlingKnown, Known, FromEditor

LEMMA IdleIsKnown ==
  ASSUME handling' = Idle
  PROVE  HandlingKnown'
BY DEF HandlingKnown, Idle

LEMMA HistoryStays ==
  ASSUME UNCHANGED recent
  PROVE  GrantsGrow
BY DEF GrantsGrow

\* An access uses a grant that contains the file.
LEMMA AccessIsGranted ==
  ASSUME GInv, UNCHANGED gone, NEW q, NEW operation, Access(q, operation)
  PROVE  GrantsInv' /\ GrantsGrow /\ GrantedFile(q.file)'
<1>1. Authorized(q.file) /\ touchBookmark(FirstCovering(q.file)) /\ GrantsInv
  BY DEF Access, GInv
<1>2. PICK i : i = FirstCovering(q.file) /\ i \in Covering(q.file)
  BY <1>1, FirstCovers
<1>3. i \in DOMAIN bookmarks /\ q.file \in Inside[bookmarks[i]] /\ NoteUse(bookmarks[i])
  BY <1>1, <1>2 DEF Covering, touchBookmark
<1>4. bookmarks[i] \in Folders
  BY <1>1, <1>3, ElementOfSeq, LenProperties DEF GrantsInv
<1>5. PICK g \in Folders : q.file \in Inside[g] /\ NoteUse(g)
  BY <1>3, <1>4
<1>6. recent'[g] # Never /\ \A h \in Folders : recent[h] # Never => recent'[h] # Never
  BY <1>1, <1>5, NotedUse
<1>7. GrantsGrow
  BY <1>6 DEF GrantsGrow
<1>8. GrantedFile(q.file)'
  BY <1>5, <1>6 DEF GrantedFile
<1> QED BY <1>1, <1>7, <1>8, AccessKeeps

\* The requests that need no grant to be answered.
LEMMA RefusedKeeps ==
  ASSUME GInv, UNCHANGED <<gone, editor>>, NEW q,
         \/ Refuse(q, "readMetadata")
         \/ Refuse(q, "readChunk")
         \/ authorizeFolderMissing(q)
  PROVE  GInv'
<1>1. /\ UNCHANGED <<bookmarks, recent, handling>>
      /\ \E operation : Take(q, operation)
      /\ \E code : code # "OK" /\ Reply(q, code, Gone)
  BY DEF Refuse, authorizeFolderMissing
<1>2. GrantsInv' /\ GrantsGrow
  BY <1>1, GrantsStay, HistoryStays DEF GInv
<1>3. Known(q) /\ \A x \in queue' : Known(x)
  BY <1>1, TakenIsKnown DEF GInv
<1>4. \A p \in replies' : ReplyKnown(p)'
  BY <1>1, <1>2, <1>3, AnswerIsKnown DEF GInv
<1>5. HandlingKnown'
  BY <1>1, <1>2, HandlingStays DEF GInv, EditInv
<1> QED BY <1>2, <1>3, <1>4, <1>5, EditorsStay DEF GInv

\* The panel opens.
LEMMA PanelOpens ==
  ASSUME GInv, UNCHANGED <<gone, editor>>, NEW q, authorizeFolder(q)
  PROVE  GInv'
<1>1. /\ UNCHANGED <<bookmarks, recent, replies>>
      /\ Take(q, "authorizeFolder")
      /\ handling' = [phase |-> "panel", request |-> q, before |-> NoFingerprint, content |-> Gone]
  BY DEF authorizeFolder
<1>2. GrantsInv' /\ GrantsGrow
  BY <1>1, GrantsStay, HistoryStays DEF GInv
<1>3. Known(q) /\ \A x \in queue' : Known(x)
  BY <1>1, TakenIsKnown DEF GInv
<1>4. \A p \in replies' : ReplyKnown(p)'
  BY <1>1, <1>2, GrantedStays DEF GInv, EditInv
<1>5. HandlingKnown'
  BY <1>1, <1>3 DEF HandlingKnown, Known, FromEditor
<1> QED BY <1>2, <1>3, <1>4, <1>5, EditorsStay DEF GInv

\* The requests that are answered through a grant, at once or after the read.
LEMMA AccessedKeeps ==
  ASSUME GInv, UNCHANGED <<gone, editor>>, NEW q,
         \/ readMetadataCached(q)
         \/ readMetadata(q)
         \/ readChunkCached(q)
         \/ readChunk(q)
         \/ authorizeFolderGranted(q)
  PROVE  GInv'
<1>1. \E operation : Access(q, operation)
  BY DEF readMetadataCached, readMetadata, readChunkCached, readChunk, authorizeFolderGranted
<1>2. GrantsInv' /\ GrantsGrow /\ GrantedFile(q.file)'
  BY <1>1, AccessIsGranted
<1>3. Known(q) /\ \A x \in queue' : Known(x)
  BY <1>1, TakenIsKnown DEF GInv, Access
<1>4. CASE readMetadata(q)
  <2>1. UNCHANGED replies
        /\ handling' = [phase |-> "reading", request |-> q,
                        before |-> SafariFileFingerprint(q.file), content |-> Gone]
    BY <1>4 DEF readMetadata
  <2>2. \A p \in replies' : ReplyKnown(p)'
    BY <2>1, <1>2, GrantedStays DEF GInv, EditInv
  <2>3. PICK now : handling' = [phase |-> "reading", request |-> q, before |-> now, content |-> Gone]
    BY <2>1
  <2>4. HandlingKnown'
    BY <2>3, <1>2, <1>3 DEF HandlingKnown, Known, FromEditor, GrantedFile
  <2> QED BY <2>2, <2>4, <1>2, <1>3, EditorsStay DEF GInv
<1>5. CASE ~readMetadata(q)
  <2>1. UNCHANGED handling /\ \E code, c : Reply(q, code, c)
    BY <1>5 DEF readMetadataCached, readChunkCached, readChunk, authorizeFolderGranted
  <2>2. \A p \in replies' : ReplyKnown(p)'
    BY <2>1, <1>2, <1>3, AnswerIsKnown DEF GInv
  <2>3. HandlingKnown'
    BY <2>1, <1>2, HandlingStays DEF GInv, EditInv
  <2> QED BY <2>2, <2>3, <1>2, <1>3, EditorsStay DEF GInv
<1> QED BY <1>4, <1>5

\* The helper runs, and the snapshot is stored.
LEMMA ReadingKeeps ==
  ASSUME GInv, UNCHANGED <<gone, editor>>, HelperReads \/ StoreSnapshot
  PROVE  GInv'
<1> PICK q : q = handling.request
  OBVIOUS
<1>1. UNCHANGED <<bookmarks, recent, queue>> /\ handling.phase \in {"reading", "read"}
  BY DEF HelperReads, StoreSnapshot
<1>2. GrantsInv' /\ GrantsGrow
  BY <1>1, GrantsStay, HistoryStays DEF GInv
<1>3. Known(q) /\ GrantedFile(q.file)
  BY <1>1 DEF GInv, EditInv, HandlingKnown
<1>4. GrantedFile(q.file)'
  BY <1>2, <1>3, GrantedStays
<1>5. \A x \in queue' : Known(x)
  BY <1>1 DEF GInv, EditInv
<1>6. CASE handling' = Idle /\ \E code, c : Reply(q, code, c)
  <2>1. \A p \in replies' : ReplyKnown(p)'
    BY <1>6, <1>2, <1>3, <1>4, AnswerIsKnown DEF GInv
  <2> QED BY <2>1, <1>2, <1>5, <1>6, IdleIsKnown, EditorsStay DEF GInv
<1>7. CASE UNCHANGED replies
           /\ \E b, c : handling' = [phase |-> "read", request |-> q, before |-> b, content |-> c]
  <2>1. \A p \in replies' : ReplyKnown(p)'
    BY <1>2, <1>7, GrantedStays DEF GInv, EditInv
  <2>2. handling'.request = q
    BY <1>7
  <2>3. HandlingKnown'
    BY <2>2, <1>3, <1>4 DEF HandlingKnown, Known, FromEditor, GrantedFile
  <2> QED BY <2>1, <2>3, <1>2, <1>5, EditorsStay DEF GInv
<1>8. CASE StoreSnapshot
  BY <1>6, <1>8 DEF StoreSnapshot
<1>9. CASE HelperReads
  BY <1>6, <1>7, <1>9 DEF HelperReads
<1> QED BY <1>8, <1>9

\* The source of an editor's request is one of the files.
LEMMA EditorsFile ==
  ASSUME NEW q, FromEditor(q)
  PROVE  /\ q.file \in Files
         /\ FolderOf[q.file] \in Folders
         /\ q.file \in Inside[FolderOf[q.file]]
<1>1. Sources[q.from] \in Seq(Files)
  BY SourcesAssumption DEF FromEditor
<1>2. q.file \in Files
  BY <1>1, ElementOfSeq, LenProperties DEF FromEditor
<1> QED BY <1>2, FolderAssumption

\* The panel is closed.
LEMMA PanelCloses ==
  ASSUME IInv, GInv, UNCHANGED <<gone, editor>>, Grant \/ Cancel
  PROVE  GInv'
<1> PICK q : q = handling.request
  OBVIOUS
<1>1. UNCHANGED queue /\ handling.phase = "panel" /\ handling' = Idle
  BY DEF Grant, Cancel
<1>2. Known(q) /\ q.from \notin Readers
  BY <1>1 DEF IInv, HandlingOK, GInv, EditInv, HandlingKnown
<1>3. PICK g \in Folders : g = FolderOf[q.file] /\ q.file \in Inside[g]
  BY <1>2, EditorsFile DEF Known
<1>4. \A x \in queue' : Known(x)
  BY <1>1 DEF GInv, EditInv
<1>5. CASE UNCHANGED <<bookmarks, recent>> /\ \E code : code # "OK" /\ Reply(q, code, Gone)
  <2>1. GrantsInv' /\ GrantsGrow
    BY <1>5, GrantsStay, HistoryStays DEF GInv
  <2>2. \A p \in replies' : ReplyKnown(p)'
    BY <2>1, <1>2, <1>5, AnswerIsKnown DEF GInv
  <2> QED BY <2>1, <2>2, <1>1, <1>4, IdleIsKnown, EditorsStay DEF GInv
<1>6. CASE saveAuthorization(g) /\ Reply(q, "OK", Gone)
  <2>1. GrantsInv' /\ NoteUse(g)
    BY <1>6, SaveKeeps DEF GInv, saveAuthorization
  <2>2. recent'[g] # Never /\ \A h \in Folders : recent[h] # Never => recent'[h] # Never
    BY <2>1, NotedUse DEF GInv
  <2>3. GrantsGrow /\ GrantedFile(q.file)'
    BY <2>2, <1>3 DEF GrantsGrow, GrantedFile
  <2>4. \A p \in replies' : ReplyKnown(p)'
    BY <2>3, <1>2, <1>6, AnswerIsKnown DEF GInv
  <2> QED BY <2>1, <2>3, <2>4, <1>1, <1>4, IdleIsKnown, EditorsStay DEF GInv
<1>7. CASE Cancel
  BY <1>5, <1>7 DEF Cancel
<1>8. CASE Grant
  BY <1>3, <1>5, <1>6, <1>8 DEF Grant
<1> QED BY <1>7, <1>8

\* Every step of the bridge.
LEMMA BridgeGrants ==
  ASSUME IInv, GInv, BridgeStep, UNCHANGED <<read, editor>>
  PROVE  GInv'
<1>1. UNCHANGED <<gone, editor>>
  BY DEF BridgeStep
<1>2. ASSUME NEW q \in queue, Handle(q) PROVE GInv'
  BY <1>1, <1>2, RefusedKeeps, PanelOpens, AccessedKeeps DEF Handle
<1>3. CASE Expire
  <2>1. UNCHANGED <<bookmarks, recent, handling, queue, replies>>
    BY <1>3 DEF Expire
  <2>2. GrantsInv' /\ GrantsGrow
    BY <2>1, <1>1, GrantsStay, HistoryStays DEF GInv
  <2>3. HandlingKnown' /\ (\A x \in queue' : Known(x)) /\ \A p \in replies' : ReplyKnown(p)'
    BY <2>1, <2>2, HandlingStays, GrantedStays DEF GInv, EditInv
  <2> QED BY <2>2, <2>3, <1>1, EditorsStay DEF GInv
<1> QED BY <1>1, <1>2, <1>3, ReadingKeeps, PanelCloses DEF BridgeStep

\* Restarts, and what happens in the file system.
LEMMA OutsideGrants ==
  ASSUME IInv, GInv, Outside, UNCHANGED <<read, editor>>
  PROVE  GInv'
<1>1. UNCHANGED <<bookmarks, recent>> /\ gone \subseteq gone'
  BY DEF Outside, Write, DeleteFolder, Restart
<1>2. GrantsInv' /\ GrantsGrow
  BY <1>1, GrantsStay, HistoryStays DEF GInv
<1>3. CASE UNCHANGED <<handling, queue, replies>>
  <2>1. HandlingKnown' /\ (\A x \in queue' : Known(x)) /\ \A p \in replies' : ReplyKnown(p)'
    BY <1>2, <1>3, HandlingStays, GrantedStays DEF GInv, EditInv
  <2> QED BY <2>1, <1>2, EditorsStay DEF GInv
<1>4. CASE Restart
  <2> DEFINE open == queue \cup ({handling.request} \ {NoRequest})
  <2>1. \A q \in open : Known(q)
    BY DEF IInv, HandlingOK, Idle, GInv, EditInv, HandlingKnown
  <2>2. queue' = {} /\ handling' = Idle
    BY <1>4 DEF Restart
  <2>3. \A p \in replies' : p \in replies \/ \E q \in open :
           p = [request |-> q, code |-> "REJECTED", content |-> Gone]
    BY <1>4 DEF Restart
  <2> HIDE DEF open
  <2>4. ASSUME NEW q \in open
        PROVE  ReplyKnown([request |-> q, code |-> "REJECTED", content |-> Gone])'
    <3>1. Known(q)
      BY <2>1
    <3> QED BY <3>1 DEF ReplyKnown, Known, FromEditor
  <2>5. \A p \in replies' : ReplyKnown(p)'
    BY <2>3, <2>4, <1>2, GrantedStays DEF GInv, EditInv
  <2> QED BY <2>2, <2>5, <1>2, IdleIsKnown, EditorsStay DEF GInv
<1>5. UNCHANGED <<handling, queue, replies>> \/ Restart
  BY DEF Outside, Write, DeleteFolder
<1> QED BY <1>3, <1>4, <1>5

\* A step of the extension that is one of a read.
LEMMA ReadGrants ==
  ASSUME GInv, UNCHANGED <<gone, bookmarks, recent, handling, editor>>, replies' \subseteq replies,
         \A q \in queue' : q \in queue \/ q.from \in Readers
  PROVE  GInv'
<1>1. GrantsInv' /\ GrantsGrow
  BY GrantsStay, HistoryStays DEF GInv
<1>2. HandlingKnown' /\ (\A x \in queue' : Known(x)) /\ \A p \in replies' : ReplyKnown(p)'
  BY <1>1, HandlingStays, GrantedStays DEF GInv, EditInv, Known
<1> QED BY <1>1, <1>2, EditorsStay DEF GInv

\* A step of one editor.
LEMMA EditorGrants ==
  ASSUME GInv, UNCHANGED <<gone, bookmarks, recent, handling>>, replies' \subseteq replies,
         NEW e \in Editors, NEW new,
         new \in [state : {"idle", "asking", "saved", "refused"}, at : Nat],
         editor' = [editor EXCEPT ![e] = new],
         \A q \in queue' : q \in queue \/ FromEditor(q),
         EditorOK(e)'
  PROVE  GInv'
<1>1. GrantsInv' /\ GrantsGrow
  BY GrantsStay, HistoryStays DEF GInv
<1>2. HandlingKnown' /\ (\A x \in queue' : Known(x)) /\ \A p \in replies' : ReplyKnown(p)'
  BY <1>1, HandlingStays, GrantedStays DEF GInv, EditInv, Known
<1>3. EditorsTyped'
  BY DEF GInv, EditInv, EditorsTyped
<1>4. ASSUME NEW x \in Editors PROVE EditorOK(x)'
  <2>1. CASE x = e
    BY <2>1
  <2>2. CASE x # e
    <3>1. editor'[x] = editor[x] /\ EditorOK(x)
      BY <2>2 DEF GInv, EditInv, EditorsTyped
    <3> QED BY <3>1, <1>1, GrantedStays DEF EditorOK
  <2> QED BY <2>1, <2>2
<1>5. (\A x \in queue' : Known(x)')
  BY <1>2 DEF Known, FromEditor
<1> QED BY <1>1, <1>2, <1>3, <1>4, <1>5 DEF GInv, EditInv

\* An editor asks for the grant of its source n, and has those before it.
LEMMA AskGrants ==
  ASSUME GInv, UNCHANGED <<gone, bookmarks, recent, handling>>, replies' \subseteq replies,
         NEW e \in Editors, NEW n \in DOMAIN Sources[e], Ask(e, n),
         \A k \in DOMAIN Sources[e] : k < n => GrantedFile(Sources[e][k])
  PROVE  GInv'
<1> PICK new : new = [state |-> "asking", at |-> n]
  OBVIOUS
<1>1. Sources[e] \in Seq(Files) /\ n \in Nat
  BY SourcesAssumption, LenProperties
<1>2. new \in [state : {"idle", "asking", "saved", "refused"}, at : Nat]
      /\ new.state = "asking" /\ new.at = n
  BY <1>1
<1>3. editor' = [editor EXCEPT ![e] = new] /\ queue' = queue \cup {GrantRequest(e, n)}
  BY DEF Ask
<1>4. FromEditor(GrantRequest(e, n))
  BY DEF FromEditor, GrantRequest, Request
<1>5. editor'[e] = new
  BY <1>3 DEF GInv, EditInv, EditorsTyped
<1>6. \A k \in DOMAIN Sources[e] : k < n => GrantedFile(Sources[e][k])'
  BY GrantedStays, HistoryStays
<1>7. EditorOK(e)'
  BY <1>2, <1>5, <1>6 DEF EditorOK
<1>8. \A q \in queue' : q \in queue \/ FromEditor(q)
  BY <1>3, <1>4
<1> QED BY <1>2, <1>3, <1>7, <1>8, EditorGrants

\* An editor is done: refused, or saved with all its grants.
LEMMA DoneGrants ==
  ASSUME GInv, UNCHANGED <<gone, bookmarks, recent, handling, queue>>, replies' \subseteq replies,
         NEW e \in Editors, NEW state \in {"refused", "saved"},
         editor' = [editor EXCEPT ![e].state = state],
         state = "saved" => \A k \in DOMAIN Sources[e] : GrantedFile(Sources[e][k])
  PROVE  GInv'
<1>1. editor[e] \in [state : {"idle", "asking", "saved", "refused"}, at : Nat]
  BY DEF GInv, EditInv, EditorsTyped
<1>2. PICK new \in [state : {"idle", "asking", "saved", "refused"}, at : Nat] :
         new = [editor[e] EXCEPT !.state = state] /\ new.state = state
  <2>1. [editor[e] EXCEPT !.state = state] \in
           [state : {"idle", "asking", "saved", "refused"}, at : Nat]
    BY <1>1
  <2>2. [editor[e] EXCEPT !.state = state].state = state
    BY <1>1
  <2> QED BY <2>1, <2>2
<1>3. editor' = [editor EXCEPT ![e] = new]
  BY <1>2
<1>4. editor'[e] = new
  BY <1>3 DEF GInv, EditInv, EditorsTyped
<1>5. \A k \in DOMAIN Sources[e] : GrantedFile(Sources[e][k]) => GrantedFile(Sources[e][k])'
  BY GrantedStays, HistoryStays
<1>6. EditorOK(e)'
  BY <1>2, <1>4, <1>5 DEF EditorOK
<1> QED BY <1>3, <1>6, EditorGrants

\* The answer to a grant request of an editor.
LEMMA AnsweredGrants ==
  ASSUME GInv, UNCHANGED <<gone, bookmarks, recent, handling>>,
         NEW p \in replies, p.request.from \notin Readers, GrantAnswered(p), UNCHANGED read
  PROVE  GInv'
<1> PICK e : e = p.request.from
  OBVIOUS
<1>1. /\ e \in Editors
      /\ p.request.attempt \in DOMAIN Sources[e]
      /\ p.request.file = Sources[e][p.request.attempt]
      /\ p.code = "OK" => GrantedFile(p.request.file)
  BY DEF GInv, EditInv, ReplyKnown, Known, FromEditor
<1>2. replies' \subseteq replies
  BY DEF GrantAnswered
<1>3. CASE editor[e] # [state |-> "asking", at |-> p.request.attempt]
  <2>1. UNCHANGED <<editor, queue>>
    BY <1>3 DEF GrantAnswered
  <2> QED BY <2>1, <1>2, ReadGrants
<1>4. CASE editor[e] = [state |-> "asking", at |-> p.request.attempt]
  <2>1. /\ editor[e].state = "asking" /\ editor[e].at = p.request.attempt
        /\ \A k \in DOMAIN Sources[e] : k < editor[e].at => GrantedFile(Sources[e][k])
    BY <1>1, <1>4 DEF GInv, EditInv, EditorOK
  <2>2. PICK at \in DOMAIN Sources[e] : at = editor[e].at
    BY <1>1, <2>1
  <2>3. Sources[e] \in Seq(Files) /\ DOMAIN Sources[e] = 1..Len(Sources[e]) /\ Len(Sources[e]) \in Nat
    BY <1>1, SourcesAssumption, LenProperties
  <2>4. CASE ~Granted(p)
    <3>1. editor' = [editor EXCEPT ![e].state = "refused"] /\ UNCHANGED queue
      BY <1>4, <2>4 DEF GrantAnswered
    <3> QED BY <3>1, <1>1, <1>2, DoneGrants
  <2>5. CASE Granted(p) /\ editor[e].at < Len(Sources[e])
    <3>1. GrantedFile(Sources[e][at])
      BY <1>1, <2>1, <2>2, <2>5 DEF Granted
    <3>2. PICK n \in DOMAIN Sources[e] : n = at + 1
      BY <2>2, <2>3, <2>5
    <3>3. Ask(e, n)
      BY <1>4, <2>2, <2>5, <3>2 DEF GrantAnswered
    <3>4. ASSUME NEW k \in DOMAIN Sources[e], k < n PROVE k = at \/ k < at
      BY <2>2, <2>3, <3>2, <3>4
    <3>5. \A k \in DOMAIN Sources[e] : k < n => GrantedFile(Sources[e][k])
      BY <2>1, <2>2, <3>1, <3>4
    <3> QED BY <3>3, <3>5, <1>1, <1>2, AskGrants
  <2>6. CASE Granted(p) /\ ~(editor[e].at < Len(Sources[e]))
    <3>1. GrantedFile(Sources[e][at])
      BY <1>1, <2>1, <2>2, <2>6 DEF Granted
    <3>2. editor' = [editor EXCEPT ![e].state = "saved"] /\ UNCHANGED queue
      BY <1>4, <2>6 DEF GrantAnswered
    <3>3. ASSUME NEW k \in DOMAIN Sources[e] PROVE k = at \/ k < at
      BY <2>2, <2>3, <2>6
    <3>4. \A k \in DOMAIN Sources[e] : GrantedFile(Sources[e][k])
      BY <2>1, <2>2, <3>1, <3>3
    <3> QED BY <3>2, <3>4, <1>1, <1>2, DoneGrants
  <2> QED BY <2>4, <2>5, <2>6
<1> QED BY <1>3, <1>4

\* A reader's attempt asks for nothing in the name of an editor.
LEMMA ReaderAsks ==
  ASSUME NEW r \in Readers, NEW n, NEW f
  PROVE  /\ MetadataRequest(r, n, f).from \in Readers
         /\ \A c, i : ChunkRequest(r, n, f, c, i).from \in Readers
BY DEF MetadataRequest, ChunkRequest, Request

LEMMA FailAsks ==
  ASSUME NEW r \in Readers, NEW code, Fail(r, code)
  PROVE  \A q \in queue' : q \in queue \/ q.from \in Readers
BY ReaderAsks DEF Fail

\* Every step of the extension.
LEMMA ExtensionGrants ==
  ASSUME GInv, ExtensionStep
  PROVE  GInv'
<1>1. UNCHANGED <<gone, bookmarks, recent, handling>>
  BY DEF ExtensionStep
<1>2. ASSUME NEW r \in Readers, NEW f \in Files, readFile(r, f) PROVE GInv'
  <2>1. UNCHANGED <<editor, replies>> /\ queue' = queue \cup {MetadataRequest(r, 1, f)}
    BY <1>2 DEF readFile
  <2> QED BY <2>1, <1>1, ReaderAsks, ReadGrants
<1>3. ASSUME NEW r \in Readers, Timeout(r) PROVE GInv'
  <2>1. UNCHANGED <<editor, replies>> /\ Fail(r, "NATIVE_TIMEOUT")
    BY <1>3 DEF Timeout
  <2> QED BY <2>1, <1>1, FailAsks, ReadGrants
<1>4. ASSUME NEW p \in replies, p.request.from \in Readers, Deliver(p) PROVE GInv'
  <2>1. UNCHANGED editor /\ replies' \subseteq replies
    BY <1>4 DEF Deliver
  <2>2. PICK r \in Readers : r = p.request.from
    BY <1>4
  <2>3. ASSUME NEW c, MetadataArrives(r, c) PROVE \A q \in queue' : q \in queue \/ q.from \in Readers
    <3>1. CASE Remaining(c) = {}
      <4>1. Assemble(r, c, {})
        BY <2>3, <3>1 DEF MetadataArrives
      <4>2. UNCHANGED queue \/ Fail(r, "FILE_CHANGED")
        BY <4>1 DEF Assemble
      <4> QED BY <4>2, FailAsks
    <3>2. CASE Remaining(c) # {}
      <4>1. queue' = queue \cup {ChunkRequest(r, read[r].attempt, read[r].file, c, i) :
                                    i \in Remaining(c)}
        BY <2>3, <3>2 DEF MetadataArrives
      <4> QED BY <4>1, ReaderAsks
    <3> QED BY <3>1, <3>2
  <2>4. ASSUME NEW i, NEW c, ChunkArrives(r, i, c)
        PROVE  \A q \in queue' : q \in queue \/ q.from \in Readers
    BY <2>4, FailAsks DEF ChunkArrives, Assemble
  <2>5. \A q \in queue' : q \in queue \/ q.from \in Readers
    BY <2>2, <2>3, <2>4, <1>4, FailAsks DEF Deliver
  <2> QED BY <2>1, <2>5, <1>1, ReadGrants
<1>5. ASSUME NEW p \in replies, p.request.from \notin Readers, GrantAnswered(p) PROVE GInv'
  <2>1. UNCHANGED read
    BY <1>5 DEF GrantAnswered
  <2> QED BY <2>1, <1>1, <1>5, AnsweredGrants
<1>6. ASSUME NEW e \in Editors, saveRule(e) PROVE GInv'
  <2>1. Ask(e, 1) /\ UNCHANGED replies
    BY <1>6 DEF saveRule
  <2>2. Sources[e] \in Seq(Files) /\ Sources[e] # << >>
    BY SourcesAssumption
  <2>3. DOMAIN Sources[e] = 1..Len(Sources[e]) /\ Len(Sources[e]) \in Nat /\ Len(Sources[e]) # 0
    BY <2>2, LenProperties, EmptySeq
  <2>4. 1 \in DOMAIN Sources[e] /\ \A k \in DOMAIN Sources[e] : ~(k < 1)
    BY <2>3
  <2> QED BY <2>1, <2>4, <1>1, AskGrants
<1>7. ASSUME NEW e \in Editors, GrantTimeout(e) PROVE GInv'
  <2>1. UNCHANGED <<queue, replies>> /\ editor' = [editor EXCEPT ![e].state = "refused"]
    BY <1>7 DEF GrantTimeout
  <2> QED BY <2>1, <1>1, DoneGrants
<1> QED BY <1>2, <1>3, <1>4, <1>5, <1>6, <1>7 DEF ExtensionStep

\* The grants and the editors' knowledge of them hold in every reachable state.
LEMMA GrantsInvariance == Spec => [](IInv /\ GInv)
<1>1. ASSUME SafariInit PROVE GInv
  <2>1. GrantsInv
    BY <1>1, InitialGrants DEF SafariInit
  <2>2. queue = {} /\ replies = {} /\ handling.phase = "idle"
    BY <1>1 DEF SafariInit, Init, Idle
  <2>3. editor = [e \in Editors |-> [state |-> "idle", at |-> 0]]
    BY <1>1 DEF SafariInit
  <2>4. EditorsTyped /\ \A e \in Editors : EditorOK(e)
    BY <2>3 DEF EditorsTyped, EditorOK
  <2> QED BY <2>1, <2>2, <2>4 DEF GInv, EditInv, HandlingKnown
<1>2. SafariInit => IInv /\ GInv
  BY <1>1, InitiallyIInv
<1>3. ASSUME IInv, GInv, [Next]_vars PROVE GInv'
  <2>1. CASE UNCHANGED vars
    <3>1. UNCHANGED <<gone, bookmarks, recent, handling, editor, queue, replies>>
      BY <2>1 DEF vars
    <3> QED BY <3>1, <1>3, ReadGrants
  <2> QED BY <1>3, <2>1, ExtensionGrants, BridgeGrants, OutsideGrants DEF Next
<1>4. (IInv /\ GInv) /\ [Next]_vars => (IInv /\ GInv)'
  BY <1>3, StepKeeps
<1> QED BY <1>2, <1>4, PTL DEF Spec

\* A grant is lost only with its folder, or after the limit's number of other
\* folders were used since; and a rule is saved only after every folder of its
\* sources was granted (FolderAuthorizationStore, saveRuleWithSafariAuthorization).
THEOREM GrantsAreKept == Spec => []GrantsKept
<1>1. ASSUME GInv PROVE GrantsKept
  <2>1. GrantsLast
    BY <1>1 DEF GInv, GrantsInv
  <2>2. SavedIsGranted
    BY <1>1 DEF GInv, EditInv, EditorOK, SavedIsGranted, GrantedFile
  <2> QED BY <2>1, <2>2 DEF GrantsKept
<1>2. IInv /\ GInv => GrantsKept
  BY <1>1
<1> QED BY <1>2, GrantsInvariance, PTL

-----------------------------------------------------------------------------
(* The types *)

Replies == [request : Requests, code : Codes, content : Contents \cup {Gone}]

\* No file is written more often than the bound says; the last deletion of a
\* folder may write several.
WritesBounded == \A f \in Files : Len(disk[f]) <= MaxWrites + 1

\* The messages between the extension and the bridge, and what the bridge makes
\* of them.
TInv ==
    /\ gone \subseteq Folders
    /\ WritesBounded
    /\ queue \subseteq Requests
    /\ replies \subseteq Replies
    /\ handling \in [phase : Phases, request : Requests \cup {NoRequest},
                     before : Nat, content : Contents \cup {Gone}]
    /\ handling.phase # "idle" => handling.request \in Requests
    /\ handling.phase \in {"idle", "panel"} => handling.before = NoFingerprint

\* A file that may be written was written fewer times than the bound.
LEMMA MayBeWritten ==
  ASSUME DiskOK, NEW f \in Files, Cardinality(Writes) < MaxWrites
  PROVE  Len(disk[f]) <= MaxWrites
<1>1. Len(disk[f]) \in Nat /\ Len(disk[f]) >= 1 /\ MaxWrites \in Nat
  BY LenProperties, BoundAssumption DEF DiskOK
<1>2. SUFFICES ASSUME Len(disk[f]) > MaxWrites PROVE FALSE
  BY <1>1
<1> DEFINE mine == [k \in 1..MaxWrites |-> <<f, k>>]
<1>3. \A k \in 1..MaxWrites : <<f, k>> \in Writes
  <2>1. \A k \in 1..MaxWrites : k < Len(disk[f])
    BY <1>1, <1>2
  <2> QED BY <2>1 DEF Writes
<1>4. mine \in Injection(1..MaxWrites, Writes)
  BY <1>3 DEF Injection, IsInjective
<1>5. IsFiniteSet(Writes)
  <2>1. IsFiniteSet(1..MaxWrites)
    BY <1>1, FS_Interval
  <2>2. IsFiniteSet(Files \X (1..MaxWrites))
    BY <2>1, BoundAssumption, FS_Product
  <2>3. Writes \in SUBSET (Files \X (1..MaxWrites))
    BY DEF Writes
  <2> QED BY <2>2, <2>3, FS_Subset
<1>6. Cardinality(1..MaxWrites) <= Cardinality(Writes) /\ Cardinality(Writes) \in Nat
  <2> HIDE DEF mine
  <2> QED BY <1>4, <1>5, FS_Injection, FS_CardinalityType
<1>7. Cardinality(1..MaxWrites) = MaxWrites
  BY <1>1, FS_Interval
<1> QED BY <1>1, <1>6, <1>7

\* One more writing of some files.
LEMMA WritingIsBounded ==
  ASSUME DiskOK, WritesBounded, Cardinality(Writes) < MaxWrites, NEW F, NEW c \in Contents \cup {Gone},
         disk' = [f \in Files |-> IF f \in F THEN Append(disk[f], c) ELSE disk[f]]
  PROVE  WritesBounded'
<1>1. SUFFICES ASSUME NEW f \in Files PROVE Len(disk'[f]) <= MaxWrites + 1
  BY DEF WritesBounded
<1>2. disk[f] \in Seq(Contents \cup {Gone}) /\ Len(disk[f]) \in Nat /\ MaxWrites \in Nat
  BY LenProperties, BoundAssumption DEF DiskOK
<1>3. Len(disk[f]) <= MaxWrites
  BY MayBeWritten
<1>4. Len(Append(disk[f], c)) = Len(disk[f]) + 1
  BY <1>2, AppendProperties
<1> QED BY <1>2, <1>3, <1>4

\* The requests that are sent are the requests there are.
LEMMA SentRequests ==
  /\ \A r \in Readers, n \in 1..2, f \in Files : MetadataRequest(r, n, f) \in Requests
  /\ \A r \in Readers, n \in 1..2, f \in Files, c \in Contents :
        \A i \in Remaining(c) : ChunkRequest(r, n, f, c, i) \in Requests
  /\ \A e \in Editors : \A n \in DOMAIN Sources[e] : GrantRequest(e, n) \in Requests
<1>1. ASSUME NEW r \in Readers, NEW n \in 1..2, NEW f \in Files
      PROVE  MetadataRequest(r, n, f) \in Requests
  BY DEF Requests
<1>2. ASSUME NEW r \in Readers, NEW n \in 1..2, NEW f \in Files, NEW c \in Contents, NEW i \in Remaining(c)
      PROVE  ChunkRequest(r, n, f, c, i) \in Requests
  <2>1. i \in UNION {Remaining(d) : d \in Contents}
    OBVIOUS
  <2> QED BY <2>1 DEF Requests
<1>3. ASSUME NEW e \in Editors, NEW n \in DOMAIN Sources[e] PROVE GrantRequest(e, n) \in Requests
  <2>1. GrantRequest(e, n) \in {GrantRequest(e, m) : m \in DOMAIN Sources[e]}
    OBVIOUS
  <2> QED BY <2>1 DEF Requests
<1> QED BY <1>1, <1>2, <1>3

\* A reply is made of a request, a code and a content.
LEMMA ReplyTyped ==
  ASSUME replies \subseteq Replies, NEW q \in Requests, NEW code \in Codes, NEW c \in Contents \cup {Gone},
         Reply(q, code, c)
  PROVE  replies' \subseteq Replies
<1>1. [request |-> q, code |-> code, content |-> c] \in Replies
  BY DEF Replies
<1> QED BY <1>1 DEF Reply

\* What the bridge answers with.
LEMMA BridgeCodes ==
  /\ {"OK", "FILE_NOT_FOUND", "FILE_CHANGED", "AUTHORIZATION_TARGET_NOT_FOUND",
      "AUTHORIZATION_FAILED", "AUTHORIZATION_CANCELLED", "AUTHORIZATION_REQUIRED",
      "READ_FAILED", "REJECTED"} \subseteq Codes
  /\ \A f : HelperFailure(f) \subseteq Codes
BY DEF Codes, Errors, HelperFailure

\* The bridge takes and answers requests, and remembers the one it handles.
LEMMA BridgeTyped ==
  ASSUME TInv, UNCHANGED <<disk, gone>>, queue' \subseteq queue, replies' \subseteq Replies,
         \/ UNCHANGED handling
         \/ handling' = Idle
         \/ \E phase \in Phases \ {"idle"}, q \in Requests, n \in Nat, c \in Contents \cup {Gone} :
               /\ handling' = [phase |-> phase, request |-> q, before |-> n, content |-> c]
               /\ phase = "panel" => n = NoFingerprint
  PROVE  TInv'
<1>1. (gone \subseteq Folders)' /\ WritesBounded' /\ queue' \subseteq Requests
  BY DEF TInv, WritesBounded
<1>2. CASE UNCHANGED handling
  BY <1>1, <1>2 DEF TInv
<1>3. CASE handling' = Idle
  BY <1>1, <1>3 DEF TInv, Idle, Phases, NoFingerprint
<1>4. ASSUME NEW phase \in Phases \ {"idle"}, NEW q \in Requests, NEW n \in Nat, NEW c \in Contents \cup {Gone},
             handling' = [phase |-> phase, request |-> q, before |-> n, content |-> c],
             phase = "panel" => n = NoFingerprint
      PROVE  TInv'
  BY <1>1, <1>4 DEF TInv
<1> QED BY <1>2, <1>3, <1>4

\* The bridge handles a request from the queue.
LEMMA HandleTyped ==
  ASSUME IInv, TInv, NEW q \in queue, Handle(q), UNCHANGED <<disk, gone>>
  PROVE  TInv'
<1>1. q \in Requests /\ RequestOK(q) /\ replies \subseteq Replies
  BY DEF TInv, IInv
<1>2. queue' \subseteq queue
  BY DEF Handle, Refuse, readMetadataCached, readMetadata, readChunkCached, readChunk,
     authorizeFolderMissing, authorizeFolderGranted, authorizeFolder, Access, Take
<1>3. ASSUME NEW code \in Codes, NEW c \in Contents \cup {Gone}, Reply(q, code, c), UNCHANGED handling
      PROVE  TInv'
  BY <1>1, <1>2, <1>3, ReplyTyped, BridgeTyped
<1>4. ASSUME NEW code \in Codes, Reply(q, code, Gone), UNCHANGED handling PROVE TInv'
  BY <1>3, <1>4
<1>5. ASSUME NEW operation, Refuse(q, operation) PROVE TInv'
  BY <1>4, <1>5, BridgeCodes DEF Refuse
<1>6. CASE authorizeFolderMissing(q) \/ authorizeFolderGranted(q)
  BY <1>4, <1>6, BridgeCodes DEF authorizeFolderMissing, authorizeFolderGranted
<1>7. CASE readMetadataCached(q)
  <2>1. PICK i \in Same(q) : Reply(q, "OK", entries[i].content)
    BY <1>7 DEF readMetadataCached
  <2>2. entries[i] \in GoodEntries
    BY <2>1, RemoveAtSeq DEF Same, At, IInv, EntriesOK
  <2>3. entries[i].content \in Contents \cup {Gone}
    BY <2>2 DEF GoodEntries
  <2>4. UNCHANGED handling
    BY <1>7 DEF readMetadataCached
  <2> QED BY <1>3, <2>1, <2>3, <2>4, BridgeCodes
<1>8. CASE readMetadata(q)
  <2>1. q.from \in Readers
    BY <1>1, <1>8 DEF readMetadata, Access, Take, RequestOK
  <2>2. SafariFileFingerprint(q.file) \in Nat
    BY <1>1, <2>1, CurrentHad
  <2>3. /\ handling' = [phase |-> "reading", request |-> q,
                        before |-> SafariFileFingerprint(q.file), content |-> Gone]
        /\ UNCHANGED replies
    BY <1>8 DEF readMetadata
  <2>4. \E n \in Nat : handling' = [phase |-> "reading", request |-> q, before |-> n, content |-> Gone]
    BY <2>2, <2>3
  <2>5. "reading" \in Phases \ {"idle"} /\ replies' \subseteq Replies
    BY <1>1, <2>3 DEF Phases
  <2> QED BY <1>1, <1>2, <2>4, <2>5, BridgeTyped
<1>9. CASE readChunkCached(q)
  <2>1. Reply(q, "OK", q.digest) /\ UNCHANGED handling
    BY <1>9 DEF readChunkCached
  <2>2. q.digest \in Contents
    BY <1>1, <1>9 DEF readChunkCached, Access, Take, RequestOK
  <2> QED BY <1>3, <2>1, <2>2, BridgeCodes
<1>10. CASE readChunk(q)
  <2>1. q.from \in Readers /\ UNCHANGED handling
    BY <1>1, <1>10 DEF readChunk, Access, Take, RequestOK
  <2>2. Content(q.file) \in Contents \cup {Gone}
    BY <1>1, <2>1, CurrentHad
  <2>3. \/ \E code \in HelperFailure(q.file) : Reply(q, code, Gone)
        \/ Reply(q, "FILE_CHANGED", Gone)
        \/ Reply(q, "OK", Content(q.file))
    BY <1>10 DEF readChunk
  <2> QED BY <1>3, <1>4, <2>1, <2>2, <2>3, BridgeCodes
<1>11. CASE authorizeFolder(q)
  <2>1. /\ handling' = [phase |-> "panel", request |-> q, before |-> NoFingerprint, content |-> Gone]
        /\ UNCHANGED replies
    BY <1>11 DEF authorizeFolder
  <2> QED BY <1>1, <1>2, <2>1, BridgeTyped DEF Phases, NoFingerprint
<1> QED BY <1>5, <1>6, <1>7, <1>8, <1>9, <1>10, <1>11 DEF Handle

\* The request that is being handled is answered, or read for.
LEMMA HandledTyped ==
  ASSUME IInv, TInv, HelperReads \/ StoreSnapshot \/ Grant \/ Cancel, UNCHANGED <<disk, gone>>
  PROVE  TInv'
<1> PICK q, c : q = handling.request /\ c = handling.content
  OBVIOUS
<1>1. handling.phase # "idle" /\ UNCHANGED queue
  BY DEF HelperReads, StoreSnapshot, Grant, Cancel
<1>2. /\ q \in Requests /\ RequestOK(q) /\ replies \subseteq Replies
      /\ handling.before \in Nat /\ c \in Contents \cup {Gone}
  BY <1>1 DEF TInv, IInv, HandlingOK
<1>3. ASSUME NEW code \in Codes, NEW d \in Contents \cup {Gone}, Reply(q, code, d), handling' = Idle
      PROVE  TInv'
  BY <1>1, <1>2, <1>3, ReplyTyped, BridgeTyped
<1>4. CASE HelperReads
  <2>1. q.from \in Readers
    BY <1>4 DEF HelperReads, IInv, HandlingOK
  <2>2. Content(q.file) \in Contents \cup {Gone}
    BY <1>2, <2>1, CurrentHad
  <2>3. \/ /\ handling' = [phase |-> "read", request |-> q, before |-> handling.before,
                           content |-> Content(q.file)]
           /\ UNCHANGED replies
        \/ /\ \E code \in HelperFailure(q.file) : Reply(q, code, Gone)
           /\ handling' = Idle
    BY <1>4 DEF HelperReads
  <2>4. CASE handling' = Idle
    BY <1>3, <2>3, <2>4, BridgeCodes DEF Idle
  <2>5. CASE handling' = [phase |-> "read", request |-> q, before |-> handling.before,
                          content |-> Content(q.file)] /\ UNCHANGED replies
    BY <1>1, <1>2, <2>2, <2>5, BridgeTyped DEF Phases
  <2> QED BY <1>3, <2>3, <2>5, BridgeCodes
<1>5. CASE StoreSnapshot
  BY <1>2, <1>3, <1>5, BridgeCodes DEF StoreSnapshot
<1>6. CASE Grant
  BY <1>3, <1>6, BridgeCodes DEF Grant
<1>7. CASE Cancel
  BY <1>3, <1>7, BridgeCodes DEF Cancel
<1> QED BY <1>4, <1>5, <1>6, <1>7

\* Every step of the bridge.
LEMMA BridgeStepTyped ==
  ASSUME IInv, TInv, BridgeStep
  PROVE  TInv'
<1>1. UNCHANGED <<disk, gone>>
  BY DEF BridgeStep
<1>2. CASE Expire
  BY <1>1, <1>2, BridgeTyped DEF Expire, TInv
<1> QED BY <1>1, <1>2, HandleTyped, HandledTyped DEF BridgeStep

\* Editor, Finder and a restart.
LEMMA OutsideTyped ==
  ASSUME IInv, TInv, Outside
  PROVE  TInv'
<1>1. DiskOK /\ WritesBounded
  BY DEF IInv, TInv
<1>2. ASSUME UNCHANGED <<queue, replies, handling>>, gone' \subseteq Folders, WritesBounded' PROVE TInv'
  BY <1>2 DEF TInv
<1>3. ASSUME NEW f \in Files, NEW c \in Contents \cup {Gone}, Write(f, c) PROVE TInv'
  <2>1. disk' = [g \in Files |-> IF g \in {f} THEN Append(disk[g], c) ELSE disk[g]]
    BY <1>1, <1>3, WriteIsWriting
  <2>2. WritesBounded'
    BY <1>1, <1>3, <2>1, WritingIsBounded DEF Write
  <2> QED BY <1>2, <1>3, <2>2 DEF Write, TInv
<1>4. ASSUME NEW f \in Files, DeleteFolder(FolderOf[f]) PROVE TInv'
  <2>1. PICK g \in Folders : DeleteFolder(g)
    BY <1>4, FolderAssumption
  <2>2. disk' = [x \in Files |-> IF x \in {y \in Files : FolderOf[y] = g} THEN Append(disk[x], Gone) ELSE disk[x]]
    BY <2>1 DEF DeleteFolder
  <2>3. WritesBounded'
    BY <1>1, <2>1, <2>2, WritingIsBounded DEF DeleteFolder
  <2> QED BY <1>2, <2>1, <2>3 DEF DeleteFolder, TInv
<1>5. CASE Restart
  <2>1. queue' = {} /\ handling' = Idle /\ UNCHANGED <<disk, gone>>
    BY <1>5 DEF Restart
  <2> DEFINE rejected(q) == [request |-> q, code |-> "REJECTED", content |-> Gone]
             open == queue \cup ({handling.request} \ {NoRequest})
  <2>2. replies' = replies \cup {rejected(q) : q \in open}
    BY <1>5 DEF Restart
  <2>3. open \subseteq Requests
    BY DEF TInv
  <2>4. \A q \in Requests : rejected(q) \in Replies
    BY BridgeCodes DEF Replies
  <2> HIDE DEF open, rejected
  <2>5. replies' \subseteq Replies
    BY <2>2, <2>3, <2>4 DEF TInv
  <2> QED BY <2>1, <2>5, BridgeTyped
<1> QED BY <1>3, <1>4, <1>5 DEF Outside

\* The extension takes replies and sends requests.
LEMMA ExtensionTyped ==
  ASSUME IInv, GInv, TInv, ExtensionStep
  PROVE  TInv'
<1>1. UNCHANGED <<disk, gone, handling>>
  BY DEF ExtensionStep
<1>2. ASSUME queue' \subseteq Requests, replies' \subseteq replies PROVE TInv'
  BY <1>1, <1>2 DEF TInv, WritesBounded
<1>3. queue \subseteq Requests
  BY DEF TInv
<1>4. ASSUME NEW r \in Readers, NEW f \in Files, readFile(r, f) PROVE TInv'
  <2>1. MetadataRequest(r, 1, f) \in Requests
    BY SentRequests
  <2> QED BY <1>2, <1>3, <1>4, <2>1 DEF readFile
<1>5. ASSUME NEW r \in Readers, Timeout(r) PROVE TInv'
  BY <1>2, <1>3, <1>5, TimeoutAnswers DEF Answered
<1>6. ASSUME NEW p \in replies, p.request.from \in Readers, Deliver(p) PROVE TInv'
  <2>1. PICK r \in Readers : r = p.request.from
    BY <1>6
  <2>2. replies' \subseteq replies
    BY <1>6 DEF Deliver
  <2>3. UNCHANGED queue \/ Retried(r) \/ AsksForChunks(r)
    BY <1>6, <2>1, DeliverCases DEF Answered, Collects
  <2>4. ASSUME Active(r) PROVE read[r].file \in Files /\ read[r].attempt \in 1..2
    BY <2>4, ActiveRead
  <2>5. CASE Retried(r)
    <3>1. MetadataRequest(r, 2, read[r].file) \in Requests
      BY <2>4, <2>5, SentRequests DEF Retried
    <3> QED BY <1>2, <1>3, <2>2, <2>5, <3>1 DEF Retried
  <2>6. CASE AsksForChunks(r)
    <3>1. PICK c \in Contents :
             queue' = queue \cup {ChunkRequest(r, read[r].attempt, read[r].file, c, i) : i \in Remaining(c)}
      BY <2>6 DEF AsksForChunks
    <3>2. read[r].file \in Files /\ read[r].attempt \in 1..2
      BY <2>4, <2>6 DEF AsksForChunks, Active
    <3>3. \A i \in Remaining(c) : ChunkRequest(r, read[r].attempt, read[r].file, c, i) \in Requests
      BY <3>2, SentRequests
    <3> QED BY <1>2, <1>3, <2>2, <3>1, <3>3
  <2> QED BY <1>2, <1>3, <2>2, <2>3, <2>5, <2>6
<1>7. ASSUME NEW e \in Editors, NEW n \in DOMAIN Sources[e], Ask(e, n), replies' \subseteq replies PROVE TInv'
  <2>1. GrantRequest(e, n) \in Requests
    BY SentRequests
  <2> QED BY <1>2, <1>3, <1>7, <2>1 DEF Ask
<1>8. ASSUME NEW e \in Editors
      PROVE  Sources[e] # << >> /\ DOMAIN Sources[e] = 1..Len(Sources[e]) /\ Len(Sources[e]) \in Nat \ {0}
  BY SourcesAssumption, LenProperties, EmptySeq
<1>9. ASSUME NEW p \in replies, p.request.from \notin Readers, GrantAnswered(p) PROVE TInv'
  <2>1. PICK e \in Editors : e = p.request.from
    BY <1>9 DEF GInv, EditInv, ReplyKnown, Known, FromEditor
  <2>2. p.request.attempt \in DOMAIN Sources[e] /\ replies' \subseteq replies
    BY <1>9, <2>1 DEF GInv, EditInv, ReplyKnown, Known, FromEditor, GrantAnswered
  <2>3. \/ UNCHANGED queue
        \/ /\ editor[e] = [state |-> "asking", at |-> p.request.attempt]
           /\ editor[e].at < Len(Sources[e])
           /\ Ask(e, editor[e].at + 1)
    BY <1>9, <2>1 DEF GrantAnswered
  <2>4. CASE /\ editor[e] = [state |-> "asking", at |-> p.request.attempt]
             /\ editor[e].at < Len(Sources[e])
             /\ Ask(e, editor[e].at + 1)
    <3>1. PICK n : n = editor[e].at + 1
      OBVIOUS
    <3>2. n \in DOMAIN Sources[e]
      BY <1>8, <2>2, <2>4, <3>1
    <3> QED BY <1>7, <2>2, <2>4, <3>1, <3>2
  <2> QED BY <1>2, <1>3, <2>2, <2>3, <2>4
<1>10. ASSUME NEW e \in Editors, saveRule(e) PROVE TInv'
  <2>1. 1 \in DOMAIN Sources[e]
    BY <1>8
  <2> QED BY <1>7, <1>10, <2>1 DEF saveRule
<1>11. ASSUME NEW e \in Editors, GrantTimeout(e) PROVE TInv'
  BY <1>2, <1>3, <1>11 DEF GrantTimeout
<1> QED BY <1>4, <1>5, <1>6, <1>9, <1>10, <1>11 DEF ExtensionStep

\* At the start nothing is under way and every file was written once.
LEMMA InitTyped ==
  ASSUME SafariInit
  PROVE  TInv
<1>1. queue = {} /\ replies = {} /\ handling = Idle /\ gone = {}
  BY DEF SafariInit, Init
<1>2. WritesBounded
  <2>1. SUFFICES ASSUME NEW f \in Files PROVE Len(disk[f]) <= MaxWrites + 1
    BY DEF WritesBounded
  <2>2. disk[f] = << FirstContent[f] >>
    BY DEF SafariInit, Init
  <2> QED BY <2>2, BoundAssumption
<1> QED BY <1>1, <1>2 DEF TInv, Idle, Phases, NoFingerprint

\* What the invariants say of the types.
LEMMA TypesHold ==
  ASSUME IInv, GInv, TInv
  PROVE  TypeOK
<1>1. ASSUME NEW f \in Files PROVE \A n \in Nat : n <= Len(disk[f]) => n \in Fingerprints
  <2>1. Len(disk[f]) \in Nat /\ Len(disk[f]) <= MaxWrites + 1 /\ MaxWrites \in Nat
    BY LenProperties, BoundAssumption DEF IInv, DiskOK, TInv, WritesBounded
  <2>2. Cardinality(Files) \in Nat /\ Cardinality(Files) >= 1
    <3>1. Cardinality(Files) \in Nat /\ (Cardinality(Files) = 0 <=> Files = {})
      BY BoundAssumption, FS_CardinalityType, FS_EmptySet
    <3> QED BY <3>1
  <2> QED BY <2>1, <2>2 DEF Fingerprints
<1>2. entries \in Seq(Entries)
  <2>1. GoodEntries \subseteq Entries
    BY <1>1 DEF GoodEntries, Entries
  <2> QED BY <2>1, WiderSeq DEF IInv, EntriesOK
<1>3. handling.before \in Fingerprints
  <2>1. CASE handling.phase \in {"idle", "panel"}
    <3>1. handling.before = 0 /\ MaxWrites + Cardinality(Files) \in Nat
      BY <2>1, BoundAssumption, FS_CardinalityType DEF TInv, NoFingerprint
    <3> QED BY <3>1 DEF Fingerprints
  <2>2. CASE handling.phase \in {"reading", "read"}
    <3>1. /\ handling.before \in Nat /\ handling.before <= Len(disk[handling.request.file])
          /\ handling.request.file \in Files
      BY <2>2 DEF IInv, HandlingOK, RequestOK
    <3> QED BY <1>1, <3>1
  <2> QED BY <2>1, <2>2 DEF TInv, Phases
<1>4. handling \in [phase : Phases, request : Requests \cup {NoRequest},
                    before : Fingerprints, content : Contents \cup {Gone}]
  BY <1>3 DEF TInv
<1>5. bookmarks \in Seq(Folders) /\ IsInjective(bookmarks)
  BY DEF GInv, GrantsInv, Distinct, IsInjective
<1> QED BY <1>2, <1>4, <1>5 DEF TypeOK, IInv, DiskOK, ReadsTyped, GInv, GrantsInv, EditInv, EditorsTyped,
       TInv, Replies

\* Files, grants, snapshots, messages and reads keep their types; a fingerprint
\* is of a writing there was, and no folder is stored twice (SafariNativeBridge,
\* FolderAuthorizationStore, SafariNativeClient).
THEOREM TypeCorrect == Spec => []TypeOK
<1>1. SafariInit => TInv
  BY InitTyped
<1>2. IInv /\ GInv /\ TInv /\ [Next]_vars => TInv'
  <2>1. ASSUME IInv, GInv, TInv, UNCHANGED vars PROVE TInv'
    BY <2>1 DEF TInv, WritesBounded, vars
  <2>2. ASSUME IInv, GInv, TInv, Next PROVE TInv'
    BY <2>2, ExtensionTyped, BridgeStepTyped, OutsideTyped DEF Next
  <2> QED BY <2>1, <2>2
<1>3. IInv /\ GInv /\ TInv => TypeOK
  BY TypesHold
<1> QED BY <1>1, <1>2, <1>3, GrantsInvariance, PTL DEF Spec
=============================================================================
