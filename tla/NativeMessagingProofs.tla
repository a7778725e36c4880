------------------------ MODULE NativeMessagingProofs ------------------------
(***************************************************************************)
(* Proofs about NativeMessaging, for any files, sizes, chunk sizes,        *)
(* requests, ports and faults: a read is answered with the whole of one    *)
(* version of its file or fails, every request is pending or settled, and  *)
(* while no frame was lost the end of a pending one is ahead.              *)
(*                                                                         *)
(* A request is taken by one process once: until then no frame bears its   *)
(* number, and from then on all frames that do are of the one version its  *)
(* file had then.  The assembly accepts a chunk only where its index is    *)
(* the number of chunks it has, so that what it has is always the          *)
(* beginning of that version, whatever was lost or repeated on the way.    *)
(***************************************************************************)
EXTENDS NativeMessaging, SequenceTheorems, WellFoundedInduction, TLAPS

-----------------------------------------------------------------------------
(* Types *)

Calls == [id : Requests, operation : Operations, file : Files \cup {None}]
Ids == Requests \cup {NoRequest}
ErrorCodes == {"UNSUPPORTED_PROTOCOL", "MESSAGE_TOO_LARGE", "READ_FAILED", "FILE_TOO_LARGE"}

Frames ==
    [type : {"error"}, id : Ids, code : ErrorCodes]
    \cup [type : {"status"}, id : Ids]
    \cup [type : {"unknown"}, id : Ids]
    \cup [type : {"readStart", "readComplete"}, id : Ids, totalBytes : Nat, chunkCount : Nat]
    \cup [type : {"readChunk"}, id : Ids, index : Nat, data : Chunks]

HostTyped ==
    /\ disk \in [Files -> 0..MaxEdits]
    /\ process \in [Ports -> {"none", "running", "ended"}]
    /\ toHost \in [Ports -> Seq(Calls)]
    /\ fromHost \in [Ports -> Seq(Frames)]
    /\ script \in [Ports -> Seq(Frames)]
    /\ faults \in Nat

ClientTyped ==
    /\ port \in Ports \cup {None}
    /\ used \subseteq Ports
    /\ pending \in [Requests -> Entries \cup {None}]
    /\ asked \in [Requests -> Asked \cup {None}]
    /\ outcome \in [Requests -> Outcomes \cup {None}]
    /\ since \in [Requests -> [Files -> 0..MaxEdits]]

-----------------------------------------------------------------------------
(* The inductive invariant *)

In(m, s) == \E i \in DOMAIN s : m = s[i]

\* A frame that is to be heard or written.
Sent(m) == \E p \in Ports : In(m, fromHost[p]) \/ In(m, script[p])

HasFrames(id) == \E m \in Frames : Sent(m) /\ m.id = id

Queued(id) == \E p \in Ports : \E i \in DOMAIN toHost[p] : toHost[p][i].id = id

QueueOK ==
    /\ \A p, q \in Ports : \A i \in DOMAIN toHost[p], j \in DOMAIN toHost[q] :
          toHost[p][i].id = toHost[q][j].id => p = q /\ i = j
    /\ \A p \in Ports : \A i \in DOMAIN toHost[p] :
          LET call == toHost[p][i] IN
          asked[call.id] = [operation |-> call.operation, file |-> call.file]

\* The chunk of that index of a version.
ChunkAt(f, v, index) ==
    Host!Slice(f, v, index * RawChunkBytes, Host!Lesser((index + 1) * RawChunkBytes, Size[f][v]))

CountOf(f, v) == Host!ChunkCount(Size[f][v])

\* A frame of the answer to a request that found version v.
FrameOf(id, v, m) ==
    LET f == asked[id].file IN
    /\ m.type = "status" => asked[id].operation = "ping"
    /\ m.type \in {"readStart", "readChunk", "readComplete"} =>
          asked[id].operation = "readFile" /\ Size[f][v] <= MaxFileBytes
    /\ m.type \in {"readStart", "readComplete"} =>
          m.totalBytes = Size[f][v] /\ m.chunkCount = CountOf(f, v)
    /\ m.type = "readChunk" => m.data = ChunkAt(f, v, m.index)

\* Chunks that are the beginning of a version.
Begins(f, v, chunks) ==
    \A i \in DOMAIN chunks : chunks[i] = ChunkAt(f, v, i - 1)

AssemblyOf(id, v) ==
    LET a == pending[id].assembly
        f == asked[id].file
    IN  pending[id] # None =>
        /\ pending[id].operation = asked[id].operation
        /\ a # None =>
            /\ asked[id].operation = "readFile"
            /\ a.totalBytes = Size[f][v] /\ a.chunkCount = CountOf(f, v)
            /\ Len(a.chunks) <= a.chunkCount
            /\ Begins(f, v, a.chunks)

OutcomeOf(id, v) ==
    LET f == asked[id].file IN
    (outcome[id] # None /\ outcome[id].code = "OK") =>
        /\ asked[id].operation = "readFile"
        /\ Len(outcome[id].chunks) = CountOf(f, v)
        /\ Begins(f, v, outcome[id].chunks)

\* Everything there is of the answer to a request is of version v.
Answered(id, v) ==
    /\ asked[id].operation = "readFile" =>
          /\ asked[id].file \in Files
          /\ since[id][asked[id].file] <= v /\ v <= disk[asked[id].file]
    /\ \A m \in Frames : Sent(m) /\ m.id = id => FrameOf(id, v, m)
    /\ AssemblyOf(id, v)
    /\ OutcomeOf(id, v)

RequestOK(id) ==
    /\ asked[id] = None =>
          pending[id] = None /\ outcome[id] = None /\ ~HasFrames(id) /\ ~Queued(id)
    /\ asked[id] # None => \E v \in 0..MaxEdits : Answered(id, v)
    /\ Queued(id) =>
          /\ ~HasFrames(id)
          /\ pending[id] # None => pending[id].assembly = None
          /\ outcome[id] # None => outcome[id].code # "OK"

PortsOK ==
    /\ port # None => port \in used
    /\ \A p \in used : process[p] # "none"

\* A request was posted in the past of the files.
SinceOK == \A id \in Requests, f \in Files : since[id][f] <= disk[f]

LostOK(id) ==
    asked[id] # None =>
        /\ outcome[id] = None => pending[id] # None
        /\ pending[id] # None => outcome[id] = None \/ outcome[id].code = "POST_FAILED"

EndIn(frames, id) == \E m \in Frames : In(m, frames) /\ m.id = id /\ Final(m)

AheadOK(id) ==
    (faults = 0 /\ pending[id] # None /\ outcome[id] = None /\ asked[id].file \notin TooLongUrls) =>
        /\ port # None
        /\ \/ process[port] = "ended"
           \/ \E i \in DOMAIN toHost[port] : toHost[port][i].id = id
           \/ EndIn(fromHost[port], id)
           \/ EndIn(script[port], id)

IInv ==
    /\ HostTyped /\ ClientTyped
    /\ QueueOK
    /\ PortsOK /\ SinceOK
    /\ \A id \in Requests : RequestOK(id) /\ LostOK(id) /\ AheadOK(id)
-----------------------------------------------------------------------------
(* Sequences *)

LEMMA InTail ==
  ASSUME NEW S, NEW s \in Seq(S), s # << >>
  PROVE  /\ Tail(s) \in Seq(S)
         /\ Head(s) \in S /\ In(Head(s), s)
         /\ \A m : In(m, Tail(s)) => In(m, s)
         /\ \A m : In(m, s) => m = Head(s) \/ In(m, Tail(s))
<1>1. /\ Tail(s) \in Seq(S) /\ Head(s) \in S /\ Head(s) = s[1]
      /\ Len(s) \in Nat /\ Len(s) >= 1 /\ DOMAIN s = 1..Len(s)
      /\ DOMAIN Tail(s) = 1..(Len(s) - 1)
      /\ \A i \in 1..(Len(s) - 1) : Tail(s)[i] = s[i + 1]
  BY HeadTailProperties, LenProperties, EmptySeq
<1>2. In(Head(s), s)
  BY <1>1 DEF In
<1>3. ASSUME NEW m, In(m, Tail(s)) PROVE In(m, s)
  <2>1. PICK i \in 1..(Len(s) - 1) : m = Tail(s)[i]
    BY <1>1, <1>3 DEF In
  <2>2. i + 1 \in DOMAIN s /\ m = s[i + 1]
    BY <1>1, <2>1
  <2> QED BY <2>2 DEF In
<1>4. ASSUME NEW m, In(m, s) PROVE m = Head(s) \/ In(m, Tail(s))
  <2>1. PICK i \in 1..Len(s) : m = s[i]
    BY <1>1, <1>4 DEF In
  <2>2. CASE i = 1
    BY <2>1, <2>2, <1>1
  <2>3. CASE i # 1
    <3>1. i - 1 \in 1..(Len(s) - 1) /\ (i - 1) + 1 = i
      BY <2>1, <2>3, <1>1
    <3>2. m = Tail(s)[i - 1]
      BY <3>1, <2>1, <1>1
    <3> QED BY <3>1, <3>2, <1>1 DEF In
  <2> QED BY <2>2, <2>3
<1> QED BY <1>1, <1>2, <1>3, <1>4

LEMMA InAppend ==
  ASSUME NEW S, NEW s \in Seq(S), NEW e \in S
  PROVE  /\ Append(s, e) \in Seq(S)
         /\ \A m : In(m, Append(s, e)) => In(m, s) \/ m = e
         /\ \A m : In(m, s) => In(m, Append(s, e))
         /\ In(e, Append(s, e))
<1>1. /\ Append(s, e) \in Seq(S)
      /\ Len(s) \in Nat /\ DOMAIN s = 1..Len(s)
      /\ DOMAIN Append(s, e) = 1..(Len(s) + 1)
      /\ \A i \in 1..Len(s) : Append(s, e)[i] = s[i]
      /\ Append(s, e)[Len(s) + 1] = e
  BY AppendProperties, LenProperties
<1>2. ASSUME NEW m, In(m, Append(s, e)) PROVE In(m, s) \/ m = e
  <2>1. PICK i \in 1..(Len(s) + 1) : m = Append(s, e)[i]
    BY <1>1, <1>2 DEF In
  <2>2. i \in 1..Len(s) \/ i = Len(s) + 1
    BY <1>1
  <2> QED BY <2>1, <2>2, <1>1 DEF In
<1>3. ASSUME NEW m, In(m, s) PROVE In(m, Append(s, e))
  <2>1. PICK i \in 1..Len(s) : m = s[i]
    BY <1>1, <1>3 DEF In
  <2>2. i \in 1..(Len(s) + 1)
    BY <1>1
  <2> QED BY <2>1, <2>2, <1>1 DEF In
<1>4. In(e, Append(s, e))
  <2>1. Len(s) + 1 \in 1..(Len(s) + 1)
    BY <1>1
  <2> QED BY <2>1, <1>1 DEF In
<1> QED BY <1>1, <1>2, <1>3, <1>4

LEMMA InEmpty == << >> \in Seq(Frames) /\ << >> \in Seq(Calls) /\ \A m : ~In(m, << >>)
BY EmptySeq DEF In

LEMMA InSeq == ASSUME NEW S, NEW s \in Seq(S), NEW m, In(m, s) PROVE m \in S
BY ElementOfSeq, LenProperties DEF In
-----------------------------------------------------------------------------
(* The inputs of the processes *)

LEMMA QueueTyped ==
  ASSUME HostTyped, NEW p \in Ports, NEW i \in DOMAIN toHost[p]
  PROVE  toHost[p][i] \in Calls /\ toHost[p][i].id \in Requests
<1>1. toHost[p] \in Seq(Calls)
  BY DEF HostTyped
<1>2. toHost[p][i] \in Calls
  BY <1>1, ElementOfSeq, LenProperties
<1> QED BY <1>2 DEF Calls

\* Inputs that lose their head, or all they hold, stay in order.
LEMMA QueueShrinks ==
  ASSUME HostTyped, QueueOK, UNCHANGED asked,
         \A p \in Ports : \/ toHost'[p] = toHost[p]
                          \/ toHost[p] # << >> /\ toHost'[p] = Tail(toHost[p])
                          \/ toHost'[p] = << >>
  PROVE  QueueOK' /\ \A id \in Requests : Queued(id)' => Queued(id)
<1>1. ASSUME NEW p \in Ports
      PROVE  /\ \E d \in Nat : \A i \in DOMAIN toHost'[p] :
                   i + d \in DOMAIN toHost[p] /\ toHost'[p][i] = toHost[p][i + d]
             /\ DOMAIN toHost'[p] \subseteq Int
  <2>1. toHost[p] \in Seq(Calls) /\ Len(toHost[p]) \in Nat
        /\ DOMAIN toHost[p] = 1..Len(toHost[p])
    BY LenProperties DEF HostTyped
  <2>2. CASE toHost'[p] = toHost[p]
    <3>1. \A i \in DOMAIN toHost'[p] :
             i + 0 \in DOMAIN toHost[p] /\ toHost'[p][i] = toHost[p][i + 0]
      BY <2>1, <2>2
    <3>2. \E d \in Nat : \A i \in DOMAIN toHost'[p] :
             i + d \in DOMAIN toHost[p] /\ toHost'[p][i] = toHost[p][i + d]
      <4>1. 0 \in Nat
        OBVIOUS
      <4> QED BY <4>1, <3>1
    <3>3. DOMAIN toHost'[p] \subseteq Int
      BY <2>1, <2>2
    <3> QED BY <3>2, <3>3
  <2>3. CASE toHost[p] # << >> /\ toHost'[p] = Tail(toHost[p])
    <3>1. /\ DOMAIN Tail(toHost[p]) = 1..(Len(toHost[p]) - 1)
          /\ \A i \in 1..(Len(toHost[p]) - 1) : Tail(toHost[p])[i] = toHost[p][i + 1]
      BY <2>1, <2>3, HeadTailProperties, LenProperties
    <3>2. \A i \in DOMAIN toHost'[p] :
             i + 1 \in DOMAIN toHost[p] /\ toHost'[p][i] = toHost[p][i + 1]
      BY <2>1, <2>3, <3>1
    <3>3. \E d \in Nat : \A i \in DOMAIN toHost'[p] :
             i + d \in DOMAIN toHost[p] /\ toHost'[p][i] = toHost[p][i + d]
      <4>1. 1 \in Nat
        OBVIOUS
      <4> QED BY <4>1, <3>2
    <3>4. DOMAIN toHost'[p] \subseteq Int
      BY <3>1, <2>1, <2>3
    <3> QED BY <3>3, <3>4
  <2>4. CASE toHost'[p] = << >>
    BY <2>4
  <2> QED BY <2>2, <2>3, <2>4
<1>2. \A id \in Requests : Queued(id)' => Queued(id)
  BY <1>1 DEF Queued
<1>3. ASSUME NEW p \in Ports, NEW q \in Ports, NEW i \in DOMAIN toHost'[p],
             NEW j \in DOMAIN toHost'[q], toHost'[p][i].id = toHost'[q][j].id
      PROVE  p = q /\ i = j
  <2>1. PICK d \in Nat : \A k \in DOMAIN toHost'[p] :
           k + d \in DOMAIN toHost[p] /\ toHost'[p][k] = toHost[p][k + d]
    BY <1>1
  <2>2. PICK e \in Nat : \A k \in DOMAIN toHost'[q] :
           k + e \in DOMAIN toHost[q] /\ toHost'[q][k] = toHost[q][k + e]
    BY <1>1
  <2>3. p = q /\ i + d = j + e
    BY <1>3, <2>1, <2>2 DEF QueueOK
  <2>4. j + d \in DOMAIN toHost[p] /\ toHost[p][j + d] = toHost[p][j + e] /\ j + e \in DOMAIN toHost[p]
    BY <2>1, <2>2, <2>3
  <2>5. j + d = j + e
    BY <2>4 DEF QueueOK
  <2>6. i \in Int /\ j \in Int
    BY <1>1
  <2> QED BY <2>3, <2>5, <2>6
<1>4. ASSUME NEW p \in Ports, NEW i \in DOMAIN toHost'[p]
      PROVE  asked[toHost'[p][i].id]
                = [operation |-> toHost'[p][i].operation, file |-> toHost'[p][i].file]
  <2>1. PICK d \in Nat : \A k \in DOMAIN toHost'[p] :
           k + d \in DOMAIN toHost[p] /\ toHost'[p][k] = toHost[p][k + d]
    BY <1>1
  <2> QED BY <2>1 DEF QueueOK
<1> QED BY <1>2, <1>3, <1>4 DEF QueueOK

\* A request is written to the input of the process of its port.
LEMMA QueueGrows ==
  ASSUME HostTyped, QueueOK, NEW q \in Ports, NEW c \in Calls, ~Queued(c.id),
         toHost' = [toHost EXCEPT ![q] = Append(@, c)],
         asked'[c.id] = [operation |-> c.operation, file |-> c.file],
         \A id \in Requests \ {c.id} : asked'[id] = asked[id]
  PROVE  /\ QueueOK'
         /\ \A id \in Requests \ {c.id} : Queued(id)' => Queued(id)
         /\ \E i \in DOMAIN toHost'[q] : toHost'[q][i].id = c.id
<1> DEFINE n == Len(toHost[q]) + 1
<1>1. /\ n \in Nat /\ DOMAIN toHost'[q] = 1..n /\ DOMAIN toHost[q] = 1..(n - 1)
      /\ toHost'[q][n] = c
      /\ \A i \in 1..(n - 1) : toHost'[q][i] = toHost[q][i]
      /\ n \in 1..n
  <2>1. toHost[q] \in Seq(Calls) /\ toHost'[q] = Append(toHost[q], c)
    BY DEF HostTyped
  <2> QED BY <2>1, AppendProperties, LenProperties
<1>2. \A p \in Ports \ {q} : toHost'[p] = toHost[p]
  BY DEF HostTyped
<1> HIDE DEF n
<1>3. ASSUME NEW p \in Ports, NEW i \in DOMAIN toHost'[p]
      PROVE  \/ p = q /\ i = n /\ toHost'[p][i] = c
             \/ i \in DOMAIN toHost[p] /\ toHost'[p][i] = toHost[p][i]
                /\ toHost'[p][i].id \in Requests \ {c.id}
  <2>1. (p = q /\ i = n) \/ (i \in DOMAIN toHost[p] /\ toHost'[p][i] = toHost[p][i])
    <3>1. CASE p = q
      <4>1. i \in 1..n /\ (i = n \/ i \in 1..(n - 1))
        BY <3>1, <1>1
      <4> QED BY <4>1, <3>1, <1>1
    <3> QED BY <3>1, <1>2
  <2>2. i \in DOMAIN toHost[p] => toHost[p][i].id \in Requests \ {c.id}
    BY QueueTyped DEF Queued
  <2> QED BY <2>1, <2>2, <1>1
<1>4. \A p, r \in Ports : \A i \in DOMAIN toHost'[p], j \in DOMAIN toHost'[r] :
         toHost'[p][i].id = toHost'[r][j].id => p = r /\ i = j
  BY <1>3 DEF QueueOK
<1>5. \A p \in Ports : \A i \in DOMAIN toHost'[p] :
         asked'[toHost'[p][i].id]
            = [operation |-> toHost'[p][i].operation, file |-> toHost'[p][i].file]
  BY <1>3 DEF QueueOK
<1>6. QueueOK'
  BY <1>4, <1>5 DEF QueueOK
<1> QED BY <1>1, <1>3, <1>6 DEF Queued

\* A request that no process was sent.
LEMMA QueueKept ==
  ASSUME HostTyped, QueueOK, NEW id \in Requests, ~Queued(id), UNCHANGED toHost,
         \A other \in Requests \ {id} : asked'[other] = asked[other]
  PROVE  QueueOK' /\ \A other \in Requests : Queued(other)' => Queued(other)
<1>1. \A p \in Ports : \A i \in DOMAIN toHost[p] : toHost[p][i].id \in Requests \ {id}
  BY QueueTyped DEF Queued
<1> QED BY <1>1 DEF QueueOK, Queued
-----------------------------------------------------------------------------
(* The answer of a process *)

LEMMA InOne == ASSUME NEW e \in Frames
               PROVE  << e >> \in Seq(Frames) /\ \A m : In(m, << e >>) <=> m = e
BY DEF In

LEMMA InConcat ==
  ASSUME NEW S, NEW s \in Seq(S), NEW t \in Seq(S)
  PROVE  s \o t \in Seq(S) /\ \A m : In(m, s \o t) <=> In(m, s) \/ In(m, t)
<1>1. /\ s \o t \in Seq(S) /\ DOMAIN s = 1..Len(s) /\ DOMAIN t = 1..Len(t)
      /\ Len(s) \in Nat /\ Len(t) \in Nat /\ DOMAIN (s \o t) = 1..(Len(s) + Len(t))
      /\ \A i \in 1..(Len(s) + Len(t)) :
            (s \o t)[i] = IF i <= Len(s) THEN s[i] ELSE t[i - Len(s)]
  BY ConcatProperties, LenProperties
<1>2. ASSUME NEW m, In(m, s \o t) PROVE In(m, s) \/ In(m, t)
  <2>1. PICK i \in 1..(Len(s) + Len(t)) : m = (s \o t)[i]
    BY <1>1, <1>2 DEF In
  <2>2. CASE i <= Len(s)
    <3>1. i \in 1..Len(s) /\ m = s[i]
      BY <2>1, <2>2, <1>1
    <3> QED BY <3>1, <1>1 DEF In
  <2>3. CASE ~(i <= Len(s))
    <3>1. i - Len(s) \in 1..Len(t) /\ m = t[i - Len(s)]
      BY <2>1, <2>3, <1>1
    <3> QED BY <3>1, <1>1 DEF In
  <2> QED BY <2>2, <2>3
<1>3. ASSUME NEW m, In(m, s) PROVE In(m, s \o t)
  <2>1. PICK i \in 1..Len(s) : m = s[i]
    BY <1>1, <1>3 DEF In
  <2>2. i \in 1..(Len(s) + Len(t)) /\ (s \o t)[i] = s[i]
    BY <2>1, <1>1
  <2> QED BY <2>1, <2>2, <1>1 DEF In
<1>4. ASSUME NEW m, In(m, t) PROVE In(m, s \o t)
  <2>1. PICK i \in 1..Len(t) : m = t[i]
    BY <1>1, <1>4 DEF In
  <2>2. Len(s) + i \in 1..(Len(s) + Len(t)) /\ (s \o t)[Len(s) + i] = t[i]
    BY <2>1, <1>1
  <2> QED BY <2>1, <2>2, <1>1 DEF In
<1> QED BY <1>1, <1>2, <1>3, <1>4

LEMMA CountNat == ASSUME NEW b \in Nat PROVE Host!ChunkCount(b) \in Nat
BY ConstantsAssumption DEF Host!ChunkCount

\* A smaller file has no more chunks.
LEMMA CountGrows ==
  ASSUME NEW a \in Nat, NEW b \in Nat, a <= b
  PROVE  Host!ChunkCount(a) <= Host!ChunkCount(b)
BY ConstantsAssumption DEF Host!ChunkCount

LEMMA SizeNat ==
  ASSUME NEW f \in Files, NEW v \in 0..MaxEdits
  PROVE  Size[f][v] \in Nat /\ CountOf(f, v) \in Nat
BY ConstantsAssumption, CountNat DEF CountOf

LEMMA ChunkTyped ==
  ASSUME NEW f \in Files, NEW v \in 0..MaxEdits, NEW i \in Nat
  PROVE  ChunkAt(f, v, i) \in Chunks
<1>1. i * RawChunkBytes \in Nat /\ (i + 1) * RawChunkBytes \in Nat
  BY ConstantsAssumption
<1>2. Host!Lesser((i + 1) * RawChunkBytes, Size[f][v]) \in Nat
  BY <1>1, SizeNat DEF Host!Lesser
<1> QED BY <1>1, <1>2 DEF ChunkAt, Host!Slice, Chunks

\* The frames of a file: its start, its chunks and its end.
LEMMA FileFramesAre ==
  ASSUME NEW id \in Requests, NEW f \in Files, NEW v \in 0..MaxEdits
  PROVE  LET answer == Host!FileFrames(id, f, v) IN
         /\ answer \in Seq(Frames)
         /\ \A m : In(m, answer) =>
               /\ m.id = id
               /\ m.type \in {"readStart", "readChunk", "readComplete"}
               /\ m.type \in {"readStart", "readComplete"} =>
                     m.totalBytes = Size[f][v] /\ m.chunkCount = CountOf(f, v)
               /\ m.type = "readChunk" => m.data = ChunkAt(f, v, m.index)
         /\ \E m \in Frames : In(m, answer) /\ m.id = id /\ Final(m)
<1> DEFINE bytes == Size[f][v]
           count == Host!ChunkCount(bytes)
           start == [type |-> "readStart", id |-> id, totalBytes |-> bytes, chunkCount |-> count]
           end == [type |-> "readComplete", id |-> id, totalBytes |-> bytes, chunkCount |-> count]
           chunk(i) == [type |-> "readChunk", id |-> id, index |-> i,
                        data |-> Host!Slice(f, v, i * RawChunkBytes,
                                            Host!Lesser((i + 1) * RawChunkBytes, bytes))]
           chunks == [i \in 1..count |-> chunk(i - 1)]
<1>1. Host!FileFrames(id, f, v) = << start >> \o chunks \o << end >>
  BY DEF Host!FileFrames
<1>2. bytes \in Nat /\ count \in Nat /\ count = CountOf(f, v) /\ id \in Ids
  BY SizeNat DEF CountOf, Ids
<1>3. /\ start.type = "readStart" /\ start.id = id /\ start.totalBytes = bytes
      /\ start.chunkCount = count
      /\ end.type = "readComplete" /\ end.id = id /\ end.totalBytes = bytes
      /\ end.chunkCount = count
  OBVIOUS
<1>4. start \in Frames /\ end \in Frames
  BY <1>2 DEF Frames
<1>5. ASSUME NEW i \in Nat
      PROVE  /\ chunk(i) \in Frames
             /\ chunk(i).type = "readChunk" /\ chunk(i).id = id /\ chunk(i).index = i
             /\ chunk(i).data = ChunkAt(f, v, i)
  <2>1. ChunkAt(f, v, i) \in Chunks
    BY ChunkTyped
  <2>2. chunk(i) = [type |-> "readChunk", id |-> id, index |-> i, data |-> ChunkAt(f, v, i)]
    BY DEF ChunkAt
  <2> HIDE DEF chunk
  <2> QED BY <2>1, <2>2, <1>2 DEF Frames
<1> HIDE DEF bytes, count, start, end, chunk
<1>6. \A i \in 1..count : i - 1 \in Nat /\ chunk(i - 1) \in Frames
  BY <1>2, <1>5
<1>7. chunks \in Seq(Frames)
  BY <1>2, <1>6, IsASeq
<1>8. ASSUME NEW m, In(m, chunks)
      PROVE  \E i \in Nat : m = chunk(i)
  <2>1. PICK i \in 1..count : m = chunks[i]
    BY <1>8 DEF In
  <2> QED BY <2>1, <1>6
<1> HIDE DEF chunks
<1>9. /\ << start >> \in Seq(Frames) /\ << end >> \in Seq(Frames)
      /\ \A m : In(m, << start >>) <=> m = start
      /\ \A m : In(m, << end >>) <=> m = end
  BY <1>4, InOne
<1>10. /\ << start >> \o chunks \in Seq(Frames)
       /\ \A m : In(m, << start >> \o chunks) <=> m = start \/ In(m, chunks)
  BY <1>7, <1>9, InConcat
<1>11. /\ << start >> \o chunks \o << end >> \in Seq(Frames)
       /\ \A m : In(m, << start >> \o chunks \o << end >>)
                   <=> m = start \/ In(m, chunks) \/ m = end
  BY <1>9, <1>10, InConcat
<1>12. ASSUME NEW m, In(m, Host!FileFrames(id, f, v))
       PROVE  /\ m.id = id
              /\ m.type \in {"readStart", "readChunk", "readComplete"}
              /\ m.type \in {"readStart", "readComplete"} =>
                    m.totalBytes = Size[f][v] /\ m.chunkCount = CountOf(f, v)
              /\ m.type = "readChunk" => m.data = ChunkAt(f, v, m.index)
  <2>1. CASE m = start \/ m = end
    BY <2>1, <1>2, <1>3 DEF bytes
  <2>2. CASE In(m, chunks)
    <3>1. PICK i \in Nat : m = chunk(i)
      BY <2>2, <1>8
    <3> QED BY <3>1, <1>5
  <2> QED BY <2>1, <2>2, <1>1, <1>11, <1>12
<1>13. In(end, Host!FileFrames(id, f, v)) /\ end \in Frames /\ end.id = id /\ Final(end)
  BY <1>1, <1>3, <1>4, <1>11 DEF Final
<1> QED BY <1>1, <1>11, <1>12, <1>13

LEMMA ErrorIs ==
  ASSUME NEW id \in Ids, NEW code \in ErrorCodes
  PROVE  LET m == Host!ErrorFrame(id, code) IN
         m \in Frames /\ m.id = id /\ m.type = "error" /\ m.code = code /\ Final(m)
<1> DEFINE m == [type |-> "error", id |-> id, code |-> code]
<1>1. m = Host!ErrorFrame(id, code)
  BY DEF Host!ErrorFrame
<1>2. m.id = id /\ m.type = "error" /\ m.code = code /\ m \in Frames
  BY DEF Frames
<1> HIDE DEF m
<1> QED BY <1>1, <1>2 DEF Final

LEMMA StatusIs ==
  ASSUME NEW id \in Ids
  PROVE  LET m == [type |-> "status", id |-> id] IN
         m \in Frames /\ m.id = id /\ m.type = "status" /\ Final(m)
BY DEF Frames, Final

\* handle: what a process writes for a request is of the version the file has,
\* and ends with a frame for the request.
LEMMA AnswersAre ==
  ASSUME HostTyped, NEW c \in Calls, NEW answer \in Host!Answers(c),
         asked[c.id] = [operation |-> c.operation, file |-> c.file],
         c.operation = "readFile" => c.file \in Files,
         NEW v \in 0..MaxEdits, c.operation = "readFile" => v = disk[c.file]
  PROVE  /\ answer \in Seq(Frames)
         /\ \A m : In(m, answer) => m.id \in {c.id, NoRequest}
         /\ \A m : In(m, answer) => FrameOf(c.id, v, m)
         /\ c.file \notin TooLongUrls => EndIn(answer, c.id)
<1>1. /\ c.id \in Requests /\ c.id \in Ids /\ NoRequest \in Ids /\ c.operation \in Operations
      /\ asked[c.id].operation = c.operation /\ asked[c.id].file = c.file
  BY DEF Calls, Ids
<1>2. ASSUME NEW id \in {c.id, NoRequest}, NEW code \in ErrorCodes,
             answer = << Host!ErrorFrame(id, code) >>,
             c.file \notin TooLongUrls => id = c.id
      PROVE  /\ answer \in Seq(Frames)
             /\ \A m : In(m, answer) => m.id \in {c.id, NoRequest}
             /\ \A m : In(m, answer) => FrameOf(c.id, v, m)
             /\ c.file \notin TooLongUrls => EndIn(answer, c.id)
  <2> DEFINE e == Host!ErrorFrame(id, code)
  <2>1. e \in Frames /\ e.id = id /\ e.type = "error" /\ Final(e)
    BY <1>1, ErrorIs
  <2> HIDE DEF e
  <2>2. answer \in Seq(Frames) /\ \A m : In(m, answer) <=> m = e
    BY <2>1, <1>2, InOne DEF e
  <2>3. FrameOf(c.id, v, e)
    BY <2>1 DEF FrameOf
  <2> QED BY <2>1, <2>2, <2>3, <1>2 DEF EndIn
<1>3. CASE c.operation = "ping" /\ answer = << [type |-> "status", id |-> c.id] >>
  <2> DEFINE e == [type |-> "status", id |-> c.id]
  <2>1. e \in Frames /\ e.id = c.id /\ e.type = "status" /\ Final(e)
    BY <1>1, StatusIs
  <2> HIDE DEF e
  <2>2. answer \in Seq(Frames) /\ \A m : In(m, answer) <=> m = e
    BY <2>1, <1>3, InOne DEF e
  <2>3. FrameOf(c.id, v, e)
    BY <2>1, <1>1, <1>3 DEF FrameOf
  <2> QED BY <2>1, <2>2, <2>3 DEF EndIn
<1>4. CASE /\ c.operation = "readFile" /\ Size[c.file][disk[c.file]] <= MaxFileBytes
           /\ answer = Host!FileFrames(c.id, c.file, disk[c.file])
  <2>1. c.file \in Files /\ v = disk[c.file]
    BY <1>4
  <2>2. /\ answer \in Seq(Frames)
        /\ \A m : In(m, answer) =>
               /\ m.id = c.id
               /\ m.type \in {"readStart", "readChunk", "readComplete"}
               /\ m.type \in {"readStart", "readComplete"} =>
                     m.totalBytes = Size[c.file][v] /\ m.chunkCount = CountOf(c.file, v)
               /\ m.type = "readChunk" => m.data = ChunkAt(c.file, v, m.index)
        /\ \E m \in Frames : In(m, answer) /\ m.id = c.id /\ Final(m)
    BY <2>1, <1>1, <1>4, FileFramesAre
  <2>3. \A m : In(m, answer) => FrameOf(c.id, v, m)
    BY <2>1, <2>2, <1>1, <1>4 DEF FrameOf
  <2> QED BY <2>2, <2>3 DEF EndIn
<1>5. \/ \E id \in {c.id, NoRequest}, code \in ErrorCodes :
            /\ answer = << Host!ErrorFrame(id, code) >>
            /\ c.file \notin TooLongUrls => id = c.id
      \/ c.operation = "ping" /\ answer = << [type |-> "status", id |-> c.id] >>
      \/ /\ c.operation = "readFile" /\ Size[c.file][disk[c.file]] <= MaxFileBytes
         /\ answer = Host!FileFrames(c.id, c.file, disk[c.file])
  <2>1. CASE answer = << Host!ErrorFrame(c.id, "UNSUPPORTED_PROTOCOL") >>
    BY <2>1 DEF ErrorCodes
  <2>2. CASE c.operation = "ping" /\ answer # << Host!ErrorFrame(c.id, "UNSUPPORTED_PROTOCOL") >>
    BY <2>2 DEF Host!Answers, Host!Unsupported
  <2>3. CASE c.operation = "readFile" /\ c.file \in TooLongUrls
    <3>1. answer = << Host!ErrorFrame(NoRequest, "MESSAGE_TOO_LARGE") >>
      BY <2>3 DEF Host!Answers
    <3> QED BY <3>1, <2>3 DEF ErrorCodes
  <2>4. CASE /\ c.operation = "readFile" /\ c.file \notin TooLongUrls
             /\ answer # << Host!ErrorFrame(c.id, "UNSUPPORTED_PROTOCOL") >>
    <3>1. PICK code \in Host!Readable(c.file) :
             answer = IF code = "OK" THEN Host!FileFrames(c.id, c.file, disk[c.file])
                                     ELSE << Host!ErrorFrame(c.id, code) >>
      BY <2>4 DEF Host!Answers, Host!Unsupported
    <3>2. code \in {"READ_FAILED", "FILE_TOO_LARGE", "OK"}
          /\ (code = "OK" => ~(Size[c.file][disk[c.file]] > MaxFileBytes))
      BY DEF Host!Readable
    <3>3. CASE code = "OK"
      <4>1. disk[c.file] \in 0..MaxEdits /\ c.file \in Files
        BY <2>4 DEF HostTyped
      <4>2. Size[c.file][disk[c.file]] <= MaxFileBytes
        BY <3>2, <3>3, <4>1, SizeNat, ConstantsAssumption
      <4> QED BY <3>1, <3>3, <4>2, <2>4
    <3>4. CASE code # "OK"
      BY <3>1, <3>2, <3>4 DEF ErrorCodes
    <3> QED BY <3>3, <3>4
  <2> QED BY <2>1, <2>2, <2>3, <2>4, <1>1 DEF Operations
<1> QED BY <1>2, <1>3, <1>4, <1>5
-----------------------------------------------------------------------------
(* Steps that send no new frame *)

\* The fields of a frame may be spoilt on the way.
NoNewFrames ==
    \A m \in Frames : Sent(m)' => Sent(m) \/ (m.type = "unknown" /\ HasFrames(m.id))

QueuesShrink ==
    \A p \in Ports : \/ toHost'[p] = toHost[p]
                     \/ toHost[p] # << >> /\ toHost'[p] = Tail(toHost[p])
                     \/ toHost'[p] = << >>

Quiet ==
    /\ HostTyped'
    /\ \A f \in Files : disk[f] <= disk'[f]
    /\ QueuesShrink
    /\ NoNewFrames

LEMMA EditIsQuiet ==
  ASSUME HostTyped, NEW f \in Files, Host!Edit(f)
  PROVE  Quiet
<1>1. disk' \in [Files -> 0..MaxEdits] /\ \A g \in Files : disk[g] <= disk'[g]
  BY ConstantsAssumption DEF HostTyped, Host!Edit
<1>2. UNCHANGED <<toHost, fromHost, process, script, faults>>
  BY DEF Host!Edit
<1>3. NoNewFrames /\ QueuesShrink
  BY <1>2 DEF NoNewFrames, QueuesShrink, Sent, In
<1> QED BY <1>1, <1>2, <1>3 DEF HostTyped, Quiet

LEMMA WriteIsQuiet ==
  ASSUME HostTyped, NEW p \in Ports, Host!WriteFrame(p)
  PROVE  Quiet
<1>1. /\ script[p] # << >> /\ script[p] \in Seq(Frames) /\ fromHost[p] \in Seq(Frames)
      /\ fromHost' = [fromHost EXCEPT ![p] = Append(fromHost[p], Head(script[p]))]
      /\ script' = [script EXCEPT ![p] = Tail(script[p])]
      /\ UNCHANGED <<disk, toHost, process, faults>>
  BY DEF HostTyped, Host!WriteFrame
<1>2. /\ Tail(script[p]) \in Seq(Frames) /\ Head(script[p]) \in Frames
      /\ In(Head(script[p]), script[p])
      /\ \A m : In(m, Tail(script[p])) => In(m, script[p])
  BY <1>1, InTail
<1>3. /\ Append(fromHost[p], Head(script[p])) \in Seq(Frames)
      /\ \A m : In(m, Append(fromHost[p], Head(script[p])))
                   => In(m, fromHost[p]) \/ m = Head(script[p])
  BY <1>1, <1>2, InAppend
<1>4. HostTyped'
  BY <1>1, <1>2, <1>3 DEF HostTyped
<1>5. ASSUME NEW m \in Frames, NEW q \in Ports, In(m, fromHost'[q]) \/ In(m, script'[q])
      PROVE  In(m, fromHost[q]) \/ In(m, script[q])
  <2>1. CASE q = p
    BY <2>1, <1>1, <1>2, <1>3, <1>5 DEF HostTyped
  <2>2. CASE q # p
    BY <2>2, <1>1, <1>5 DEF HostTyped
  <2> QED BY <2>1, <2>2
<1>6. NoNewFrames
  BY <1>5 DEF NoNewFrames, Sent, In
<1> QED BY <1>1, <1>4, <1>6, ConstantsAssumption DEF HostTyped, Quiet, QueuesShrink

LEMMA RepeatIsQuiet ==
  ASSUME HostTyped, NEW p \in Ports, Host!RepeatFrame(p)
  PROVE  Quiet /\ faults' > 0
<1>1. /\ script[p] # << >> /\ script[p] \in Seq(Frames) /\ fromHost[p] \in Seq(Frames)
      /\ fromHost' = [fromHost EXCEPT ![p] = Append(fromHost[p], Head(script[p]))]
      /\ UNCHANGED <<disk, toHost, process, script>>
      /\ faults' \in Nat /\ faults' > 0
  BY DEF HostTyped, Host!RepeatFrame
<1>2. /\ Head(script[p]) \in Frames /\ In(Head(script[p]), script[p])
  BY <1>1, InTail
<1>3. /\ Append(fromHost[p], Head(script[p])) \in Seq(Frames)
      /\ \A m : In(m, Append(fromHost[p], Head(script[p])))
                   => In(m, fromHost[p]) \/ m = Head(script[p])
  BY <1>1, <1>2, InAppend
<1>4. HostTyped'
  BY <1>1, <1>2, <1>3 DEF HostTyped
<1>5. ASSUME NEW m \in Frames, NEW q \in Ports, In(m, fromHost'[q]) \/ In(m, script'[q])
      PROVE  In(m, fromHost[q]) \/ In(m, script[q])
  <2>1. CASE q = p
    BY <2>1, <1>1, <1>2, <1>3, <1>5 DEF HostTyped
  <2>2. CASE q # p
    BY <2>2, <1>1, <1>5 DEF HostTyped
  <2> QED BY <2>1, <2>2
<1>6. NoNewFrames
  BY <1>5 DEF NoNewFrames, Sent, In
<1> QED BY <1>1, <1>4, <1>6, ConstantsAssumption DEF HostTyped, Quiet, QueuesShrink

LEMMA LoseIsQuiet ==
  ASSUME HostTyped, NEW p \in Ports, Host!LoseFrame(p)
  PROVE  Quiet /\ faults' > 0
<1>1. /\ script[p] # << >> /\ script[p] \in Seq(Frames)
      /\ script' = [script EXCEPT ![p] = Tail(script[p])]
      /\ UNCHANGED <<disk, toHost, fromHost, process>>
      /\ faults' \in Nat /\ faults' > 0
  BY DEF HostTyped, Host!LoseFrame
<1>2. /\ Tail(script[p]) \in Seq(Frames)
      /\ \A m : In(m, Tail(script[p])) => In(m, script[p])
  BY <1>1, InTail
<1>3. HostTyped'
  BY <1>1, <1>2 DEF HostTyped
<1>4. ASSUME NEW m \in Frames, NEW q \in Ports, In(m, fromHost'[q]) \/ In(m, script'[q])
      PROVE  In(m, fromHost[q]) \/ In(m, script[q])
  BY <1>1, <1>2, <1>4 DEF HostTyped
<1>5. NoNewFrames
  BY <1>4 DEF NoNewFrames, Sent, In
<1> QED BY <1>1, <1>3, <1>5, ConstantsAssumption DEF HostTyped, Quiet, QueuesShrink

LEMMA ChangeIsQuiet ==
  ASSUME HostTyped, NEW p \in Ports, Host!ChangeFrame(p)
  PROVE  Quiet /\ faults' > 0
<1> DEFINE e == [type |-> "unknown", id |-> Head(script[p]).id]
<1>1. /\ script[p] # << >> /\ script[p] \in Seq(Frames) /\ fromHost[p] \in Seq(Frames)
      /\ fromHost' = [fromHost EXCEPT ![p] = Append(fromHost[p], e)]
      /\ script' = [script EXCEPT ![p] = Tail(script[p])]
      /\ UNCHANGED <<disk, toHost, process>>
      /\ faults' \in Nat /\ faults' > 0
  BY DEF HostTyped, Host!ChangeFrame
<1>2. /\ Tail(script[p]) \in Seq(Frames) /\ Head(script[p]) \in Frames
      /\ In(Head(script[p]), script[p])
      /\ \A m : In(m, Tail(script[p])) => In(m, script[p])
  BY <1>1, InTail
<1>3. Head(script[p]).id \in Ids
  BY <1>2 DEF Frames
<1>4. e.type = "unknown" /\ e.id = Head(script[p]).id /\ e \in Frames
  BY <1>3 DEF Frames
<1> HIDE DEF e
<1>5. /\ Append(fromHost[p], e) \in Seq(Frames)
      /\ \A m : In(m, Append(fromHost[p], e)) => In(m, fromHost[p]) \/ m = e
  BY <1>1, <1>4, InAppend
<1>6. HostTyped'
  BY <1>1, <1>2, <1>5 DEF HostTyped
<1>7. HasFrames(e.id)
  BY <1>2, <1>4 DEF HasFrames, Sent
<1>8. ASSUME NEW m \in Frames, NEW q \in Ports, In(m, fromHost'[q]) \/ In(m, script'[q])
      PROVE  In(m, fromHost[q]) \/ In(m, script[q]) \/ m = e
  <2>1. CASE q = p
    BY <2>1, <1>1, <1>2, <1>5, <1>8 DEF HostTyped
  <2>2. CASE q # p
    BY <2>2, <1>1, <1>8 DEF HostTyped
  <2> QED BY <2>1, <2>2
<1>9. ASSUME NEW m \in Frames, Sent(m)'
      PROVE  Sent(m) \/ (m.type = "unknown" /\ HasFrames(m.id))
  <2>1. PICK q \in Ports : In(m, fromHost'[q]) \/ In(m, script'[q])
    BY <1>9 DEF Sent, In
  <2> QED BY <2>1, <1>4, <1>7, <1>8 DEF Sent
<1> QED BY <1>1, <1>6, <1>9, ConstantsAssumption DEF HostTyped, Quiet, QueuesShrink, NoNewFrames

\* A process that ends, or a port that is given up, takes its frames with it.
LEMMA ClearIsQuiet ==
  ASSUME HostTyped, NEW p \in Ports,
         toHost' = toHost \/ toHost' = [toHost EXCEPT ![p] = << >>],
         \/ fromHost' = fromHost
         \/ fromHost' = [fromHost EXCEPT ![p] = << >>]
         \/ fromHost[p] # << >> /\ fromHost' = [fromHost EXCEPT ![p] = Tail(@)],
         script' = script \/ script' = [script EXCEPT ![p] = << >>],
         process' = process \/ process' = [process EXCEPT ![p] = "ended"],
         UNCHANGED <<disk, faults>>
  PROVE  Quiet
<1>1. fromHost[p] # << >> =>
         /\ Tail(fromHost[p]) \in Seq(Frames)
         /\ \A m : In(m, Tail(fromHost[p])) => In(m, fromHost[p])
  BY InTail DEF HostTyped
<1>2. fromHost' \in [Ports -> Seq(Frames)]
  BY <1>1, InEmpty DEF HostTyped
<1>3. script' \in [Ports -> Seq(Frames)]
  BY InEmpty DEF HostTyped
<1>4. toHost' \in [Ports -> Seq(Calls)] /\ QueuesShrink
  BY InEmpty DEF HostTyped, QueuesShrink
<1>5. process' \in [Ports -> {"none", "running", "ended"}]
  BY DEF HostTyped
<1>6. ASSUME NEW m \in Frames, NEW q \in Ports
      PROVE  /\ In(m, fromHost'[q]) => In(m, fromHost[q])
             /\ In(m, script'[q]) => In(m, script[q])
  BY <1>1, InEmpty DEF HostTyped
<1>7. NoNewFrames
  BY <1>6 DEF NoNewFrames, Sent, In
<1> QED BY <1>2, <1>3, <1>4, <1>5, <1>7, ConstantsAssumption DEF HostTyped, Quiet
-----------------------------------------------------------------------------
(* What is known of a request *)

\* A frame of an answer stays one.
LEMMA FramesStay ==
  ASSUME HostTyped, Quiet, NEW id \in Requests, NEW v \in 0..MaxEdits,
         asked[id] # None, asked'[id] = asked[id], since'[id] = since[id], Answered(id, v)
  PROVE  /\ asked[id].operation = "readFile" =>
               /\ asked[id].file \in Files
               /\ since[id][asked[id].file] <= v /\ v <= disk'[asked[id].file]
         /\ \A m \in Frames : Sent(m)' /\ m.id = id => FrameOf(id, v, m)
<1>1. ASSUME asked[id].operation = "readFile"
      PROVE  /\ asked[id].file \in Files
             /\ since[id][asked[id].file] <= v /\ v <= disk'[asked[id].file]
  <2>1. asked[id].file \in Files /\ since[id][asked[id].file] <= v /\ v <= disk[asked[id].file]
    BY <1>1 DEF Answered
  <2>2. disk[asked[id].file] \in 0..MaxEdits /\ disk'[asked[id].file] \in 0..MaxEdits
        /\ disk[asked[id].file] <= disk'[asked[id].file]
    BY <2>1 DEF HostTyped, Quiet
  <2> QED BY <2>1, <2>2, ConstantsAssumption
<1>2. ASSUME NEW m \in Frames, Sent(m)', m.id = id
      PROVE  FrameOf(id, v, m)
  <2>1. CASE Sent(m)
    BY <2>1, <1>2 DEF Answered
  <2>2. CASE m.type = "unknown"
    BY <2>2 DEF FrameOf
  <2> QED BY <2>1, <2>2, <1>2 DEF Quiet, NoNewFrames
<1> QED BY <1>1, <1>2

LEMMA SinceStays ==
  ASSUME IInv, HostTyped', \A f \in Files : disk[f] <= disk'[f], UNCHANGED since
  PROVE  SinceOK'
<1>1. ASSUME NEW id \in Requests, NEW f \in Files
      PROVE  since[id][f] <= disk'[f]
  <2>1. since[id][f] \in 0..MaxEdits /\ disk[f] \in 0..MaxEdits /\ disk'[f] \in 0..MaxEdits
    BY DEF IInv, HostTyped, ClientTyped
  <2> QED BY <2>1, ConstantsAssumption DEF IInv, SinceOK
<1> QED BY <1>1 DEF SinceOK

LEMMA NoFrames ==
  ASSUME NoNewFrames, NEW id \in Requests, ~HasFrames(id)
  PROVE  ~HasFrames(id)'
BY DEF NoNewFrames, HasFrames

\* A step that changes the assembly or the outcome of a request.
LEMMA RequestMoves ==
  ASSUME IInv, Quiet, NEW id \in Requests, NEW v \in 0..MaxEdits,
         asked[id] # None, UNCHANGED <<asked, since>>, Answered(id, v),
         AssemblyOf(id, v)', OutcomeOf(id, v)',
         Queued(id) => /\ pending'[id] # None => pending'[id].assembly = None
                       /\ outcome'[id] # None => outcome'[id].code # "OK"
  PROVE  RequestOK(id)'
<1>1. /\ asked[id].operation = "readFile" =>
            /\ asked[id].file \in Files
            /\ since[id][asked[id].file] <= v /\ v <= disk'[asked[id].file]
      /\ \A m \in Frames : Sent(m)' /\ m.id = id => FrameOf(id, v, m)
  BY FramesStay DEF IInv
<1>2. \A m \in Frames : FrameOf(id, v, m) => FrameOf(id, v, m)'
  BY DEF FrameOf
<1>3. Answered(id, v)'
  BY <1>1, <1>2 DEF Answered
<1>4. Queued(id)' => Queued(id)
  BY QueueShrinks DEF IInv, Quiet, QueuesShrink
<1>5. Queued(id) => ~HasFrames(id)'
  BY NoFrames DEF IInv, RequestOK, Quiet
<1> QED BY <1>3, <1>4, <1>5 DEF RequestOK

\* A step that changes nothing of a request but what is still to be heard.
LEMMA RequestStays ==
  ASSUME IInv, Quiet, NEW id \in Requests, UNCHANGED <<asked, since>>,
         pending'[id] = pending[id], outcome'[id] = outcome[id]
  PROVE  RequestOK(id)' /\ LostOK(id)'
<1>1. RequestOK(id) /\ LostOK(id)
  BY DEF IInv
<1>2. LostOK(id)'
  BY <1>1 DEF LostOK
<1>3. CASE asked[id] = None
  <2>1. ~HasFrames(id)'
    BY <1>1, <1>3, NoFrames DEF RequestOK, Quiet
  <2>2. ~Queued(id)'
    BY <1>1, <1>3, QueueShrinks DEF IInv, RequestOK, Quiet, QueuesShrink
  <2> QED BY <1>1, <1>2, <1>3, <2>1, <2>2 DEF RequestOK
<1>4. CASE asked[id] # None
  <2>1. PICK v \in 0..MaxEdits : Answered(id, v)
    BY <1>1, <1>4 DEF RequestOK
  <2>2. AssemblyOf(id, v)'
    BY <2>1 DEF Answered, AssemblyOf, Begins, ChunkAt
  <2>3. OutcomeOf(id, v)'
    BY <2>1 DEF Answered, OutcomeOf, Begins, ChunkAt
  <2>4. Queued(id) => /\ pending'[id] # None => pending'[id].assembly = None
                      /\ outcome'[id] # None => outcome'[id].code # "OK"
    BY <1>1 DEF RequestOK
  <2> QED BY <1>2, <1>4, <2>1, <2>2, <2>3, <2>4, RequestMoves
<1> QED BY <1>3, <1>4

\* A request that fails, is given up, or was settled before.
LEMMA RequestEnds ==
  ASSUME IInv, Quiet, NEW id \in Requests, UNCHANGED <<asked, since>>,
         pending'[id] = None,
         pending[id] = None => outcome'[id] = outcome[id],
         pending[id] # None => outcome'[id] # None,
         \/ outcome'[id] = outcome[id]
         \/ outcome[id] = None /\ outcome'[id].code # "OK"
  PROVE  RequestOK(id)' /\ LostOK(id)'
<1>1. RequestOK(id) /\ LostOK(id)
  BY DEF IInv
<1>2. CASE pending[id] = None
  BY <1>2, RequestStays
<1>3. CASE pending[id] # None
  <2>1. asked[id] # None
    BY <1>1, <1>3 DEF RequestOK
  <2>2. PICK v \in 0..MaxEdits : Answered(id, v)
    BY <1>1, <2>1 DEF RequestOK
  <2>3. AssemblyOf(id, v)'
    BY DEF AssemblyOf
  <2>4. OutcomeOf(id, v)'
    <3>1. CASE outcome'[id] = outcome[id]
      BY <3>1, <2>2 DEF Answered, OutcomeOf, Begins, ChunkAt
    <3>2. CASE outcome'[id].code # "OK"
      BY <3>2 DEF OutcomeOf
    <3> QED BY <3>1, <3>2
  <2>5. Queued(id) => (outcome'[id] # None => outcome'[id].code # "OK")
    BY <1>1 DEF RequestOK
  <2>6. RequestOK(id)'
    BY <2>1, <2>2, <2>3, <2>4, <2>5, RequestMoves
  <2>7. LostOK(id)'
    BY <1>3 DEF LostOK
  <2> QED BY <2>6, <2>7
<1> QED BY <1>2, <1>3
-----------------------------------------------------------------------------
(* The steps of the processes *)

\* Such a step leaves a request where it is, with its end ahead or another.
LEMMA HostKeeps ==
  ASSUME IInv, Quiet, UNCHANGED <<client, since>>,
         \A p \in used : process'[p] # "none",
         \A id \in Requests : AheadOK(id)'
  PROVE  IInv'
<1>1. /\ UNCHANGED <<port, used, pending, asked, outcome, since>>
  BY DEF client
<1>2. \A id \in Requests : RequestOK(id)' /\ LostOK(id)'
  BY <1>1, RequestStays
<1>3. QueueOK'
  BY <1>1, QueueShrinks DEF IInv, Quiet, QueuesShrink
<1>4. ClientTyped' /\ PortsOK'
  BY <1>1 DEF IInv, ClientTyped, PortsOK
<1>5. SinceOK'
  BY <1>1, SinceStays DEF Quiet
<1> QED BY <1>2, <1>3, <1>4, <1>5 DEF IInv, Quiet

\* After a fault a request may have to wait for its timer.
LEMMA FaultsExcuse ==
  ASSUME faults' > 0, NEW id \in Requests, faults \in Nat
  PROVE  AheadOK(id)'
BY DEF AheadOK

\* The end of a request goes on being ahead.
LEMMA AheadStays ==
  ASSUME NEW id \in Requests, AheadOK(id), faults' = faults,
         pending'[id] = None \/ pending[id] # None,
         outcome'[id] = outcome[id], asked'[id] = asked[id],
         port' = port,
         port # None =>
            /\ process[port] = "ended" => process'[port] = "ended"
            /\ (\E i \in DOMAIN toHost[port] : toHost[port][i].id = id) =>
                  \/ \E i \in DOMAIN toHost'[port] : toHost'[port][i].id = id
                  \/ process'[port] = "ended"
                  \/ EndIn(script'[port], id)
                  \/ asked[id].file \in TooLongUrls
            /\ EndIn(fromHost[port], id) => \/ EndIn(fromHost'[port], id)
                                            \/ pending'[id] = None
            /\ EndIn(script[port], id) => \/ EndIn(script'[port], id)
                                          \/ EndIn(fromHost'[port], id)
                                          \/ process'[port] = "ended"
  PROVE  AheadOK(id)'
BY DEF AheadOK, EndIn, In

LEMMA EditKeeps ==
  ASSUME IInv, UNCHANGED <<client, since>>, NEW f \in Files, Host!Edit(f)
  PROVE  IInv'
<1>1. Quiet
  BY EditIsQuiet DEF IInv
<1>2. UNCHANGED <<toHost, fromHost, process, script, faults, port, pending, outcome, asked, used>>
  BY DEF Host!Edit, client
<1>3. \A id \in Requests : AheadOK(id)'
  BY <1>2, AheadStays DEF IInv
<1> QED BY <1>1, <1>2, <1>3, HostKeeps DEF IInv, PortsOK

LEMMA WriteKeeps ==
  ASSUME IInv, UNCHANGED <<client, since>>, NEW p \in Ports, Host!WriteFrame(p)
  PROVE  IInv'
<1>1. Quiet
  BY WriteIsQuiet DEF IInv
<1>2. /\ UNCHANGED <<toHost, process, faults, port, pending, outcome, asked, used>>
      /\ script[p] # << >> /\ script[p] \in Seq(Frames) /\ fromHost[p] \in Seq(Frames)
      /\ fromHost' = [fromHost EXCEPT ![p] = Append(fromHost[p], Head(script[p]))]
      /\ script' = [script EXCEPT ![p] = Tail(script[p])]
      /\ fromHost \in [Ports -> Seq(Frames)] /\ script \in [Ports -> Seq(Frames)]
  BY DEF Host!WriteFrame, client, IInv, HostTyped
<1>3. Head(script[p]) \in Frames
      /\ \A m : In(m, script[p]) => m = Head(script[p]) \/ In(m, Tail(script[p]))
  BY <1>2, InTail
<1>4. /\ \A m : In(m, fromHost[p]) => In(m, Append(fromHost[p], Head(script[p])))
      /\ In(Head(script[p]), Append(fromHost[p], Head(script[p])))
  BY <1>2, <1>3, InAppend
<1>5. ASSUME NEW id \in Requests
      PROVE  /\ EndIn(fromHost[p], id) => EndIn(fromHost'[p], id)
             /\ EndIn(script[p], id) => EndIn(script'[p], id) \/ EndIn(fromHost'[p], id)
  BY <1>2, <1>3, <1>4 DEF EndIn
<1>6. ASSUME NEW id \in Requests PROVE AheadOK(id)'
  <2>1. AheadOK(id) /\ (port # None => port \in Ports)
    BY DEF IInv, ClientTyped
  <2>2. CASE port = p
    BY <2>1, <2>2, <1>2, <1>5, AheadStays
  <2>3. CASE port # p
    <3>1. port # None => fromHost'[port] = fromHost[port] /\ script'[port] = script[port]
      BY <2>1, <2>3, <1>2
    <3> QED BY <2>1, <3>1, <1>2, AheadStays
  <2> QED BY <2>2, <2>3
<1> QED BY <1>1, <1>2, <1>6, HostKeeps DEF IInv, PortsOK

LEMMA FaultKeeps ==
  ASSUME IInv, UNCHANGED <<client, since>>, NEW p \in Ports,
         Host!LoseFrame(p) \/ Host!ChangeFrame(p) \/ Host!RepeatFrame(p)
  PROVE  IInv'
<1>1. Quiet /\ faults' > 0
  BY LoseIsQuiet, ChangeIsQuiet, RepeatIsQuiet DEF IInv
<1>2. process' = process /\ faults \in Nat /\ used' = used
  BY DEF Host!LoseFrame, Host!ChangeFrame, Host!RepeatFrame, client, IInv, HostTyped
<1>3. \A id \in Requests : AheadOK(id)'
  BY <1>1, <1>2, FaultsExcuse
<1> QED BY <1>1, <1>2, <1>3, HostKeeps DEF IInv, PortsOK

LEMMA EndKeeps ==
  ASSUME IInv, UNCHANGED <<client, since>>, NEW p \in Ports, Host!End(p)
  PROVE  IInv'
<1>1. /\ process' = [process EXCEPT ![p] = "ended"]
      /\ toHost' = [toHost EXCEPT ![p] = << >>]
      /\ script' = [script EXCEPT ![p] = << >>]
      /\ UNCHANGED <<disk, fromHost, faults, port, used, pending, asked, outcome>>
  BY DEF Host!End, client
<1>2. Quiet
  BY <1>1, ClearIsQuiet DEF IInv
<1>3. ASSUME NEW id \in Requests PROVE AheadOK(id)'
  <2>1. AheadOK(id) /\ (port # None => port \in Ports)
    BY DEF IInv, ClientTyped
  <2>2. CASE port = p
    <3>1. process'[port] = "ended"
      BY <2>2, <1>1 DEF IInv, HostTyped
    <3> QED BY <2>1, <3>1, <1>1, AheadStays
  <2>3. CASE port # p
    <3>1. port # None => /\ toHost'[port] = toHost[port] /\ script'[port] = script[port]
                         /\ process'[port] = process[port]
      BY <2>1, <2>3, <1>1 DEF IInv, HostTyped
    <3> QED BY <2>1, <3>1, <1>1, AheadStays
  <2> QED BY <2>2, <2>3
<1>4. \A q \in used : process'[q] # "none"
  BY <1>1 DEF IInv, PortsOK, HostTyped, ClientTyped
<1> QED BY <1>1, <1>2, <1>3, <1>4, HostKeeps

\* Taking a request sends the frames of its answer, the first that bear its id.
LEMMA TakeKeeps ==
  ASSUME IInv, UNCHANGED <<client, since>>, NEW p \in Ports, Host!Take(p)
  PROVE  IInv'
<1>1. /\ toHost[p] # << >> /\ toHost[p] \in Seq(Calls) /\ script[p] = << >>
      /\ toHost' = [toHost EXCEPT ![p] = Tail(toHost[p])]
      /\ UNCHANGED <<disk, fromHost, process, faults, port, used, pending, asked, outcome, since>>
      /\ disk \in [Files -> 0..MaxEdits] /\ script \in [Ports -> Seq(Frames)]
      /\ toHost \in [Ports -> Seq(Calls)]
  BY DEF Host!Take, client, IInv, HostTyped
<1>0. PICK c \in Calls : c = Head(toHost[p])
  BY <1>1, HeadTailProperties
<1>2. PICK answer \in Host!Answers(c) : script' = [script EXCEPT ![p] = answer]
  BY <1>0 DEF Host!Take
<1>3. /\ c = toHost[p][1] /\ 1 \in DOMAIN toHost[p]
      /\ Tail(toHost[p]) \in Seq(Calls)
      /\ DOMAIN toHost[p] = 1..Len(toHost[p]) /\ Len(toHost[p]) \in Nat
      /\ DOMAIN Tail(toHost[p]) = 1..(Len(toHost[p]) - 1)
      /\ \A i \in 1..(Len(toHost[p]) - 1) : Tail(toHost[p])[i] = toHost[p][i + 1]
  BY <1>0, <1>1, HeadTailProperties, LenProperties, EmptySeq
<1>4. /\ c.id \in Requests /\ Queued(c.id) /\ c.operation \in Operations
      /\ asked[c.id] = [operation |-> c.operation, file |-> c.file]
  BY <1>1, <1>3 DEF Calls, Queued, IInv, QueueOK
<1>5. /\ asked[c.id] # None
      /\ asked[c.id].operation = c.operation /\ asked[c.id].file = c.file
      /\ ~HasFrames(c.id)
      /\ pending[c.id] # None => pending[c.id].assembly = None
      /\ outcome[c.id] # None => outcome[c.id].code # "OK"
  BY <1>4 DEF IInv, RequestOK
<1>6. PICK w \in 0..MaxEdits : Answered(c.id, w)
  BY <1>4, <1>5 DEF IInv, RequestOK
<1>7. c.operation = "readFile" => c.file \in Files /\ since[c.id][c.file] <= disk[c.file]
  <2>1. SUFFICES ASSUME c.operation = "readFile"
                 PROVE  c.file \in Files /\ since[c.id][c.file] <= disk[c.file]
    OBVIOUS
  <2>2. c.file \in Files /\ since[c.id][c.file] <= w /\ w <= disk[c.file]
    BY <1>5, <1>6, <2>1 DEF Answered
  <2>3. since[c.id][c.file] \in 0..MaxEdits /\ disk[c.file] \in 0..MaxEdits
    BY <1>1, <1>4, <2>2 DEF IInv, ClientTyped
  <2> QED BY <2>2, <2>3, ConstantsAssumption
<1>8. PICK v \in 0..MaxEdits : c.operation = "readFile" => v = disk[c.file]
  <2>1. CASE c.operation = "readFile"
    BY <2>1, <1>1, <1>7
  <2>2. CASE c.operation # "readFile"
    BY <2>2, <1>6
  <2> QED BY <2>1, <2>2
<1>9. /\ answer \in Seq(Frames)
      /\ \A m : In(m, answer) => m.id \in {c.id, NoRequest}
      /\ \A m : In(m, answer) => FrameOf(c.id, v, m)
      /\ c.file \notin TooLongUrls => EndIn(answer, c.id)
  BY <1>3, <1>4, <1>7, <1>8, AnswersAre DEF IInv
<1>10. HostTyped'
  BY <1>1, <1>2, <1>3, <1>9 DEF IInv, HostTyped
<1>11. /\ QueueOK'
       /\ \A id \in Requests : Queued(id)' => Queued(id)
  BY <1>1, QueueShrinks DEF IInv
<1>12. ~Queued(c.id)'
  <2>1. SUFFICES ASSUME NEW q \in Ports, NEW i \in DOMAIN toHost'[q], toHost'[q][i].id = c.id
                 PROVE  FALSE
    BY DEF Queued
  <2>2. CASE q = p
    <3>1. i \in 1..(Len(toHost[p]) - 1) /\ toHost'[q][i] = toHost[p][i + 1]
      BY <2>2, <1>1, <1>3
    <3>2. i + 1 \in DOMAIN toHost[p] /\ i + 1 # 1
      BY <3>1, <1>3
    <3> QED BY <2>1, <3>1, <3>2, <1>3 DEF IInv, QueueOK
  <2>3. CASE q # p
    <3>1. toHost'[q] = toHost[q]
      BY <2>3, <1>1
    <3> QED BY <2>1, <2>3, <3>1, <1>3 DEF IInv, QueueOK
  <2> QED BY <2>2, <2>3
<1>13. ASSUME NEW m \in Frames, Sent(m)'
       PROVE  Sent(m) \/ In(m, answer)
  <2>1. PICK q \in Ports : In(m, fromHost'[q]) \/ In(m, script'[q])
    BY <1>13 DEF Sent, In
  <2>2. CASE q = p
    <3>1. In(m, fromHost[q]) \/ In(m, answer)
      BY <2>1, <2>2, <1>1, <1>2
    <3> QED BY <3>1 DEF Sent
  <2>3. CASE q # p
    <3>1. In(m, fromHost[q]) \/ In(m, script[q])
      BY <2>1, <2>3, <1>1, <1>2
    <3> QED BY <3>1 DEF Sent
  <2> QED BY <2>2, <2>3
<1>14. ASSUME NEW id \in Requests, id # c.id
       PROVE  RequestOK(id)' /\ LostOK(id)'
  <2>1. \A m \in Frames : Sent(m)' /\ m.id = id => Sent(m)
    BY <1>9, <1>13, <1>14, ConstantsAssumption
  <2>2. RequestOK(id) /\ LostOK(id)
    BY DEF IInv
  <2>3. HasFrames(id)' => HasFrames(id)
    BY <2>1 DEF HasFrames
  <2>4. ASSUME NEW u \in 0..MaxEdits, Answered(id, u)
        PROVE  Answered(id, u)'
    BY <2>1, <2>4, <1>1 DEF Answered, FrameOf, AssemblyOf, OutcomeOf, Begins, ChunkAt
  <2> QED BY <2>2, <2>3, <2>4, <1>1, <1>11 DEF RequestOK, LostOK
<1>15. RequestOK(c.id)' /\ LostOK(c.id)'
  <2>1. ASSUME NEW m \in Frames, Sent(m)', m.id = c.id
        PROVE  FrameOf(c.id, v, m)
    BY <2>1, <1>5, <1>9, <1>13 DEF HasFrames
  <2>2. \A m \in Frames : FrameOf(c.id, v, m) => FrameOf(c.id, v, m)'
    BY <1>1 DEF FrameOf
  <2>3. AssemblyOf(c.id, v)' /\ OutcomeOf(c.id, v)'
    <3>1. pending[c.id] # None => pending[c.id].operation = asked[c.id].operation
      BY <1>6 DEF Answered, AssemblyOf
    <3> QED BY <3>1, <1>1, <1>5 DEF AssemblyOf, OutcomeOf
  <2>4. asked[c.id].operation = "readFile" =>
           /\ asked[c.id].file \in Files
           /\ since[c.id][asked[c.id].file] <= v /\ v <= disk[asked[c.id].file]
    BY <1>1, <1>5, <1>7, <1>8 DEF IInv, HostTyped
  <2>5. Answered(c.id, v)'
    BY <2>1, <2>2, <2>3, <2>4, <1>1 DEF Answered
  <2>6. LostOK(c.id)'
    BY <1>1, <1>4 DEF IInv, LostOK
  <2> QED BY <2>5, <2>6, <1>1, <1>5, <1>12 DEF RequestOK
<1>16. ASSUME NEW id \in Requests PROVE AheadOK(id)'
  <2>1. AheadOK(id) /\ (port # None => port \in Ports)
    BY DEF IInv, ClientTyped
  <2>2. CASE port = p
    <3>1. ASSUME \E i \in DOMAIN toHost[port] : toHost[port][i].id = id
          PROVE  \/ \E i \in DOMAIN toHost'[port] : toHost'[port][i].id = id
                 \/ EndIn(script'[port], id)
                 \/ asked[id].file \in TooLongUrls
      <4>1. PICK i \in DOMAIN toHost[p] : toHost[p][i].id = id
        BY <3>1, <2>2
      <4>2. CASE i = 1
        <5>1. id = c.id /\ script'[p] = answer
          BY <4>1, <4>2, <1>1, <1>2, <1>3
        <5> QED BY <5>1, <2>2, <1>5, <1>9
      <4>3. CASE i # 1
        <5>1. i - 1 \in 1..(Len(toHost[p]) - 1) /\ (i - 1) + 1 = i
          BY <4>1, <4>3, <1>3
        <5>2. i - 1 \in DOMAIN toHost'[p] /\ toHost'[p][i - 1] = toHost[p][i]
          BY <5>1, <1>1, <1>3
        <5> QED BY <5>2, <4>1, <2>2
      <4> QED BY <4>2, <4>3
    <3>2. ~EndIn(script[port], id)
      BY <2>2, <1>1, InEmpty DEF EndIn
    <3> QED BY <2>1, <3>1, <3>2, <1>1, AheadStays
  <2>3. CASE port # p
    <3>1. port # None => toHost'[port] = toHost[port] /\ script'[port] = script[port]
      BY <2>1, <2>3, <1>1, <1>2
    <3> QED BY <2>1, <3>1, <1>1, AheadStays
  <2> QED BY <2>2, <2>3
<1>17. ClientTyped' /\ PortsOK' /\ SinceOK'
  BY <1>1 DEF IInv, ClientTyped, PortsOK, SinceOK
<1> QED BY <1>10, <1>11, <1>14, <1>15, <1>16, <1>17 DEF IInv
-----------------------------------------------------------------------------
(* The steps of the client *)

\* The steps that settle or advance requests and make none.
LEMMA ClientKeeps ==
  ASSUME IInv, Quiet, UNCHANGED <<asked, since, used>>,
         port' \in {port, None}, \A p \in used : process'[p] # "none",
         pending' \in [Requests -> Entries \cup {None}],
         outcome' \in [Requests -> Outcomes \cup {None}],
         \A id \in Requests : RequestOK(id)' /\ LostOK(id)' /\ AheadOK(id)'
  PROVE  IInv'
<1>1. QueueOK'
  BY QueueShrinks DEF IInv, Quiet, QueuesShrink
<1>2. ClientTyped' /\ PortsOK'
  BY DEF IInv, ClientTyped, PortsOK
<1>3. SinceOK'
  BY SinceStays DEF Quiet
<1> QED BY <1>1, <1>2, <1>3 DEF IInv, Quiet

LEMMA FailureTyped ==
  ASSUME NEW code \in Codes
  PROVE  Client!Failure(code) \in Outcomes /\ Client!Failure(code).code = code
BY EmptySeq DEF Client!Failure, Outcomes

LEMMA HostInfoTyped == Client!HostInfo \in Outcomes /\ Client!HostInfo.code = "STATUS"
BY EmptySeq DEF Client!HostInfo, Outcomes, Codes

LEMMA OutcomesAreSome == \A o \in Outcomes : o # None
BY ConstantsAssumption

\* rejectPending: a promise is settled with anything but the bytes of a file.
LEMMA SettleKeeps ==
  ASSUME IInv, Quiet, UNCHANGED <<asked, since, used, port>>,
         \A p \in used : process'[p] # "none",
         NEW id \in Requests, pending[id] # None,
         NEW value \in Outcomes, value.code # "OK", Client!Settle(id, value),
         \A other \in Requests \ {id} : AheadOK(other)'
  PROVE  IInv'
<1>1. /\ pending' = [pending EXCEPT ![id] = None]
      /\ outcome' = [outcome EXCEPT ![id] = IF outcome[id] = None THEN value ELSE outcome[id]]
      /\ pending \in [Requests -> Entries \cup {None}]
      /\ outcome \in [Requests -> Outcomes \cup {None}]
      /\ value # None
  BY OutcomesAreSome DEF Client!Settle, IInv, ClientTyped
<1>2. RequestOK(id)' /\ LostOK(id)'
  BY <1>1, RequestEnds
<1>3. AheadOK(id)'
  BY <1>1 DEF AheadOK
<1>4. \A other \in Requests \ {id} : RequestOK(other)' /\ LostOK(other)'
  BY <1>1, RequestStays
<1>5. /\ pending' \in [Requests -> Entries \cup {None}]
      /\ outcome' \in [Requests -> Outcomes \cup {None}]
  BY <1>1
<1> QED BY <1>2, <1>3, <1>4, <1>5, ClientKeeps

LEMMA TimeoutKeeps ==
  ASSUME IInv, NEW id \in Requests, Timeout(id)
  PROVE  IInv'
<1>1. /\ pending[id] # None /\ Client!Settle(id, Client!Failure("NATIVE_TIMEOUT"))
      /\ UNCHANGED <<port, used, asked, toHost, fromHost, process, disk, script, faults, since>>
  BY DEF Timeout, Client!Timeout
<1>2. Quiet
  BY <1>1, ConstantsAssumption
     DEF IInv, Quiet, QueuesShrink, NoNewFrames, HostTyped, Sent, In
<1>3. /\ Client!Failure("NATIVE_TIMEOUT") \in Outcomes
      /\ Client!Failure("NATIVE_TIMEOUT").code # "OK"
  BY FailureTyped DEF Codes
<1>4. ASSUME NEW other \in Requests \ {id} PROVE AheadOK(other)'
  <2>1. pending'[other] = pending[other] /\ outcome'[other] = outcome[other]
    BY <1>1 DEF Client!Settle, IInv, ClientTyped
  <2>2. AheadOK(other)
    BY DEF IInv
  <2> QED BY <2>1, <2>2, <1>1, AheadStays
<1>5. \A p \in used : process'[p] # "none"
  BY <1>1 DEF IInv, PortsOK
<1> QED BY <1>1, <1>2, <1>3, <1>4, <1>5, SettleKeeps

\* rejectAllPending
LEMMA RejectAllKeeps ==
  ASSUME IInv, Quiet, UNCHANGED <<asked, since, used>>, port' = None,
         \A p \in used : process'[p] # "none", Client!RejectAll
  PROVE  IInv'
<1>1. /\ pending' = [id \in Requests |-> None]
      /\ outcome' = [id \in Requests |->
                       IF pending[id] # None /\ outcome[id] = None
                       THEN Client!Failure("NATIVE_DISCONNECTED") ELSE outcome[id]]
      /\ outcome \in [Requests -> Outcomes \cup {None}]
  BY DEF Client!RejectAll, IInv, ClientTyped
<1>2. /\ Client!Failure("NATIVE_DISCONNECTED") \in Outcomes
      /\ Client!Failure("NATIVE_DISCONNECTED").code # "OK"
      /\ Client!Failure("NATIVE_DISCONNECTED") # None
  BY FailureTyped, OutcomesAreSome DEF Codes
<1>3. /\ pending' \in [Requests -> Entries \cup {None}]
      /\ outcome' \in [Requests -> Outcomes \cup {None}]
  BY <1>1, <1>2
<1>4. ASSUME NEW id \in Requests
      PROVE  RequestOK(id)' /\ LostOK(id)' /\ AheadOK(id)'
  <2>1. /\ pending'[id] = None
        /\ outcome'[id] = IF pending[id] # None /\ outcome[id] = None
                          THEN Client!Failure("NATIVE_DISCONNECTED") ELSE outcome[id]
    BY <1>1
  <2>2. RequestOK(id)' /\ LostOK(id)'
    BY <2>1, <1>2, RequestEnds
  <2>3. AheadOK(id)'
    BY <2>1 DEF AheadOK
  <2> QED BY <2>2, <2>3
<1> QED BY <1>3, <1>4, ClientKeeps

LEMMA DisconnectKeeps ==
  ASSUME IInv, Disconnect
  PROVE  IInv'
<1>1. /\ port # None /\ Client!RejectAll /\ port' = None
      /\ fromHost' = [fromHost EXCEPT ![port] = << >>]
      /\ toHost' = [toHost EXCEPT ![port] = << >>]
      /\ process' = [process EXCEPT ![port] = "ended"]
      /\ UNCHANGED <<used, asked, disk, script, faults, since>>
  BY DEF Disconnect, Client!disconnect
<1>2. port \in Ports
  BY <1>1 DEF IInv, ClientTyped
<1>3. Quiet
  BY <1>1, <1>2, ClearIsQuiet DEF IInv
<1>4. \A p \in used : process'[p] # "none"
  BY <1>1 DEF IInv, PortsOK, HostTyped, ClientTyped
<1> QED BY <1>1, <1>3, <1>4, RejectAllKeeps

LEMMA HandleDisconnectKeeps ==
  ASSUME IInv, Client!handleDisconnect, UNCHANGED <<disk, script, faults, since>>
  PROVE  IInv'
<1>1. /\ port # None /\ Client!RejectAll /\ port' = None
      /\ fromHost' = [fromHost EXCEPT ![port] = << >>]
      /\ UNCHANGED <<used, asked, toHost, process, disk, script, faults, since>>
  BY DEF Client!handleDisconnect
<1>2. port \in Ports
  BY <1>1 DEF IInv, ClientTyped
<1>3. Quiet
  BY <1>1, <1>2, ClearIsQuiet DEF IInv
<1>4. \A p \in used : process'[p] # "none"
  BY <1>1 DEF IInv, PortsOK
<1> QED BY <1>1, <1>3, <1>4, RejectAllKeeps
-----------------------------------------------------------------------------
(* A frame is heard *)

\* The last frame of an answer is one the client understands: the number of
\* chunks of a file that may be read is within what a frame may say.
LEMMA FinalIsValid ==
  ASSUME IInv, NEW m \in Frames, Sent(m), m.id \in Requests, Final(m)
  PROVE  Client!Valid(m)
<1>1. CASE m.type \in {"error", "status"}
  BY <1>1 DEF Client!Valid
<1>2. CASE m.type = "readComplete"
  <2>1. asked[m.id] # None
    BY DEF IInv, RequestOK, HasFrames
  <2>2. PICK v \in 0..MaxEdits : Answered(m.id, v)
    BY <2>1 DEF IInv, RequestOK
  <2> DEFINE f == asked[m.id].file
  <2>3. FrameOf(m.id, v, m)
    BY <2>2 DEF Answered
  <2>4. /\ Size[f][v] <= MaxFileBytes /\ f \in Files
        /\ m.totalBytes = Size[f][v] /\ m.chunkCount = CountOf(f, v)
    BY <1>2, <2>2, <2>3 DEF FrameOf, Answered
  <2> HIDE DEF f
  <2>5. Host!ChunkCount(Size[f][v]) <= Host!ChunkCount(MaxFileBytes)
    BY <2>4, SizeNat, CountGrows, ConstantsAssumption
  <2>6. Client!MaxChunks = Host!ChunkCount(MaxFileBytes)
    BY DEF Client!MaxChunks, Client!Ceiling, Host!ChunkCount
  <2> QED BY <1>2, <2>4, <2>5, <2>6 DEF Client!Valid, CountOf
<1> QED BY <1>1, <1>2 DEF Final

\* applyResponse, case by case.
LEMMA ApplyCases ==
  ASSUME NEW m, NEW id, Client!applyResponse(m, id)
  PROVE  \/ m.type = "error" /\ Client!Settle(id, Client!Failure(m.code))
         \/ m.type = "status" /\ Client!Settle(id, Client!HostInfo)
         \/ m.type = "status" /\ Client!Settle(id, Client!Failure("NATIVE_INVALID_MESSAGE"))
         \/ /\ m.type = "readStart" /\ Client!Startable(m, pending[id])
            /\ pending' = [pending EXCEPT ![id].assembly =
                             [totalBytes |-> m.totalBytes, chunkCount |-> m.chunkCount,
                              chunks |-> << >>]]
            /\ UNCHANGED outcome
         \/ /\ m.type = "readChunk" /\ Client!Acceptable(m, pending[id])
            /\ pending' = [pending EXCEPT ![id].assembly =
                             [pending[id].assembly EXCEPT !.chunks = Append(@, m.data)]]
            /\ UNCHANGED outcome
         \/ /\ m.type = "readComplete" /\ Client!Completable(m, pending[id])
            /\ Client!Settle(id, Client!Read(pending[id].assembly.chunks))
         \/ Client!Settle(id, Client!Failure("NATIVE_CHUNK_SEQUENCE"))
BY DEF Client!applyResponse, Client!Assembly

\* A frame moves the assembly of its request on.
LEMMA ProgressKeeps ==
  ASSUME IInv, Quiet, UNCHANGED <<asked, since, used, port, outcome>>,
         \A p \in used : process'[p] # "none",
         NEW id \in Requests, pending[id] # None, HasFrames(id),
         NEW a \in Assemblies, pending' = [pending EXCEPT ![id].assembly = a],
         NEW v \in 0..MaxEdits, Answered(id, v),
         asked[id].operation = "readFile",
         a.totalBytes = Size[asked[id].file][v], a.chunkCount = CountOf(asked[id].file, v),
         Len(a.chunks) <= a.chunkCount, Begins(asked[id].file, v, a.chunks),
         \A other \in Requests : AheadOK(other)'
  PROVE  IInv'
<1>1. /\ pending \in [Requests -> Entries \cup {None}] /\ pending[id] \in Entries
      /\ pending' = [pending EXCEPT ![id] = [pending[id] EXCEPT !.assembly = a]]
      /\ outcome \in [Requests -> Outcomes \cup {None}]
  BY DEF IInv, ClientTyped
<1> DEFINE e == [pending[id] EXCEPT !.assembly = a]
<1>2. e \in Entries /\ e.assembly = a /\ e.operation = pending[id].operation
  BY <1>1 DEF Entries
<1>3. pending'[id] = e /\ \A other \in Requests \ {id} : pending'[other] = pending[other]
  BY <1>1
<1>4. pending' \in [Requests -> Entries \cup {None}]
  BY <1>1, <1>2
<1>5. pending'[id].assembly = a /\ pending'[id].operation = pending[id].operation
      /\ pending'[id] # None
  BY <1>2, <1>3, ConstantsAssumption
<1> HIDE DEF e
<1>6. asked[id] # None /\ ~Queued(id)
  BY DEF IInv, RequestOK
<1>7. AssemblyOf(id, v)'
  <2>1. pending[id].operation = asked[id].operation
    BY DEF Answered, AssemblyOf
  <2> QED BY <2>1, <1>5 DEF AssemblyOf, Begins, ChunkAt
<1>8. OutcomeOf(id, v)'
  BY DEF Answered, OutcomeOf, Begins, ChunkAt
<1>9. RequestOK(id)'
  BY <1>6, <1>7, <1>8, RequestMoves
<1>10. LostOK(id)'
  BY <1>5 DEF IInv, LostOK
<1>11. \A other \in Requests \ {id} : RequestOK(other)' /\ LostOK(other)'
  BY <1>3, RequestStays
<1> QED BY <1>1, <1>4, <1>9, <1>10, <1>11, ClientKeeps

\* The file is complete: its chunks settle the promise.
LEMMA CompleteKeeps ==
  ASSUME IInv, Quiet, UNCHANGED <<asked, since, used, port>>,
         \A p \in used : process'[p] # "none",
         NEW id \in Requests, pending[id] # None, HasFrames(id),
         pending[id].assembly # None,
         Len(pending[id].assembly.chunks) = pending[id].assembly.chunkCount,
         Client!Settle(id, Client!Read(pending[id].assembly.chunks)),
         \A other \in Requests \ {id} : AheadOK(other)'
  PROVE  IInv'
<1>1. PICK a \in Assemblies : a = pending[id].assembly
  BY DEF IInv, ClientTyped, Entries
<1>2. /\ Client!Read(a.chunks) \in Outcomes /\ Client!Read(a.chunks) # None
      /\ Client!Read(a.chunks).chunks = a.chunks
  <2>1. a.chunks \in Seq(Chunks)
    BY <1>1 DEF Assemblies
  <2>2. Client!Read(a.chunks) \in Outcomes /\ Client!Read(a.chunks).chunks = a.chunks
    BY <2>1 DEF Client!Read, Outcomes, Codes
  <2> QED BY <2>2, OutcomesAreSome
<1>3. /\ pending' = [pending EXCEPT ![id] = None]
      /\ outcome' = [outcome EXCEPT ![id] = IF outcome[id] = None THEN Client!Read(a.chunks)
                                            ELSE outcome[id]]
      /\ pending \in [Requests -> Entries \cup {None}]
      /\ outcome \in [Requests -> Outcomes \cup {None}]
  BY <1>1 DEF Client!Settle, IInv, ClientTyped
<1>4. asked[id] # None /\ ~Queued(id)
  BY DEF IInv, RequestOK
<1>5. PICK v \in 0..MaxEdits : Answered(id, v)
  BY <1>4 DEF IInv, RequestOK
<1>6. /\ asked[id].operation = "readFile"
      /\ Len(a.chunks) = CountOf(asked[id].file, v)
      /\ Begins(asked[id].file, v, a.chunks)
  BY <1>1, <1>5 DEF Answered, AssemblyOf
<1>7. AssemblyOf(id, v)'
  BY <1>3 DEF AssemblyOf
<1>8. OutcomeOf(id, v)'
  <2>1. CASE outcome[id] = None
    <3>1. outcome'[id].chunks = a.chunks
      BY <2>1, <1>2, <1>3
    <3> QED BY <3>1, <1>6 DEF OutcomeOf, Begins, ChunkAt
  <2>2. CASE outcome[id] # None
    <3>1. outcome'[id] = outcome[id]
      BY <2>2, <1>3
    <3> QED BY <3>1, <1>5 DEF Answered, OutcomeOf, Begins, ChunkAt
  <2> QED BY <2>1, <2>2
<1>9. RequestOK(id)'
  BY <1>4, <1>5, <1>7, <1>8, RequestMoves
<1>10. LostOK(id)' /\ AheadOK(id)'
  <2>1. pending'[id] = None /\ outcome'[id] # None
    BY <1>2, <1>3
  <2> QED BY <2>1 DEF LostOK, AheadOK
<1>11. \A other \in Requests \ {id} : RequestOK(other)' /\ LostOK(other)'
  BY <1>3, RequestStays
<1>12. /\ pending' \in [Requests -> Entries \cup {None}]
       /\ outcome' \in [Requests -> Outcomes \cup {None}]
  BY <1>2, <1>3
<1> QED BY <1>9, <1>10, <1>11, <1>12, ClientKeeps

LEMMA HandleMessageKeeps ==
  ASSUME IInv, Client!handleMessage, UNCHANGED <<disk, script, faults, since>>
  PROVE  IInv'
<1>1. /\ port # None /\ fromHost[port] # << >> /\ port \in Ports
      /\ fromHost' = [fromHost EXCEPT ![port] = Tail(fromHost[port])]
      /\ UNCHANGED <<port, used, asked, toHost, process, disk, script, faults, since>>
      /\ fromHost \in [Ports -> Seq(Frames)] /\ fromHost[port] \in Seq(Frames)
  BY DEF Client!handleMessage, IInv, HostTyped, ClientTyped
<1>2. PICK m \in Frames :
         /\ m = Head(fromHost[port])
         /\ In(m, fromHost[port])
         /\ \A n : In(n, fromHost[port]) => n = m \/ In(n, Tail(fromHost[port]))
  BY <1>1, InTail
<1>3. Sent(m) /\ HasFrames(m.id) /\ m.id \in Ids
  BY <1>1, <1>2 DEF Sent, HasFrames, Frames
<1>4. Quiet
  BY <1>1, ClearIsQuiet DEF IInv
<1>5. \A p \in used : process'[p] # "none"
  BY <1>1 DEF IInv, PortsOK
<1>6. fromHost'[port] = Tail(fromHost[port])
  BY <1>1
<1>7. ASSUME NEW id \in Requests,
             m.id = id /\ Final(m) => pending'[id] = None,
             outcome'[id] = outcome[id], pending'[id] = None \/ pending[id] # None
      PROVE  AheadOK(id)'
  <2>1. EndIn(fromHost[port], id) => EndIn(fromHost'[port], id) \/ pending'[id] = None
    BY <1>2, <1>6, <1>7 DEF EndIn
  <2>2. AheadOK(id)
    BY DEF IInv
  <2> QED BY <2>1, <2>2, <1>1, <1>7, AheadStays
<1>8. \/ /\ Client!Valid(m) /\ m.id \in Requests /\ pending[m.id] # None
         /\ Client!applyResponse(m, m.id)
      \/ /\ ~(Client!Valid(m) /\ m.id # NoRequest /\ pending[m.id] # None)
         /\ UNCHANGED <<pending, outcome>>
  BY <1>2, <1>3 DEF Client!handleMessage, Ids
<1>9. CASE /\ ~(Client!Valid(m) /\ m.id # NoRequest /\ pending[m.id] # None)
           /\ UNCHANGED <<pending, outcome>>
  <2>1. ASSUME NEW id \in Requests
        PROVE  RequestOK(id)' /\ LostOK(id)' /\ AheadOK(id)'
    <3>1. RequestOK(id)' /\ LostOK(id)'
      BY <1>1, <1>4, <1>9, RequestStays
    <3>2. m.id = id /\ Final(m) => pending[id] = None
      BY <1>3, <1>9, FinalIsValid, ConstantsAssumption
    <3> QED BY <3>1, <3>2, <1>7, <1>9
  <2>2. /\ pending' \in [Requests -> Entries \cup {None}]
        /\ outcome' \in [Requests -> Outcomes \cup {None}]
    BY <1>9 DEF IInv, ClientTyped
  <2> QED BY <1>1, <1>4, <1>5, <2>1, <2>2, ClientKeeps
<1>10. CASE /\ Client!Valid(m) /\ m.id \in Requests /\ pending[m.id] # None
            /\ Client!applyResponse(m, m.id)
  <2>1. PICK id \in Requests : id = m.id
    BY <1>10
  <2>2. pending[id] # None /\ HasFrames(id) /\ asked[id] # None
    BY <2>1, <1>3, <1>10 DEF IInv, RequestOK
  <2>3. PICK v \in 0..MaxEdits : Answered(id, v)
    BY <2>2 DEF IInv, RequestOK
  <2>4. FrameOf(id, v, m)
    BY <2>1, <2>3, <1>3 DEF Answered
  <2>5. ASSUME NEW value, Client!Settle(id, value), NEW other \in Requests \ {id}
        PROVE  AheadOK(other)'
    <3>1. pending'[other] = pending[other] /\ outcome'[other] = outcome[other]
      BY <2>5 DEF Client!Settle, IInv, ClientTyped
    <3> QED BY <3>1, <2>1, <1>7
  <2>6. ASSUME NEW value \in Outcomes, value.code # "OK", Client!Settle(id, value)
        PROVE  IInv'
    BY <2>2, <2>5, <2>6, <1>1, <1>4, <1>5, SettleKeeps
  <2>7. CASE m.type = "error" /\ Client!Settle(id, Client!Failure(m.code))
    <3>1. m.code \in ErrorCodes
      BY <2>7 DEF Frames
    <3>2. m.code \in Codes /\ m.code # "OK"
      BY <3>1 DEF ErrorCodes, Codes
    <3> QED BY <3>2, <2>6, <2>7, FailureTyped
  <2>8. CASE Client!Settle(id, Client!HostInfo)
    BY <2>6, <2>8, HostInfoTyped
  <2>9. CASE Client!Settle(id, Client!Failure("NATIVE_INVALID_MESSAGE"))
    <3>1. "NATIVE_INVALID_MESSAGE" \in Codes
      BY DEF Codes
    <3> QED BY <3>1, <2>6, <2>9, FailureTyped
  <2>10. CASE Client!Settle(id, Client!Failure("NATIVE_CHUNK_SEQUENCE"))
    <3>1. "NATIVE_CHUNK_SEQUENCE" \in Codes
      BY DEF Codes
    <3> QED BY <3>1, <2>6, <2>10, FailureTyped
  <2>11. ASSUME ~Final(m), UNCHANGED outcome, NEW a,
                pending' = [pending EXCEPT ![id].assembly = a]
         PROVE  \A other \in Requests : AheadOK(other)'
    <3>1. ASSUME NEW other \in Requests
          PROVE  pending'[other] = None \/ pending[other] # None
      BY <2>2, <2>11 DEF IInv, ClientTyped
    <3> QED BY <3>1, <2>11, <1>7
  <2>12. CASE /\ m.type = "readStart" /\ Client!Startable(m, pending[id])
              /\ pending' = [pending EXCEPT ![id].assembly =
                               [totalBytes |-> m.totalBytes, chunkCount |-> m.chunkCount,
                                chunks |-> << >>]]
              /\ UNCHANGED outcome
    <3>1. ~Final(m) /\ m.totalBytes \in Nat /\ m.chunkCount \in Nat
      BY <2>12 DEF Final, Frames
    <3>2. PICK a \in Assemblies :
             /\ a = [totalBytes |-> m.totalBytes, chunkCount |-> m.chunkCount, chunks |-> << >>]
             /\ a.totalBytes = m.totalBytes /\ a.chunkCount = m.chunkCount /\ a.chunks = << >>
      <4> DEFINE r == [totalBytes |-> m.totalBytes, chunkCount |-> m.chunkCount,
                       chunks |-> << >>]
      <4>1. << >> \in Seq(Chunks)
        BY EmptySeq
      <4>2. r \in Assemblies
        BY <3>1, <4>1 DEF Assemblies
      <4>3. r.totalBytes = m.totalBytes /\ r.chunkCount = m.chunkCount /\ r.chunks = << >>
        OBVIOUS
      <4> QED BY <4>2, <4>3
    <3>3. /\ asked[id].operation = "readFile"
          /\ a.totalBytes = Size[asked[id].file][v] /\ a.chunkCount = CountOf(asked[id].file, v)
      BY <2>4, <2>12, <3>2 DEF FrameOf
    <3>4. Len(a.chunks) <= a.chunkCount /\ Begins(asked[id].file, v, a.chunks)
      BY <3>1, <3>2 DEF Begins
    <3>5. pending' = [pending EXCEPT ![id].assembly = a] /\ UNCHANGED outcome
      BY <2>12, <3>2
    <3>6. \A other \in Requests : AheadOK(other)'
      BY <2>11, <3>1, <3>5
    <3> QED BY <2>2, <2>3, <3>3, <3>4, <3>5, <3>6, <1>1, <1>4, <1>5, ProgressKeeps
  <2>13. CASE /\ m.type = "readChunk" /\ Client!Acceptable(m, pending[id])
              /\ pending' = [pending EXCEPT ![id].assembly =
                               [pending[id].assembly EXCEPT !.chunks = Append(@, m.data)]]
              /\ UNCHANGED outcome
    <3>1. ~Final(m) /\ m.index \in Nat /\ m.data \in Chunks
      BY <2>13 DEF Final, Frames
    <3>2. PICK b \in Assemblies : b = pending[id].assembly
      BY <2>2, <2>13 DEF Client!Acceptable, Client!Assembly, IInv, ClientTyped, Entries
    <3>3. /\ m.index = Len(b.chunks) /\ Len(b.chunks) < b.chunkCount /\ b # None
      BY <2>13, <3>2 DEF Client!Acceptable, Client!Assembly
    <3>4. b.chunks \in Seq(Chunks) /\ b.chunkCount \in Nat
      BY DEF Assemblies
    <3>5. /\ Append(b.chunks, m.data) \in Seq(Chunks)
          /\ Len(Append(b.chunks, m.data)) = Len(b.chunks) + 1
          /\ DOMAIN Append(b.chunks, m.data) = 1..(Len(b.chunks) + 1)
          /\ DOMAIN b.chunks = 1..Len(b.chunks) /\ Len(b.chunks) \in Nat
          /\ \A i \in 1..Len(b.chunks) : Append(b.chunks, m.data)[i] = b.chunks[i]
          /\ Append(b.chunks, m.data)[Len(b.chunks) + 1] = m.data
      BY <3>1, <3>4, AppendProperties, LenProperties
    <3>6. PICK a \in Assemblies :
             /\ a = [b EXCEPT !.chunks = Append(@, m.data)]
             /\ a.chunks = Append(b.chunks, m.data)
             /\ a.chunkCount = b.chunkCount /\ a.totalBytes = b.totalBytes
      <4> DEFINE r == [b EXCEPT !.chunks = Append(b.chunks, m.data)]
      <4>1. /\ r \in Assemblies /\ r.chunks = Append(b.chunks, m.data)
            /\ r.chunkCount = b.chunkCount /\ r.totalBytes = b.totalBytes
        BY <3>5 DEF Assemblies
      <4> QED BY <4>1
    <3>7. /\ asked[id].operation = "readFile"
          /\ b.totalBytes = Size[asked[id].file][v] /\ b.chunkCount = CountOf(asked[id].file, v)
          /\ Begins(asked[id].file, v, b.chunks)
      BY <2>2, <2>3, <3>2, <3>3 DEF Answered, AssemblyOf
    <3>8. m.data = ChunkAt(asked[id].file, v, Len(b.chunks))
      BY <2>4, <2>13, <3>3 DEF FrameOf
    <3>9. Begins(asked[id].file, v, a.chunks)
      <4>1. SUFFICES ASSUME NEW i \in 1..(Len(b.chunks) + 1)
                     PROVE  a.chunks[i] = ChunkAt(asked[id].file, v, i - 1)
        BY <3>5, <3>6 DEF Begins
      <4>2. CASE i = Len(b.chunks) + 1
        <5>1. i - 1 = Len(b.chunks)
          BY <4>2, <3>5
        <5> QED BY <5>1, <4>2, <3>5, <3>6, <3>8
      <4>3. CASE i \in 1..Len(b.chunks)
        BY <4>3, <3>5, <3>6, <3>7 DEF Begins
      <4> QED BY <4>1, <4>2, <4>3, <3>5
    <3>10. Len(a.chunks) <= a.chunkCount
      BY <3>3, <3>4, <3>5, <3>6
    <3>11. pending' = [pending EXCEPT ![id].assembly = a] /\ UNCHANGED outcome
      BY <2>13, <3>2, <3>6
    <3>12. \A other \in Requests : AheadOK(other)'
      BY <2>11, <3>1, <3>11
    <3>13. a.totalBytes = Size[asked[id].file][v] /\ a.chunkCount = CountOf(asked[id].file, v)
      BY <3>6, <3>7
    <3> QED BY <2>2, <2>3, <3>7, <3>9, <3>10, <3>11, <3>12, <3>13, <1>1, <1>4, <1>5,
               ProgressKeeps
  <2>14. CASE /\ m.type = "readComplete" /\ Client!Completable(m, pending[id])
              /\ Client!Settle(id, Client!Read(pending[id].assembly.chunks))
    <3>1. /\ pending[id].assembly # None
          /\ Len(pending[id].assembly.chunks) = pending[id].assembly.chunkCount
      BY <2>14 DEF Client!Completable, Client!Assembly
    <3>2. \A other \in Requests \ {id} : AheadOK(other)'
      BY <2>5, <2>14
    <3> QED BY <2>2, <2>14, <3>1, <3>2, <1>1, <1>4, <1>5, CompleteKeeps
  <2> QED BY <2>1, <2>7, <2>8, <2>9, <2>10, <2>12, <2>13, <2>14, <1>10, ApplyCases
<1> QED BY <1>8, <1>9, <1>10
-----------------------------------------------------------------------------
(* A request is made *)

\* It concerns no other request.
LEMMA AskKeepsOthers ==
  ASSUME IInv, UNCHANGED <<disk, fromHost, script>>, NEW id \in Requests,
         asked'[id] = asked[id], since'[id] = since[id],
         pending'[id] = pending[id], outcome'[id] = outcome[id],
         Queued(id)' => Queued(id)
  PROVE  RequestOK(id)' /\ LostOK(id)'
<1>1. RequestOK(id) /\ LostOK(id)
  BY DEF IInv
<1>2. \A m \in Frames : Sent(m)' => Sent(m)
  BY DEF Sent, In
<1>3. HasFrames(id)' => HasFrames(id)
  BY <1>2 DEF HasFrames
<1>4. ASSUME NEW v \in 0..MaxEdits, Answered(id, v)
      PROVE  Answered(id, v)'
  BY <1>2, <1>4 DEF Answered, FrameOf, AssemblyOf, OutcomeOf, Begins, ChunkAt
<1> QED BY <1>1, <1>3, <1>4 DEF RequestOK, LostOK

\* What the new one starts with.
LEMMA AskStarts ==
  ASSUME IInv, UNCHANGED <<disk, fromHost, script>>, NEW id \in Requests, asked[id] = None,
         NEW operation \in Operations, NEW file \in Files \cup {None},
         operation = "readFile" => file \in Files,
         asked'[id] = [operation |-> operation, file |-> file],
         since'[id] \in {since[id], disk},
         pending'[id] # None => pending'[id].operation = operation /\ pending'[id].assembly = None,
         outcome'[id] # None => outcome'[id].code # "OK",
         outcome'[id] = None => pending'[id] # None,
         pending'[id] # None => outcome'[id] = None \/ outcome'[id].code = "POST_FAILED"
  PROVE  RequestOK(id)' /\ LostOK(id)'
<1>1. asked'[id] # None /\ asked'[id].operation = operation /\ asked'[id].file = file
  <2>1. [operation |-> operation, file |-> file] \in Asked
    BY DEF Asked
  <2> QED BY <2>1, ConstantsAssumption
<1>2. ~HasFrames(id)'
  BY DEF IInv, RequestOK, HasFrames, Sent, In
<1>3. PICK v \in 0..MaxEdits : operation = "readFile" => v = disk[file]
  <2>1. CASE operation = "readFile"
    <3>1. disk[file] \in 0..MaxEdits
      BY <2>1 DEF IInv, HostTyped
    <3> QED BY <3>1
  <2>2. CASE operation # "readFile"
    <3>1. 0 \in 0..MaxEdits
      BY ConstantsAssumption
    <3> QED BY <3>1, <2>2
  <2> QED BY <2>1, <2>2
<1>4. operation = "readFile" => since'[id][file] <= v /\ v <= disk'[file]
  <2>1. SUFFICES ASSUME operation = "readFile"
                 PROVE  since'[id][file] <= v /\ v <= disk'[file]
    OBVIOUS
  <2>2. disk[file] \in 0..MaxEdits /\ since[id][file] <= disk[file] /\ v = disk[file]
    BY <2>1, <1>3 DEF IInv, HostTyped, SinceOK
  <2> QED BY <2>2, ConstantsAssumption
<1>5. AssemblyOf(id, v)' /\ OutcomeOf(id, v)'
  BY <1>1 DEF AssemblyOf, OutcomeOf
<1>6. Answered(id, v)'
  BY <1>1, <1>2, <1>4, <1>5 DEF Answered, HasFrames
<1>7. RequestOK(id)'
  BY <1>1, <1>2, <1>6 DEF RequestOK
<1> QED BY <1>7 DEF LostOK

\* What the three ways to ask have in common.
LEMMA AskKeeps ==
  ASSUME IInv, UNCHANGED <<disk, fromHost, script, faults>>, NEW id \in Requests,
         asked[id] = None,
         NEW operation \in Operations, NEW file \in Files \cup {None},
         operation = "readFile" => file \in Files,
         asked' = [asked EXCEPT ![id] = [operation |-> operation, file |-> file]],
         since' = since \/ since' = [since EXCEPT ![id] = disk],
         toHost' \in [Ports -> Seq(Calls)],
         process' \in [Ports -> {"none", "running", "ended"}],
         port' \in Ports \cup {None}, used' \subseteq Ports, PortsOK', QueueOK',
         \A other \in Requests \ {id} : Queued(other)' => Queued(other),
         \/ pending' = pending
         \/ pending' = [pending EXCEPT ![id] = [operation |-> operation, assembly |-> None]],
         NEW value \in Outcomes \cup {None}, value # None => value.code # "OK",
         outcome' = [outcome EXCEPT ![id] = value],
         value = None => pending' # pending,
         pending' # pending => value = None \/ value.code = "POST_FAILED",
         \A other \in Requests : AheadOK(other)'
  PROVE  IInv'
<1>1. /\ asked \in [Requests -> Asked \cup {None}]
      /\ since \in [Requests -> [Files -> 0..MaxEdits]] /\ disk \in [Files -> 0..MaxEdits]
      /\ pending \in [Requests -> Entries \cup {None}]
      /\ outcome \in [Requests -> Outcomes \cup {None}]
      /\ pending[id] = None
  BY DEF IInv, HostTyped, ClientTyped, RequestOK
<1> DEFINE e == [operation |-> operation, assembly |-> None]
           r == [operation |-> operation, file |-> file]
<1>2. /\ e \in Entries /\ e # None /\ e.operation = operation /\ e.assembly = None
      /\ r \in Asked
  <2>1. e \in Entries /\ r \in Asked /\ e.operation = operation /\ e.assembly = None
    BY DEF Entries, Asked
  <2> QED BY <2>1, ConstantsAssumption
<1> HIDE DEF e, r
<1>3. pending' = pending \/ pending' = [pending EXCEPT ![id] = e]
  BY DEF e
<1>4. asked' = [asked EXCEPT ![id] = r]
  BY DEF r
<1>5. ClientTyped'
  <2>1. asked' \in [Requests -> Asked \cup {None}]
    BY <1>1, <1>2, <1>4
  <2>2. pending' \in [Requests -> Entries \cup {None}]
    BY <1>1, <1>2, <1>3
  <2>3. outcome' \in [Requests -> Outcomes \cup {None}]
    BY <1>1
  <2>4. since' \in [Requests -> [Files -> 0..MaxEdits]]
    BY <1>1
  <2> QED BY <2>1, <2>2, <2>3, <2>4 DEF ClientTyped
<1>6. HostTyped'
  BY DEF IInv, HostTyped
<1>7. \A other \in Requests \ {id} :
         RequestOK(other)' /\ LostOK(other)'
  BY <1>1, <1>3, <1>4, AskKeepsOthers
<1>8. RequestOK(id)' /\ LostOK(id)'
  <2>1. asked'[id] = [operation |-> operation, file |-> file]
    BY <1>1, <1>4 DEF r
  <2>2. since'[id] \in {since[id], disk}
    BY <1>1
  <2>3. pending'[id] # None =>
           pending'[id].operation = operation /\ pending'[id].assembly = None
    BY <1>1, <1>2, <1>3
  <2>4. outcome'[id] = value
    BY <1>1
  <2>5. value = None => pending'[id] # None
    BY <1>1, <1>2, <1>3
  <2>6. pending'[id] # None => value = None \/ value.code = "POST_FAILED"
    BY <1>1
  <2> QED BY <2>1, <2>2, <2>3, <2>4, <2>5, <2>6, AskStarts
<1>9. SinceOK'
  <2>1. ASSUME NEW other \in Requests, NEW f \in Files
        PROVE  since'[other][f] <= disk[f]
    <3>1. since'[other] = since[other] \/ since'[other] = disk
      BY <1>1
    <3>2. disk[f] \in 0..MaxEdits /\ since[other][f] <= disk[f]
      BY <1>1 DEF IInv, SinceOK
    <3> QED BY <3>1, <3>2, ConstantsAssumption
  <2> QED BY <2>1 DEF SinceOK
<1> QED BY <1>5, <1>6, <1>7, <1>8, <1>9 DEF IInv

\* request: to the present port, or to a new one, whose process starts then.
LEMMA RequestKeeps ==
  ASSUME IInv, NEW id \in Requests,
         NEW operation \in Operations, NEW file \in Files \cup {None},
         operation = "readFile" => file \in Files,
         Client!request(id, operation, file),
         since' = IF outcome'[id] = None THEN [since EXCEPT ![id] = disk] ELSE since,
         UNCHANGED <<disk, script, faults>>
  PROVE  IInv'
<1>1. /\ asked[id] = None
      /\ asked' = [asked EXCEPT ![id] = [operation |-> operation, file |-> file]]
      /\ pending' = [pending EXCEPT ![id] = [operation |-> operation, assembly |-> None]]
      /\ UNCHANGED <<outcome, fromHost>>
  BY DEF Client!request, Client!NextId
<1>2. PICK p \in Client!PortFor :
          /\ port' = p
          /\ used' = used \cup {p}
          /\ process' = IF p \in used THEN process ELSE [process EXCEPT ![p] = "running"]
          /\ toHost' = IF process'[p] = "running"
                       THEN [toHost EXCEPT ![p] =
                               Append(@, [id |-> id, operation |-> operation, file |-> file])]
                       ELSE toHost
  BY DEF Client!request
<1>3. /\ p \in Ports
      /\ port # None => p = port /\ p \in used
  BY DEF Client!PortFor, IInv, ClientTyped, PortsOK
<1>4. /\ process \in [Ports -> {"none", "running", "ended"}]
      /\ toHost \in [Ports -> Seq(Calls)] /\ used \subseteq Ports
      /\ pending \in [Requests -> Entries \cup {None}]
      /\ outcome \in [Requests -> Outcomes \cup {None}]
      /\ asked \in [Requests -> Asked \cup {None}]
      /\ since \in [Requests -> [Files -> 0..MaxEdits]]
      /\ \A q \in used : process[q] # "none"
  BY DEF IInv, HostTyped, ClientTyped, PortsOK
<1>5. pending[id] = None /\ outcome[id] = None /\ ~Queued(id)
  BY <1>1 DEF IInv, RequestOK
<1>6. since' = [since EXCEPT ![id] = disk]
  BY <1>1, <1>5
<1>7. /\ process' \in [Ports -> {"none", "running", "ended"}]
      /\ process'[p] \in {"running", "ended"}
      /\ p \in used => process' = process
      /\ \A q \in used' : process'[q] # "none"
  BY <1>2, <1>3, <1>4
<1>8. PICK c \in Calls :
         /\ c = [id |-> id, operation |-> operation, file |-> file]
         /\ c.id = id /\ c.operation = operation /\ c.file = file
  <2> DEFINE r == [id |-> id, operation |-> operation, file |-> file]
  <2>1. r \in Calls
    BY DEF Calls
  <2>2. r.id = id /\ r.operation = operation /\ r.file = file
    OBVIOUS
  <2> QED BY <2>1, <2>2
<1>9. /\ asked'[id] = [operation |-> c.operation, file |-> c.file]
      /\ \A other \in Requests \ {id} : asked'[other] = asked[other]
  BY <1>1, <1>4, <1>8
<1>10. /\ QueueOK' /\ toHost' \in [Ports -> Seq(Calls)]
       /\ \A other \in Requests \ {id} : Queued(other)' => Queued(other)
       /\ \/ process'[p] = "ended"
          \/ \E i \in DOMAIN toHost'[p] : toHost'[p][i].id = id
  <2>1. CASE process'[p] = "running"
    <3>1. toHost' = [toHost EXCEPT ![p] = Append(@, c)]
      BY <2>1, <1>2, <1>8
    <3>2. toHost' \in [Ports -> Seq(Calls)]
      BY <3>1, <1>4, AppendProperties
    <3>3. /\ QueueOK'
          /\ \A other \in Requests \ {c.id} : Queued(other)' => Queued(other)
          /\ \E i \in DOMAIN toHost'[p] : toHost'[p][i].id = c.id
      BY <3>1, <1>3, <1>5, <1>8, <1>9, QueueGrows DEF IInv
    <3> QED BY <3>2, <3>3, <1>8
  <2>2. CASE process'[p] # "running"
    <3>1. toHost' = toHost
      BY <2>2, <1>2
    <3>2. QueueOK' /\ \A other \in Requests : Queued(other)' => Queued(other)
      BY <3>1, <1>5, <1>9, QueueKept DEF IInv
    <3> QED BY <2>2, <3>1, <3>2, <1>4, <1>7
  <2> QED BY <2>1, <2>2
<1>11. port' \in Ports \cup {None} /\ used' \subseteq Ports /\ PortsOK'
  BY <1>2, <1>3, <1>4, <1>7 DEF PortsOK
<1>12. AheadOK(id)'
  <2>1. port' = p /\ p # None
    BY <1>2, <1>3, ConstantsAssumption
  <2> QED BY <2>1, <1>10 DEF AheadOK
<1>13. ASSUME NEW other \in Requests \ {id} PROVE AheadOK(other)'
  <2>1. AheadOK(other) /\ pending'[other] = pending[other] /\ asked'[other] = asked[other]
        /\ outcome'[other] = outcome[other]
    BY <1>1, <1>4 DEF IInv
  <2>2. CASE port = None
    BY <2>1, <2>2 DEF AheadOK
  <2>3. CASE port # None
    <3>1. port' = port /\ process' = process /\ port \in Ports
      BY <2>3, <1>2, <1>3, <1>7
    <3>2. ASSUME NEW i \in DOMAIN toHost[port], toHost[port][i].id = other
          PROVE  \E j \in DOMAIN toHost'[port] : toHost'[port][j].id = other
      <4>1. toHost'[port] = toHost[port] \/ toHost'[port] = Append(toHost[port], c)
        BY <3>1, <1>2, <1>4, <1>8
      <4>2. /\ toHost[port] \in Seq(Calls) /\ DOMAIN toHost[port] = 1..Len(toHost[port])
            /\ Len(toHost[port]) \in Nat
            /\ DOMAIN Append(toHost[port], c) = 1..(Len(toHost[port]) + 1)
            /\ \A j \in 1..Len(toHost[port]) : Append(toHost[port], c)[j] = toHost[port][j]
        BY <3>1, <1>4, AppendProperties, LenProperties
      <4>3. i \in DOMAIN toHost'[port] /\ toHost'[port][i] = toHost[port][i]
        BY <4>1, <4>2
      <4> QED BY <4>3, <3>2
    <3> QED BY <2>1, <3>1, <3>2, <1>1, AheadStays
  <2> QED BY <2>2, <2>3
<1>14. pending' # pending /\ outcome' = [outcome EXCEPT ![id] = None]
  <2>1. [operation |-> operation, assembly |-> None] \in Entries
    BY DEF Entries
  <2>2. pending'[id] # None
    BY <2>1, <1>1, <1>4, ConstantsAssumption
  <2> QED BY <2>2, <1>1, <1>4, <1>5
<1>15. \A other \in Requests : AheadOK(other)'
  BY <1>12, <1>13
<1>16. UNCHANGED <<disk, fromHost, script, faults>>
  BY <1>1
<1> QED BY <1>1, <1>6, <1>7, <1>10, <1>11, <1>14, <1>15, <1>16, AskKeeps

\* connect or postMessage throws.
LEMMA ThrowKeeps ==
  ASSUME IInv, NEW id \in Requests,
         NEW operation \in Operations, NEW file \in Files \cup {None},
         operation = "readFile" => file \in Files,
         \/ Client!requestUnconnected(id, operation, file)
         \/ Client!requestUnposted(id, operation, file),
         since' = IF outcome'[id] = None THEN [since EXCEPT ![id] = disk] ELSE since,
         UNCHANGED <<disk, script, faults>>
  PROVE  IInv'
<1>1. /\ asked[id] = None
      /\ asked' = [asked EXCEPT ![id] = [operation |-> operation, file |-> file]]
      /\ UNCHANGED <<port, used, toHost, fromHost, process>>
  BY DEF Client!requestUnconnected, Client!requestUnposted, Client!NextId
<1>2. PICK code \in {"CONNECT_FAILED", "POST_FAILED"} :
         /\ outcome' = [outcome EXCEPT ![id] = Client!Failure(code)]
         /\ \/ pending' = pending
            \/ /\ pending' = [pending EXCEPT ![id] = [operation |-> operation, assembly |-> None]]
               /\ code = "POST_FAILED"
  BY DEF Client!requestUnconnected, Client!requestUnposted
<1>3. PICK value \in Outcomes :
         value = Client!Failure(code) /\ value.code = code /\ value # None
  <2>1. code \in Codes
    BY DEF Codes
  <2> QED BY <2>1, FailureTyped, OutcomesAreSome
<1>4. ~Queued(id)
  BY <1>1 DEF IInv, RequestOK
<1>5. \A other \in Requests \ {id} : asked'[other] = asked[other]
  BY <1>1 DEF IInv, ClientTyped
<1>6. QueueOK' /\ \A other \in Requests : Queued(other)' => Queued(other)
  BY <1>1, <1>4, <1>5, QueueKept DEF IInv
<1>7. ASSUME NEW other \in Requests PROVE AheadOK(other)'
  <2>1. CASE other = id
    <3>1. outcome'[id] # None
      BY <1>2, <1>3 DEF IInv, ClientTyped
    <3> QED BY <2>1, <3>1 DEF AheadOK
  <2>2. CASE other # id
    <3>1. AheadOK(other) /\ pending'[other] = pending[other] /\ asked'[other] = asked[other]
          /\ outcome'[other] = outcome[other]
      BY <2>2, <1>2, <1>5 DEF IInv, ClientTyped
    <3> QED BY <3>1, <1>1, AheadStays
  <2> QED BY <2>1, <2>2
<1>8. /\ toHost' \in [Ports -> Seq(Calls)]
      /\ process' \in [Ports -> {"none", "running", "ended"}]
      /\ port' \in Ports \cup {None} /\ used' \subseteq Ports /\ PortsOK'
  BY <1>1 DEF IInv, HostTyped, ClientTyped, PortsOK
<1>9. since' = since
  <2>1. outcome'[id] # None
    BY <1>2, <1>3 DEF IInv, ClientTyped
  <2> QED BY <2>1
<1>10. /\ UNCHANGED <<disk, fromHost, script, faults>>
       /\ outcome' = [outcome EXCEPT ![id] = value]
       /\ value # None => value.code # "OK"
       /\ value = None => pending' # pending
       /\ pending' # pending => value = None \/ value.code = "POST_FAILED"
       /\ value \in Outcomes \cup {None}
       /\ \/ pending' = pending
          \/ pending' = [pending EXCEPT ![id] = [operation |-> operation, assembly |-> None]]
  BY <1>1, <1>2, <1>3
<1> QED BY <1>1, <1>6, <1>7, <1>8, <1>9, <1>10, AskKeeps

LEMMA AskKeepsAll ==
  ASSUME IInv, NEW id \in Requests, Ask(id)
  PROVE  IInv'
<1>1. PICK operation \in Operations, file \in Files \cup {None} :
         /\ operation = "readFile" => file \in Files
         /\ Client!ask(id, operation, file)
  BY DEF Ask, Operations
<1> QED BY <1>1, RequestKeeps, ThrowKeeps DEF Ask, Client!ask
-----------------------------------------------------------------------------
(* The invariant *)

LEMMA InitInvariant == Init => IInv
<1> SUFFICES ASSUME Init PROVE IInv
  OBVIOUS
<1>1. /\ disk = [f \in Files |-> 0]
      /\ toHost = [p \in Ports |-> << >>] /\ fromHost = [p \in Ports |-> << >>]
      /\ script = [p \in Ports |-> << >>] /\ process = [p \in Ports |-> "none"]
      /\ faults = 0 /\ port = None /\ used = {}
      /\ pending = [id \in Requests |-> None] /\ asked = [id \in Requests |-> None]
      /\ outcome = [id \in Requests |-> None] /\ since = [id \in Requests |-> disk]
  BY DEF Init, Host!Init, Client!Init
<1>2. HostTyped /\ ClientTyped
  BY <1>1, InEmpty, ConstantsAssumption DEF HostTyped, ClientTyped
<1>3. QueueOK /\ PortsOK /\ SinceOK
  BY <1>1 DEF QueueOK, PortsOK, SinceOK
<1>4. ASSUME NEW id \in Requests PROVE RequestOK(id) /\ LostOK(id) /\ AheadOK(id)
  <2>1. ~Queued(id) /\ ~HasFrames(id)
    BY <1>1, InEmpty DEF Queued, HasFrames, Sent
  <2> QED BY <2>1, <1>1 DEF RequestOK, LostOK, AheadOK
<1> QED BY <1>2, <1>3, <1>4 DEF IInv

LEMMA StutterInvariant == IInv /\ UNCHANGED vars => IInv'
<1> SUFFICES ASSUME IInv, UNCHANGED vars PROVE IInv'
  OBVIOUS
<1>1. UNCHANGED <<client, since>>
  BY DEF vars
<1>2. UNCHANGED <<disk, toHost, fromHost, process, script, faults, port, used, pending, asked, outcome>>
  BY DEF vars, host, client
<1>3. Quiet
  BY <1>2, ConstantsAssumption
     DEF IInv, Quiet, QueuesShrink, NoNewFrames, HostTyped, Sent, In
<1>4. \A id \in Requests : AheadOK(id)'
  BY <1>2, AheadStays DEF IInv
<1> QED BY <1>1, <1>2, <1>3, <1>4, HostKeeps DEF IInv, PortsOK

LEMMA HostInvariant == IInv /\ HostStep => IInv'
BY EditKeeps, TakeKeeps, WriteKeeps, FaultKeeps, EndKeeps DEF HostStep, Host!Next

LEMMA NextInvariant == IInv /\ [Next]_vars => IInv'
BY AskKeepsAll, TimeoutKeeps, HandleMessageKeeps, HandleDisconnectKeeps, DisconnectKeeps,
   HostInvariant, StutterInvariant DEF Next, Hear

\* Every behaviour of the client and its processes satisfies the invariant.
THEOREM Invariance == Spec => []IInv
<1>1. Init => IInv
  BY InitInvariant
<1>2. IInv /\ [Next]_vars => IInv'
  BY NextInvariant
<1> QED BY <1>1, <1>2, PTL DEF Spec
-----------------------------------------------------------------------------
(* The properties *)

\* A request that was made is pending until it is settled and no longer.
THEOREM NoRequestIsLost == Spec => []RequestsKept
<1>1. IInv => RequestsKept
  <2> SUFFICES ASSUME IInv PROVE RequestsKept
    OBVIOUS
  <2>1. ASSUME NEW id \in Requests, pending[id] # None, pending[id].assembly # None
        PROVE  Len(pending[id].assembly.chunks) <= pending[id].assembly.chunkCount
    <3>1. asked[id] # None
      BY <2>1 DEF IInv, RequestOK
    <3>2. PICK v \in 0..MaxEdits : Answered(id, v)
      BY <3>1 DEF IInv, RequestOK
    <3> QED BY <2>1, <3>2 DEF Answered, AssemblyOf
  <2>2. TypeOK
    BY <2>1 DEF IInv, HostTyped, ClientTyped, TypeOK
  <2>3. NoLostRequest
    BY DEF IInv, LostOK, NoLostRequest
  <2> QED BY <2>2, <2>3 DEF RequestsKept
<1> QED BY <1>1, Invariance, PTL

\* While no frame was lost, no request waits for its timer alone.
THEOREM TheEndIsAhead == Spec => []AnswerIsAhead
<1>1. IInv => AnswerIsAhead
  <2> SUFFICES ASSUME IInv, faults = 0, NEW id \in Requests,
                      pending[id] # None, outcome[id] = None, asked[id].file \notin TooLongUrls
               PROVE  /\ port # None
                      /\ \/ process[port] = "ended"
                         \/ \E i \in DOMAIN toHost[port] : toHost[port][i].id = id
                         \/ LET frames == fromHost[port] \o script[port] IN
                            \E i \in DOMAIN frames : frames[i].id = id /\ Final(frames[i])
    BY DEF AnswerIsAhead
  <2>1. /\ port # None
        /\ \/ process[port] = "ended"
           \/ \E i \in DOMAIN toHost[port] : toHost[port][i].id = id
           \/ EndIn(fromHost[port], id)
           \/ EndIn(script[port], id)
    BY DEF IInv, AheadOK
  <2>2. fromHost[port] \in Seq(Frames) /\ script[port] \in Seq(Frames)
    BY <2>1 DEF IInv, HostTyped, ClientTyped
  <2>3. ASSUME NEW m \in Frames, In(m, fromHost[port]) \/ In(m, script[port])
        PROVE  In(m, fromHost[port] \o script[port])
    BY <2>2, <2>3, InConcat
  <2> QED BY <2>1, <2>3 DEF EndIn, In
<1> QED BY <1>1, Invariance, PTL
-----------------------------------------------------------------------------
(* NativeMessaging implements FreshSources *)

\* The least version from that one on which has these chunks.
VersionOf(f, from, chunks) ==
    LET matching == {v \in from..MaxEdits : Content(f, v) = chunks}
    IN IF matching = {} THEN MaxEdits + 1
       ELSE CHOOSE v \in matching : \A w \in matching : v <= w

\* A set of numbers has a least one.
LEMMA LeastNat ==
  ASSUME NEW T, T \subseteq Nat, T # {}
  PROVE  \E n \in T : \A k \in T : n <= k
<1> DEFINE R == {ss \in Nat \X Nat : ss[1] < ss[2]}
<1>1. IsWellFoundedOn(R, Nat)
  BY NatLessThanWellFounded DEF OpToRel
<1>2. PICK x \in T : \A y \in T : ~(<<y, x>> \in R)
  BY <1>1, WFMin
<1>3. \A a, b \in Nat : a < b => <<a, b>> \in R
  OBVIOUS
<1> HIDE DEF R
<1>4. \A y \in T : ~(y < x)
  BY <1>2, <1>3
<1> QED BY <1>4

\* All chunks of a version are its content.
LEMMA WholeVersion ==
  ASSUME NEW f \in Files, NEW v \in 0..MaxEdits, NEW chunks \in Seq(Chunks),
         Len(chunks) = CountOf(f, v), Begins(f, v, chunks)
  PROVE  Content(f, v) = chunks
<1>1. DOMAIN chunks = 1..CountOf(f, v) /\ CountOf(f, v) \in Nat
  BY LenProperties, SizeNat
<1>2. ASSUME NEW i \in 1..CountOf(f, v)
      PROVE  chunks[i] = Host!Slice(f, v, (i - 1) * RawChunkBytes,
                                    Host!Lesser(i * RawChunkBytes, Size[f][v]))
  <2>1. chunks[i] = ChunkAt(f, v, i - 1)
    BY <1>1 DEF Begins
  <2>2. (i - 1) + 1 = i
    BY <1>1
  <2> QED BY <2>1, <2>2 DEF ChunkAt
<1>3. chunks = [i \in 1..CountOf(f, v) |-> chunks[i]]
  BY <1>1, LenProperties
<1>4. Content(f, v) = [i \in 1..CountOf(f, v) |-> chunks[i]]
  BY <1>2 DEF Content, CountOf
<1> QED BY <1>3, <1>4

LEMMA VersionFound ==
  ASSUME NEW f \in Files, NEW from \in 0..MaxEdits, NEW v \in from..MaxEdits, NEW chunks,
         Content(f, v) = chunks
  PROVE  /\ VersionOf(f, from, chunks) \in Nat
         /\ from <= VersionOf(f, from, chunks) /\ VersionOf(f, from, chunks) <= v
<1> DEFINE matching == {w \in from..MaxEdits : Content(f, w) = chunks}
<1>1. v \in matching /\ matching \subseteq Nat
  BY ConstantsAssumption
<1>2. \A w \in matching : from <= w
  BY ConstantsAssumption
<1>3. VersionOf(f, from, chunks) = IF matching = {} THEN MaxEdits + 1
                                   ELSE CHOOSE w \in matching : \A u \in matching : w <= u
  BY DEF VersionOf
<1> HIDE DEF matching
<1>4. \E w \in matching : \A u \in matching : w <= u
  BY <1>1, LeastNat
<1>5. /\ VersionOf(f, from, chunks) \in matching
      /\ \A u \in matching : VersionOf(f, from, chunks) <= u
  BY <1>1, <1>3, <1>4
<1> QED BY <1>1, <1>2, <1>5

\* The reads that were answered.
Good ==
    \A id \in Requests : (outcome[id] # None /\ outcome[id].code = "OK") =>
        LET f == asked[id].file IN
        /\ f \in Files
        /\ VersionRead(id) \in Nat
        /\ since[id][f] <= VersionRead(id) /\ VersionRead(id) <= disk[f]

LEMMA VersionReadIs ==
  \A id : VersionRead(id) = VersionOf(asked[id].file, since[id][asked[id].file], outcome[id].chunks)
BY DEF VersionRead, VersionOf

LEMMA VersionReadNext ==
  \A id : VersionRead(id)'
             = VersionOf(asked'[id].file, since'[id][asked'[id].file], outcome'[id].chunks)
BY DEF VersionRead, VersionOf, Content, Host!Slice, Host!ChunkCount, Host!Lesser

LEMMA AnswersAreGood == IInv => Good
<1> SUFFICES ASSUME IInv, NEW id \in Requests, outcome[id] # None, outcome[id].code = "OK"
             PROVE  /\ asked[id].file \in Files
                    /\ VersionRead(id) \in Nat
                    /\ since[id][asked[id].file] <= VersionRead(id)
                    /\ VersionRead(id) <= disk[asked[id].file]
  BY DEF Good
<1>1. asked[id] # None
  BY DEF IInv, RequestOK
<1>2. PICK v \in 0..MaxEdits : Answered(id, v)
  BY <1>1 DEF IInv, RequestOK
<1>3. PICK f \in Files : f = asked[id].file
  BY <1>2 DEF Answered, OutcomeOf
<1>4. /\ since[id][f] <= v /\ v <= disk[f]
      /\ Len(outcome[id].chunks) = CountOf(f, v)
      /\ Begins(f, v, outcome[id].chunks)
  BY <1>2, <1>3 DEF Answered, OutcomeOf
<1>5. /\ outcome[id].chunks \in Seq(Chunks)
      /\ since[id][f] \in 0..MaxEdits /\ disk[f] \in 0..MaxEdits
  BY DEF IInv, ClientTyped, HostTyped, Outcomes
<1>6. Content(f, v) = outcome[id].chunks
  BY <1>4, <1>5, WholeVersion
<1>7. v \in since[id][f]..MaxEdits
  BY <1>4, <1>5
<1>8. /\ VersionRead(id) \in Nat
      /\ since[id][f] <= VersionRead(id) /\ VersionRead(id) <= v
  BY <1>3, <1>5, <1>6, <1>7, VersionFound, VersionReadIs
<1> QED BY <1>3, <1>4, <1>5, <1>8, ConstantsAssumption

LEMMA SameAnswer ==
  ASSUME NEW id \in Requests, outcome'[id] = outcome[id],
         outcome[id] # None => asked'[id] = asked[id] /\ since'[id] = since[id]
  PROVE  AnswerOf(id)' = AnswerOf(id)
<1>1. CASE outcome[id] = None
  BY <1>1 DEF AnswerOf
<1>2. CASE outcome[id] # None
  <2>1. VersionRead(id)' = VersionRead(id)
    BY <1>2, VersionReadIs, VersionReadNext
  <2> QED BY <1>2, <2>1 DEF AnswerOf
<1> QED BY <1>1, <1>2

\* A request that is settled is answered with what the file had since.
LEMMA NewAnswer ==
  ASSUME Good', UNCHANGED <<disk, since>>, NEW id \in Requests, outcome'[id] # None
  PROVE  /\ AnswerOf(id)' # NoAnswer
         /\ AnswerOf(id)' # Refused => Promise!FreshEnough(AnswerOf(id)')
<1>1. CASE outcome'[id].code # "OK"
  <2>1. AnswerOf(id)' = Refused
    BY <1>1 DEF AnswerOf
  <2> QED BY <2>1, ConstantsAssumption
<1>2. CASE outcome'[id].code = "OK"
  <2>1. PICK f \in Files : f = asked'[id].file
    BY <1>2 DEF Good
  <2>2. PICK v \in Nat : v = VersionRead(id)'
    BY <1>2 DEF Good
  <2>3. since[id][f] <= v /\ v <= disk[f]
    BY <1>2, <2>1, <2>2 DEF Good
  <2> DEFINE a == [rule |-> id, src |-> [k \in {"file"} |-> f], content |-> [k \in {"file"} |-> v]]
  <2>4. AnswerOf(id)' = a
    BY <1>2, <2>1, <2>2 DEF AnswerOf
  <2>5. a.rule = id /\ a.src["file"] = f /\ a.content["file"] = v /\ a \in Reads
    BY DEF Reads
  <2> HIDE DEF a
  <2>6. Promise!FreshEnough(a)
    BY <2>3, <2>5 DEF Promise!FreshEnough
  <2> QED BY <2>4, <2>5, <2>6, ConstantsAssumption
<1> QED BY <1>1, <1>2

\* The steps that settle requests.
LEMMA AnswerStep ==
  ASSUME Good', UNCHANGED <<disk, since>>,
         \A id \in Requests : outcome[id] # None =>
            outcome'[id] = outcome[id] /\ asked'[id] = asked[id]
  PROVE  Promise!Next
<1>1. PICK qs \in SUBSET Requests : qs = {id \in Requests : outcome[id] = None /\ outcome'[id] # None}
  OBVIOUS
<1>2. ASSUME NEW id \in qs
      PROVE  /\ AnswerOf(id) = NoAnswer
             /\ AnswerOf(id)' # NoAnswer
             /\ AnswerOf(id)' # Refused => Promise!FreshEnough(AnswerOf(id)')
  <2>1. id \in Requests /\ outcome[id] = None /\ outcome'[id] # None
    BY <1>1
  <2> QED BY <2>1, NewAnswer DEF AnswerOf
<1>3. ASSUME NEW id \in Requests \ qs
      PROVE  AnswerOf(id)' = AnswerOf(id)
  BY <1>1, SameAnswer
<1>4. Promise!Answer(qs)
  BY <1>2, <1>3 DEF Promise!Answer
<1> QED BY <1>4 DEF Promise!Next

LEMMA Refinement ==
  IInv /\ Good' /\ [Next]_vars => [Promise!Next]_(Promise!vars)
<1> SUFFICES ASSUME IInv, Good', [Next]_vars
             PROVE  Promise!Next \/ UNCHANGED Promise!vars
  OBVIOUS
<1>1. /\ asked \in [Requests -> Asked \cup {None}]
      /\ outcome \in [Requests -> Outcomes \cup {None}]
      /\ since \in [Requests -> [Files -> 0..MaxEdits]]
      /\ \A id \in Requests : asked[id] = None => outcome[id] = None
  BY DEF IInv, ClientTyped, RequestOK
<1>2. ASSUME NEW id \in Requests, Ask(id)
      PROVE  Promise!Next
  <2>1. PICK operation \in Operations, file \in Files \cup {None} : Client!ask(id, operation, file)
    BY <1>2 DEF Ask, Operations
  <2>2. /\ asked[id] = None /\ outcome[id] = None
        /\ asked' = [asked EXCEPT ![id] = [operation |-> operation, file |-> file]]
        /\ UNCHANGED disk
    BY <2>1, <1>1, <1>2
       DEF Ask, Client!ask, Client!request, Client!requestUnconnected, Client!requestUnposted,
           Client!NextId
  <2>3. outcome' = outcome \/ outcome' = [outcome EXCEPT ![id] = outcome'[id]]
    BY <2>1, <1>1
       DEF Client!ask, Client!request, Client!requestUnconnected, Client!requestUnposted
  <2>4. CASE outcome'[id] = None
    <3>1. since' = [since EXCEPT ![id] = disk]
      BY <2>4, <1>2 DEF Ask
    <3>2. ASSUME NEW other \in Requests PROVE AnswerOf(other)' = AnswerOf(other)
      <4>1. outcome'[other] = outcome[other]
        BY <2>2, <2>3, <2>4, <1>1
      <4>2. outcome[other] # None => asked'[other] = asked[other] /\ since'[other] = since[other]
        BY <2>2, <3>1, <1>1
      <4> QED BY <4>1, <4>2, SameAnswer
    <3>3. since' = [r \in Requests |-> IF r \in {id} THEN disk ELSE since[r]]
      BY <3>1, <1>1
    <3>4. Promise!Invalidate({id})
      BY <2>2, <3>2, <3>3 DEF Promise!Invalidate
    <3> QED BY <3>4 DEF Promise!Next
  <2>5. CASE outcome'[id] # None
    <3>1. since' = since
      BY <2>5, <1>2 DEF Ask
    <3>2. \A other \in Requests : outcome[other] # None =>
             outcome'[other] = outcome[other] /\ asked'[other] = asked[other]
      BY <2>2, <2>3, <1>1
    <3> QED BY <2>2, <3>1, <3>2, AnswerStep
  <2> QED BY <2>4, <2>5
<1>3. ASSUME NEW id \in Requests, NEW value, Client!Settle(id, value), UNCHANGED <<disk, since, asked>>
      PROVE  Promise!Next
  <2>1. \A other \in Requests : outcome[other] # None => outcome'[other] = outcome[other]
    BY <1>1, <1>3 DEF Client!Settle
  <2> QED BY <2>1, <1>3, AnswerStep
<1>4. ASSUME Client!RejectAll, UNCHANGED <<disk, since, asked>>
      PROVE  Promise!Next
  <2>1. \A other \in Requests : outcome[other] # None => outcome'[other] = outcome[other]
    BY <1>4 DEF Client!RejectAll
  <2> QED BY <2>1, <1>4, AnswerStep
<1>5. ASSUME UNCHANGED <<disk, since, asked, outcome>>
      PROVE  Promise!Next
  BY <1>5, AnswerStep
<1>6. ASSUME NEW id \in Requests, Timeout(id)
      PROVE  Promise!Next
  BY <1>3, <1>6 DEF Timeout, Client!Timeout
<1>7. ASSUME Client!handleMessage, UNCHANGED <<disk, since>>
      PROVE  Promise!Next
  <2>1. UNCHANGED asked
    BY <1>7 DEF Client!handleMessage
  <2>2. CASE UNCHANGED outcome
    BY <2>1, <2>2, <1>5, <1>7
  <2>3. CASE ~UNCHANGED outcome
    <3>1. PICK m \in Frames : m = Head(fromHost[port])
      <4>1. port # None /\ fromHost[port] # << >>
        BY <1>7 DEF Client!handleMessage
      <4>2. fromHost[port] \in Seq(Frames)
        BY <4>1 DEF IInv, HostTyped, ClientTyped
      <4> QED BY <4>1, <4>2, HeadTailProperties
    <3>2. m.id \in Requests /\ Client!applyResponse(m, m.id)
      <4>1. m.id \in Ids
        BY DEF Frames
      <4> QED BY <4>1, <1>7, <2>3, <3>1 DEF Client!handleMessage, Ids
    <3>3. \E value : Client!Settle(m.id, value)
      BY <2>3, <3>2, ApplyCases
    <3> QED BY <2>1, <3>2, <3>3, <1>3, <1>7
  <2> QED BY <2>2, <2>3
<1>8. ASSUME Client!handleDisconnect, UNCHANGED <<disk, since>>
      PROVE  Promise!Next
  BY <1>4, <1>8 DEF Client!handleDisconnect
<1>9. ASSUME Disconnect
      PROVE  Promise!Next
  BY <1>4, <1>9 DEF Disconnect, Client!disconnect
<1>10. ASSUME HostStep
       PROVE  Promise!Next
  <2>1. UNCHANGED <<asked, outcome, since>>
    BY <1>10 DEF HostStep, client
  <2>2. ASSUME NEW f \in Files, Host!Edit(f)
        PROVE  Promise!Next
    <3>1. \A id \in Requests : AnswerOf(id)' = AnswerOf(id)
      BY <2>1, SameAnswer
    <3>2. Promise!Edit(f)
      BY <2>1, <2>2, <3>1 DEF Host!Edit, Promise!Edit
    <3> QED BY <3>2 DEF Promise!Next
  <2>3. CASE UNCHANGED disk
    BY <2>1, <2>3, <1>5
  <2> QED BY <2>2, <2>3, <1>10
          DEF HostStep, Host!Next, Host!Take, Host!WriteFrame, Host!LoseFrame, Host!ChangeFrame,
              Host!RepeatFrame, Host!End
<1>11. CASE UNCHANGED vars
  BY <1>5, <1>11 DEF vars, host, client
<1> QED BY <1>2, <1>6, <1>7, <1>8, <1>9, <1>10, <1>11 DEF Next, Hear

\* Every read is answered with the whole of one version its file had since the
\* request, or fails, for any interleaving of the processes and ports.
THEOREM Implements == Spec => ReadsAreWhole
<1>1. Init => Promise!Init
  BY DEF Init, Host!Init, Client!Init, Promise!Init, AnswerOf
<1>2. IInv => Good
  BY AnswersAreGood
<1>3. IInv /\ Good' /\ [Next]_vars => [Promise!Next]_(Promise!vars)
  BY Refinement
<1> QED BY <1>1, <1>2, <1>3, Invariance, PTL DEF Spec, ReadsAreWhole, Promise!Spec
=============================================================================
