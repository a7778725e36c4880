--------------------------- MODULE NativeMessaging ---------------------------
(***************************************************************************)
(* The native host client of the extension and the processes at the other  *)
(* end of its ports, together: what a caller of readFile is answered while *)
(* files are edited, requests time out, processes end and ports are        *)
(* replaced.                                                               *)
(***************************************************************************)
EXTENDS Integers, Sequences, FiniteSets

CONSTANTS
    Files, Size, TooLongUrls, RawChunkBytes, MaxFileBytes,
    Requests, Ports, NoRequest, None,
    Refused, NoAnswer,          \* for FreshSources
    MaxEdits, MaxFaults         \* bounds of the model

VARIABLES
    disk, toHost, fromHost, process, script, faults,
    port, used, pending, asked, outcome,
    since          \* history: versions of the files when each request was posted

host == <<disk, toHost, fromHost, process, script, faults>>
client == <<port, used, pending, asked, outcome>>
vars == <<host, client, since>>

Host == INSTANCE NativeHost
Client == INSTANCE NativeHostClient

Operations == {"ping", "readFile"}
Chunks == [file : Files, version : 0..MaxEdits, from : Nat, to : Nat]
Codes == {"OK", "STATUS", "CONNECT_FAILED", "POST_FAILED", "NATIVE_TIMEOUT",
          "NATIVE_DISCONNECTED", "NATIVE_INVALID_MESSAGE", "NATIVE_CHUNK_SEQUENCE",
          "UNSUPPORTED_PROTOCOL", "MESSAGE_TOO_LARGE", "READ_FAILED", "FILE_TOO_LARGE"}
Outcomes == [code : Codes, chunks : Seq(Chunks)]
Assemblies == [totalBytes : Nat, chunkCount : Nat, chunks : Seq(Chunks)]
Entries == [operation : Operations, assembly : Assemblies \cup {None}]
Asked == [operation : Operations, file : Files \cup {None}]
Reads == [rule : Requests, src : [{"file"} -> Files], content : [{"file"} -> Nat]]

ASSUME ConstantsAssumption ==
    /\ RawChunkBytes \in Nat \ {0}
    /\ MaxFileBytes \in Nat
    /\ MaxEdits \in Nat
    /\ MaxFaults \in Nat
    /\ Requests \subseteq Nat \ {NoRequest}
    /\ Ports \subseteq Nat
    /\ TooLongUrls \subseteq Files
    /\ Size \in [Files -> [0..MaxEdits -> Nat]]
    /\ None \notin Requests \cup Ports \cup Files \cup Outcomes \cup Assemblies \cup Entries \cup Asked
    /\ NoAnswer \notin Reads \cup {Refused}

TypeOK ==
    /\ disk \in [Files -> 0..MaxEdits]
    /\ process \in [Ports -> {"none", "running", "ended"}]
    /\ port \in Ports \cup {None}
    /\ used \subseteq Ports
    /\ pending \in [Requests -> Entries \cup {None}]
    /\ asked \in [Requests -> Asked \cup {None}]
    /\ outcome \in [Requests -> Outcomes \cup {None}]
    /\ since \in [Requests -> [Files -> 0..MaxEdits]]
    /\ \A id \in Requests : pending[id] # None => \/ pending[id].assembly = None
                                                 \/ Len(pending[id].assembly.chunks)
                                                       <= pending[id].assembly.chunkCount

Init ==
    /\ Host!Init
    /\ Client!Init
    /\ since = [id \in Requests |-> disk]

\* One of the calls of the client's methods.
Ask(id) ==
    /\ \/ Client!ask(id, "ping", None)
       \/ \E file \in Files : Client!ask(id, "readFile", file)
    /\ since' = IF outcome'[id] = None THEN [since EXCEPT ![id] = disk] ELSE since
    /\ UNCHANGED <<disk, script, faults>>

Hear ==
    /\ Client!handleMessage \/ Client!handleDisconnect
    /\ UNCHANGED <<disk, script, faults, since>>

Disconnect ==
    /\ Client!disconnect
    /\ UNCHANGED <<disk, script, faults, since>>

Timeout(id) ==
    /\ Client!Timeout(id)
    /\ UNCHANGED <<disk, script, faults, since>>

HostStep == Host!Next /\ UNCHANGED <<client, since>>

Next ==
    \/ \E id \in Requests : Ask(id) \/ Timeout(id)
    \/ Hear \/ Disconnect \/ HostStep

Spec == Init /\ [][Next]_vars
-----------------------------------------------------------------------------
(* Properties *)

\* No promise is lost: a request that was made and is not settled is in the
\* pending map (so that its timer can settle it), and a settled one is not,
\* unless its message could not be posted.
NoLostRequest ==
    \A id \in Requests : asked[id] # None =>
        /\ outcome[id] = None => pending[id] # None
        /\ pending[id] # None => outcome[id] = None \/ outcome[id].code = "POST_FAILED"

\* ... with the types of the variables, the order of the chunks among them.
RequestsKept == TypeOK /\ NoLostRequest

\* The chunks of one version of a file.
Content(f, v) == [i \in 1..Host!ChunkCount(Size[f][v]) |->
                  Host!Slice(f, v, (i - 1) * RawChunkBytes,
                             Host!Lesser(i * RawChunkBytes, Size[f][v]))]

\* What a caller sees of its read: the version whose bytes it got.  Bytes that
\* are no version since the request count as one that does not exist yet.
VersionRead(id) ==
    LET f == asked[id].file
        matching == {v \in since[id][f]..MaxEdits : Content(f, v) = outcome[id].chunks}
    IN IF matching = {} THEN MaxEdits + 1
       ELSE CHOOSE v \in matching : \A w \in matching : v <= w

AnswerOf(id) ==
    IF outcome[id] = None THEN NoAnswer
    ELSE IF outcome[id].code = "OK"
         THEN [rule |-> id, src |-> [k \in {"file"} |-> asked[id].file],
               content |-> [k \in {"file"} |-> VersionRead(id)]]
         ELSE Refused

Promise ==
    INSTANCE FreshSources WITH
        Rules <- Requests, Paths <- Files, Kinds <- {"file"},
        answers <- [id \in Requests |-> AnswerOf(id)]

\* A read is answered with the whole of one version of its own file, that was
\* on disk between the request and the answer, or fails: whatever frames other
\* requests, older ports or a faulty host interleave.
ReadsAreWhole == Promise!Spec

Final(frame) == frame.type \in {"status", "error", "readComplete"}

\* The timer is needed only for a host that hangs or cannot tell whom it
\* answers: while no frame was lost, a pending request has its end ahead, in
\* the input of the process, among the frames to come, or with the end of the
\* port.  No request waits for a port that was replaced or whose end was heard.
AnswerIsAhead ==
    faults = 0 =>
        \A id \in Requests :
            (pending[id] # None /\ outcome[id] = None /\ asked[id].file \notin TooLongUrls) =>
                /\ port # None
                /\ \/ process[port] = "ended"
                   \/ \E i \in DOMAIN toHost[port] : toHost[port][i].id = id
                   \/ LET frames == fromHost[port] \o script[port] IN
                      \E i \in DOMAIN frames : frames[i].id = id /\ Final(frames[i])
=============================================================================
