--------------------------- MODULE NativeHostClient ---------------------------
(***************************************************************************)
(* The extension's side of the native messaging port: class                *)
(* NativeHostClient of background/native-host-client.ts and ChunkAssembly  *)
(* of common/native-host-protocol.ts.  Many requests may be pending on one *)
(* port; each is settled by its response, its timer, or the end of the     *)
(* port, whichever comes first.                                            *)
(***************************************************************************)
EXTENDS Integers, Sequences

CONSTANTS
    Requests,        \* requestIds, 1..n in the order requestCounter gives them
    Ports, Files,
    RawChunkBytes, MaxFileBytes,
    NoRequest, None

VARIABLES
    port,       \* the connected port or None
    used,       \* ports connected so far
    pending,    \* [Requests -> entry of the pending map or None]
    asked,      \* [Requests -> operation and file, or None]
    outcome,    \* [Requests -> None, or what the promise was settled with]
    toHost, fromHost, process    \* shared with the processes

client == <<port, used, pending, asked, outcome>>

Ceiling(a, b) == (a + b - 1) \div b

Failure(code) == [code |-> code, chunks |-> << >>]
HostInfo == [code |-> "STATUS", chunks |-> << >>]
Read(chunks) == [code |-> "OK", chunks |-> chunks]

\* rejectPending, resolvePending: the promise keeps the first outcome.
Settle(id, value) ==
    /\ pending' = [pending EXCEPT ![id] = None]
    /\ outcome' = [outcome EXCEPT ![id] = IF @ = None THEN value ELSE @]

\* Mutant: the entries are dropped without rejecting their promises.
RejectAllForgetting ==
    /\ pending' = [id \in Requests |-> None]
    /\ UNCHANGED outcome

\* rejectAllPending
RejectAll ==
    /\ pending' = [id \in Requests |-> None]
    /\ outcome' = [id \in Requests |->
                     IF pending[id] # None /\ outcome[id] = None
                     THEN Failure("NATIVE_DISCONNECTED") ELSE outcome[id]]

Init ==
    /\ port = None
    /\ used = {}
    /\ pending = [id \in Requests |-> None]
    /\ asked = [id \in Requests |-> None]
    /\ outcome = [id \in Requests |-> None]

NextId(id) == asked[id] = None /\ \A older \in Requests : older < id => asked[older] # None

\* The port a request uses: the present one or a new one.
PortFor == IF port # None THEN {port}
           ELSE {p \in Ports \ used : \A q \in Ports \ used : p <= q}

\* request: the entry is registered, its timer started, the message posted.
request(id, operation, file) ==
    /\ NextId(id)
    /\ asked' = [asked EXCEPT ![id] = [operation |-> operation, file |-> file]]
    /\ \E p \in PortFor :
          /\ port' = p
          /\ used' = used \cup {p}
          /\ process' = IF p \in used THEN process ELSE [process EXCEPT ![p] = "running"]
          /\ toHost' = IF process'[p] = "running"
                       THEN [toHost EXCEPT ![p] =
                               Append(@, [id |-> id, operation |-> operation, file |-> file])]
                       ELSE toHost
    /\ pending' = [pending EXCEPT ![id] = [operation |-> operation, assembly |-> None]]
    /\ UNCHANGED <<outcome, fromHost>>

\* connect throws: the request fails at once and registers nothing.
requestUnconnected(id, operation, file) ==
    /\ NextId(id)
    /\ port = None
    /\ asked' = [asked EXCEPT ![id] = [operation |-> operation, file |-> file]]
    /\ outcome' = [outcome EXCEPT ![id] = Failure("CONNECT_FAILED")]
    /\ UNCHANGED <<port, used, pending, toHost, fromHost, process>>

\* postMessage throws: the promise is rejected, the entry stays for its timer.
requestUnposted(id, operation, file) ==
    /\ NextId(id)
    /\ port # None
    /\ asked' = [asked EXCEPT ![id] = [operation |-> operation, file |-> file]]
    /\ pending' = [pending EXCEPT ![id] = [operation |-> operation, assembly |-> None]]
    /\ outcome' = [outcome EXCEPT ![id] = Failure("POST_FAILED")]
    /\ UNCHANGED <<port, used, toHost, fromHost, process>>

Timeout(id) ==
    /\ pending[id] # None
    /\ Settle(id, Failure("NATIVE_TIMEOUT"))
    /\ UNCHANGED <<port, used, asked, toHost, fromHost, process>>
-----------------------------------------------------------------------------
(* Responses *)

Bytes(chunk) == chunk.to - chunk.from

MaxChunks == Ceiling(MaxFileBytes, RawChunkBytes)

\* parseNativeResponse accepts: its fields are known and its numbers bounded.
Valid(m) ==
    \/ m.type \in {"error", "status"}
    \/ /\ m.type \in {"readStart", "readComplete"}
       /\ m.totalBytes <= MaxFileBytes
       /\ m.chunkCount <= MaxChunks
    \/ m.type = "readChunk" /\ m.index < MaxChunks

Assembly(entry) == entry.assembly

\* ChunkAssembly.start accepts
Startable(m, entry) ==
    /\ entry.operation = "readFile"
    /\ Assembly(entry) = None
    /\ m.totalBytes <= MaxFileBytes
    /\ m.chunkCount = Ceiling(m.totalBytes, RawChunkBytes)

\* ChunkAssembly.acceptChunk accepts
Acceptable(m, entry) ==
    /\ Assembly(entry) # None
    /\ m.index = Len(Assembly(entry).chunks)
    /\ Len(Assembly(entry).chunks) < Assembly(entry).chunkCount
    /\ Bytes(m.data) <= RawChunkBytes

TotalBytes(chunks) ==
    LET sum[i \in 0..Len(chunks)] == IF i = 0 THEN 0 ELSE sum[i - 1] + Bytes(chunks[i])
    IN sum[Len(chunks)]

\* ChunkAssembly.complete accepts
Completable(m, entry) ==
    /\ Assembly(entry) # None
    /\ m.totalBytes = Assembly(entry).totalBytes
    /\ m.chunkCount = Assembly(entry).chunkCount
    /\ Len(Assembly(entry).chunks) = m.chunkCount
    /\ TotalBytes(Assembly(entry).chunks) = m.totalBytes

\* applyResponse, on the entry the response is for.
applyResponse(m, id) ==
    LET entry == pending[id]
        progress(assembly) ==
            /\ pending' = [pending EXCEPT ![id].assembly = assembly]
            /\ UNCHANGED outcome
    IN CASE m.type = "error" -> Settle(id, Failure(m.code))
         [] m.type = "status" ->
              Settle(id, IF entry.operation = "ping" THEN HostInfo
                         ELSE Failure("NATIVE_INVALID_MESSAGE"))
         [] m.type = "readStart" /\ Startable(m, entry) ->
              progress([totalBytes |-> m.totalBytes, chunkCount |-> m.chunkCount,
                        chunks |-> << >>])
         [] m.type = "readChunk" /\ Acceptable(m, entry) ->
              progress([Assembly(entry) EXCEPT !.chunks = Append(@, m.data)])
         [] m.type = "readComplete" /\ Completable(m, entry) ->
              Settle(id, Read(Assembly(entry).chunks))
         [] OTHER -> Settle(id, Failure("NATIVE_CHUNK_SEQUENCE"))

\* Mutant: a frame is taken for the oldest pending request.
handleMessageInOrder ==
    /\ port # None
    /\ fromHost[port] # << >>
    /\ LET m == Head(fromHost[port])
           open == {id \in Requests : pending[id] # None} IN
       IF Valid(m) /\ m.id # NoRequest /\ open # {}
       THEN applyResponse(m, CHOOSE id \in open : \A other \in open : id <= other)
       ELSE UNCHANGED <<pending, outcome>>
    /\ fromHost' = [fromHost EXCEPT ![port] = Tail(@)]
    /\ UNCHANGED <<port, used, asked, toHost, process>>

\* handleMessage: a frame that is not valid or for no pending request is ignored.
handleMessage ==
    /\ port # None
    /\ fromHost[port] # << >>
    /\ LET m == Head(fromHost[port]) IN
       IF Valid(m) /\ m.id # NoRequest /\ pending[m.id] # None
       THEN applyResponse(m, m.id)
       ELSE UNCHANGED <<pending, outcome>>
    /\ fromHost' = [fromHost EXCEPT ![port] = Tail(@)]
    /\ UNCHANGED <<port, used, asked, toHost, process>>
-----------------------------------------------------------------------------
(* The end of a port *)

\* Mutant: the end of the port only forgets it.
handleDisconnectSilently ==
    /\ port # None
    /\ process[port] = "ended"
    /\ port' = None
    /\ fromHost' = [fromHost EXCEPT ![port] = << >>]
    /\ UNCHANGED <<used, asked, pending, outcome, toHost, process>>

\* handleDisconnect: the listener of an old port is detached, so only the
\* present one is heard.  Frames not delivered yet are gone.
handleDisconnect ==
    /\ port # None
    /\ process[port] = "ended"
    /\ RejectAll
    /\ port' = None
    /\ fromHost' = [fromHost EXCEPT ![port] = << >>]
    /\ UNCHANGED <<used, asked, toHost, process>>

\* disconnect: detached first, so that no late frame nor event is heard;
\* the process reads end of file.
disconnect ==
    /\ port # None
    /\ RejectAll
    /\ port' = None
    /\ fromHost' = [fromHost EXCEPT ![port] = << >>]
    /\ toHost' = [toHost EXCEPT ![port] = << >>]
    /\ process' = [process EXCEPT ![port] = "ended"]
    /\ UNCHANGED <<used, asked>>

ask(id, operation, file) ==
    \/ request(id, operation, file)
    \/ requestUnconnected(id, operation, file)
    \/ requestUnposted(id, operation, file)
=============================================================================
