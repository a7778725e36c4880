------------------------------ MODULE NativeHost ------------------------------
(***************************************************************************)
(* The external native host (native-host/internal/protocol, source): one   *)
(* Go process per port of the extension, which takes requests off its      *)
(* standard input one by one and writes the frames of each answer to its   *)
(* standard output before it takes the next.  A file is read whole when    *)
(* its request is taken, and goes out as ReadStart, ReadChunk...,          *)
(* ReadComplete.  The process ends when its input is closed, or crashes.   *)
(*                                                                         *)
(* A frame may be lost, changed or repeated, MaxFaults times: the protocol is  *)
(* meant to notice it.                                                     *)
(***************************************************************************)
EXTENDS Integers, Sequences

CONSTANTS
    Files,           \* files the extension asks for
    Size,            \* [Files -> [versions -> bytes]]
    TooLongUrls,     \* files whose request does not fit in MaxRequestBytes
    RawChunkBytes, MaxFileBytes,
    Ports,           \* connections, each with a process of its own
    NoRequest,       \* the null request id of an error frame
    MaxEdits, MaxFaults    \* bounds of the model

VARIABLES
    disk,       \* version of each file now
    toHost,     \* [Ports -> requests in the process's input]
    fromHost,   \* [Ports -> frames in its output]
    process,    \* "none", "running", "ended"
    script,     \* frames of the present answer not written yet
    faults

ChunkCount(bytes) == (bytes + RawChunkBytes - 1) \div RawChunkBytes

Lesser(a, b) == IF a < b THEN a ELSE b

\* The bytes from..to of one version of a file.
Slice(f, v, from, to) == [file |-> f, version |-> v, from |-> from, to |-> to]

ErrorFrame(id, code) == [type |-> "error", id |-> id, code |-> code]

\* handleReadFile
FileFrames(id, f, v) ==
    LET bytes == Size[f][v]
        count == ChunkCount(bytes)
        chunk(i) == [type |-> "readChunk", id |-> id, index |-> i,
                     data |-> Slice(f, v, i * RawChunkBytes,
                                    Lesser((i + 1) * RawChunkBytes, bytes))]
    IN << [type |-> "readStart", id |-> id, totalBytes |-> bytes, chunkCount |-> count] >>
       \o [i \in 1..count |-> chunk(i - 1)]
       \o << [type |-> "readComplete", id |-> id, totalBytes |-> bytes, chunkCount |-> count] >>

\* Reader.Read: what reading a file may yield, an error or its present version.
Readable(f) ==
    {"READ_FAILED"} \cup
    {IF Size[f][disk[f]] > MaxFileBytes THEN "FILE_TOO_LARGE" ELSE "OK"}

\* The installed program may be of another release than the extension, with
\* another protocol.
Unsupported(request) == {<< ErrorFrame(request.id, "UNSUPPORTED_PROTOCOL") >>}

\* handle: what the process will write for a request taken now.
Answers(request) ==
    IF request.operation = "ping"
    THEN Unsupported(request) \cup {<< [type |-> "status", id |-> request.id] >>}
    ELSE IF request.file \in TooLongUrls THEN {<< ErrorFrame(NoRequest, "MESSAGE_TOO_LARGE") >>}
    ELSE Unsupported(request) \cup
         {IF code = "OK" THEN FileFrames(request.id, request.file, disk[request.file])
                         ELSE << ErrorFrame(request.id, code) >> :
             code \in Readable(request.file)}

Init ==
    /\ disk = [f \in Files |-> 0]
    /\ toHost = [p \in Ports |-> << >>]
    /\ fromHost = [p \in Ports |-> << >>]
    /\ process = [p \in Ports |-> "none"]
    /\ script = [p \in Ports |-> << >>]
    /\ faults = 0

\* The file is saved by the user's editor; one never read does not matter.
Edit(f) ==
    /\ disk[f] < MaxEdits
    /\ disk' = [disk EXCEPT ![f] = @ + 1]
    /\ UNCHANGED <<toHost, fromHost, process, script, faults>>

\* Serve, handle: the next request.
Take(p) ==
    /\ process[p] = "running"
    /\ script[p] = << >>
    /\ toHost[p] # << >>
    /\ \E answer \in Answers(Head(toHost[p])) : script' = [script EXCEPT ![p] = answer]
    /\ toHost' = [toHost EXCEPT ![p] = Tail(@)]
    /\ UNCHANGED <<disk, fromHost, process, faults>>

\* WriteFrame
WriteFrame(p) ==
    /\ process[p] = "running"
    /\ script[p] # << >>
    /\ fromHost' = [fromHost EXCEPT ![p] = Append(@, Head(script[p]))]
    /\ script' = [script EXCEPT ![p] = Tail(@)]
    /\ UNCHANGED <<disk, toHost, process, faults>>

LoseFrame(p) ==
    /\ process[p] = "running"
    /\ faults < MaxFaults
    /\ faults' = faults + 1
    /\ script[p] # << >>
    /\ script' = [script EXCEPT ![p] = Tail(@)]
    /\ UNCHANGED <<disk, toHost, fromHost, process>>

\* The frame of another release: its fields are not those the extension knows.
ChangeFrame(p) ==
    /\ process[p] = "running"
    /\ faults < MaxFaults
    /\ faults' = faults + 1
    /\ script[p] # << >>
    /\ fromHost' = [fromHost EXCEPT ![p] =
                      Append(@, [type |-> "unknown", id |-> Head(script[p]).id])]
    /\ script' = [script EXCEPT ![p] = Tail(@)]
    /\ UNCHANGED <<disk, toHost, process>>

RepeatFrame(p) ==
    /\ process[p] = "running"
    /\ faults < MaxFaults
    /\ faults' = faults + 1
    /\ script[p] # << >>
    /\ fromHost' = [fromHost EXCEPT ![p] = Append(@, Head(script[p]))]
    /\ UNCHANGED <<disk, toHost, process, script>>

\* The process crashes, is killed, or reads end of file.
End(p) ==
    /\ process[p] = "running"
    /\ process' = [process EXCEPT ![p] = "ended"]
    /\ toHost' = [toHost EXCEPT ![p] = << >>]
    /\ script' = [script EXCEPT ![p] = << >>]
    /\ UNCHANGED <<disk, fromHost, faults>>

Next ==
    \/ \E f \in Files \ TooLongUrls : Edit(f)
    \/ \E p \in Ports : Take(p) \/ WriteFrame(p) \/ LoseFrame(p) \/ ChangeFrame(p) \/ RepeatFrame(p) \/ End(p)
=============================================================================
