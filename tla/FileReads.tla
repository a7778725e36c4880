----------------------------- MODULE FileReads -----------------------------
(***************************************************************************)
(* What a reader of local files promises its caller while the files are    *)
(* edited, with nothing of how it reads: one content that was in the file  *)
(* at some moment of the read, or an error.  Two errors are promises too:  *)
(* FILE_NOT_FOUND is answered only if the file was missing meanwhile, and  *)
(* FILE_CHANGED only if it was written at least twice meanwhile.           *)
(***************************************************************************)
EXTENDS Naturals, Sequences

CONSTANTS Files, Readers,
    Contents,    \* what a file may hold
    Gone,        \* in place of a content: there is no file
    Errors,      \* failures that say nothing of the file
    NoAnswer     \* the read has not ended

VARIABLES
    disk,        \* what each file has held, the present content last
    reads        \* the file, the content at the start and the answer of each read

vars == <<disk, reads>>

Idle == [file |-> NoAnswer, began |-> 0, answer |-> NoAnswer]

Init ==
    /\ \E first \in [Files -> Contents] : disk = [f \in Files |-> << first[f] >>]
    /\ reads = [r \in Readers |-> Idle]

Write(fs, c) ==
    /\ disk' = [f \in Files |-> IF f \in fs THEN Append(disk[f], c) ELSE disk[f]]
    /\ UNCHANGED reads

Begin(r, f) ==
    /\ reads[r] = Idle
    /\ reads' = [reads EXCEPT ![r] = [file |-> f, began |-> Len(disk[f]), answer |-> NoAnswer]]
    /\ UNCHANGED disk

\* What the file has held since the read began.
Held(r) == {disk[reads[r].file][i] : i \in reads[r].began .. Len(disk[reads[r].file])}

Answers(r) ==
    (Held(r) \ {Gone})
    \cup Errors
    \cup (IF Gone \in Held(r) THEN {"FILE_NOT_FOUND"} ELSE {})
    \cup (IF Len(disk[reads[r].file]) >= reads[r].began + 2 THEN {"FILE_CHANGED"} ELSE {})

End(r) ==
    /\ reads[r].file # NoAnswer
    /\ reads[r].answer = NoAnswer
    /\ \E a \in Answers(r) : reads' = [reads EXCEPT ![r].answer = a]
    /\ UNCHANGED disk

Next ==
    \/ \E fs \in SUBSET Files, c \in Contents \cup {Gone} : Write(fs, c)
    \/ \E r \in Readers, f \in Files : Begin(r, f)
    \/ \E r \in Readers : End(r)

Spec == Init /\ [][Next]_vars
=============================================================================
