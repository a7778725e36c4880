---------------------------- MODULE MCSafariRead ----------------------------
(* A small instance of SafariRead for TLC. *)
EXTENDS SafariRead, TLC

CONSTANTS js, css, jsFolder, cssFolder, project, long, other, short, rule

MCFolderOf == [f \in Files |-> IF f = js THEN jsFolder ELSE cssFolder]

\* The project folder, granted for another rule, holds the folder of the script.
MCInside == [g \in Folders |-> IF g = cssFolder THEN {css} ELSE {js}]

\* Chunks of two bytes: two, the second one full or not, or a single one.
MCSize == [c \in Contents |-> CASE c = long -> 4 [] c = other -> 3 [] c = short -> 2]

MCSources == [x \in Editors |-> <<js, css>>]

MCFirst == [f \in Files |-> long]

MCGrants == {<<jsFolder, cssFolder>>, <<jsFolder, project>>}

MCSymmetry == Permutations(Readers)
=============================================================================
