---------------------------- MODULE MCSourceCache ----------------------------
(* Small instances of SourceCache for TLC. *)
EXTENDS SourceCache, TLC

CONSTANTS js1, css1

BothPaths == {js1, css1}
JsOnly == [k \in Kinds |-> IF k = "js" THEN js1 ELSE None]
JsAndCss == [k \in Kinds |-> IF k = "js" THEN js1 ELSE css1]
JsPath == {js1}
JsDescriptors == {JsOnly}
MCDescriptors == {JsOnly, JsAndCss}

\* Files grow with every edit: one rule fits, two may not, a grown pair is too
\* large to be retained at all.
MCFileBytes == [p \in Paths |-> [v \in 0..MaxEdits |-> v + 1]]

MCSymmetry == Permutations(Requests) \cup Permutations(Rules)
=============================================================================
