--------------------------- MODULE PageInjections ---------------------------
(***************************************************************************)
(* How the rules get into the documents of one tab: the content script of  *)
(* a document marks it with a token and asks the background, which reads   *)
(* the files of the rules of its site, sends their JavaScript to the tab   *)
(* and answers with their CSS.  The tab may show another document by then, *)
(* or a newer content script may have taken the document over.             *)
(*                                                                         *)
(* One document per navigation or reload, numbered 1, 2, ...; script       *)
(* <<d, n>> is the n-th content script of document d, and stands for its   *)
(* token.  A rule has both files; RuleStore models rules with one.         *)
(***************************************************************************)
EXTENDS Integers, FiniteSets, Sequences

CONSTANTS RuleIds, Sites, None,
          MaxDocs, MaxScripts,    \* bounds: documents, content scripts of one
          MaxFailures             \* files that cannot be read, scripts that cannot run

ASSUME PageAssumption ==
    /\ IsFiniteSet(RuleIds) /\ RuleIds # {} /\ RuleIds = 1..Cardinality(RuleIds)
    /\ None \notin Sites
    /\ \A r \in [site : Sites, on : BOOLEAN, js : BOOLEAN, css : BOOLEAN] : r # None
    /\ MaxDocs \in Nat \ {0} /\ MaxScripts \in Nat \ {0} /\ MaxFailures \in Nat

VARIABLES
    rules,      \* background: rule r, None where there is none
    created,    \* background: rules 1..created have been made, some removed since
    enabled,    \* background: not paused
    blocked,    \* background: the blocklist
    tab,        \* the number of the document the tab shows
    doc,        \* doc[d]: its site, its mark, what took effect in it
    script,     \* script[s]: where the content script and its request are
    toTab,      \* JavaScript on its way to the tab: the script's token and the rule
    current,    \* current[s]: nothing has changed or failed since its request was handled
    failures

background == <<rules, created, enabled, blocked>>
pageVars == <<tab, doc, script, toTab, current, failures>>

Docs == 1..MaxDocs
Scripts == Docs \X (1..MaxScripts)
Kinds == {"js", "css"}
RuleRecords == [site : Sites, on : BOOLEAN, js : BOOLEAN, css : BOOLEAN]
Effects == Scripts \X RuleIds

Idle(pc) == [pc |-> pc, files |-> {}, css |-> {}]
Blank(site) == [site |-> site, mark |-> <<0, 0>>, ran |-> {}, styled |-> {}]

PageTypeOK ==
    /\ rules \in [RuleIds -> {None} \cup RuleRecords]
    /\ created \in 0..Cardinality(RuleIds)
    /\ enabled \in BOOLEAN /\ blocked \subseteq Sites
    /\ tab \in Docs
    /\ doc \in [Docs -> [site : Sites, mark : {<<0, 0>>} \cup Scripts,
                         ran : SUBSET Effects, styled : SUBSET Effects]]
    /\ toTab \subseteq Effects
    /\ current \in [Scripts -> BOOLEAN]
    /\ failures \in 0..MaxFailures
    /\ \A s \in Scripts :
        /\ script[s].pc \in {"none", "asking", "reading", "answered", "head", "done", "gone"}
        /\ script[s].files \subseteq RuleIds \X Kinds
        /\ script[s].css \subseteq RuleIds

\* getInjectionsByUrl: the rules of exactly this host.
Matching(site) == {r \in RuleIds : rules[r] # None /\ rules[r].site = site}

\* isFileActive, of the rules getAllowedInjectionsByUrl returns.
Active(site) ==
    IF ~enabled \/ site \in blocked THEN {}
    ELSE {f \in Matching(site) \X Kinds : rules[f[1]].on /\ rules[f[1]][f[2]]}

\* A document that has been there for a while, with its files.
PageInit(site) ==
    LET first == <<1, 1>>
        of(kind) == {<<first, f[1]>> : f \in {g \in Active(site) : g[2] = kind}}
    IN  /\ tab = 1 /\ toTab = {} /\ failures = 0
        /\ doc = [d \in Docs |-> IF d = 1
                THEN [site |-> site, mark |-> first, ran |-> of("js"), styled |-> of("css")]
                ELSE Blank(site)]
        /\ script = [s \in Scripts |-> Idle(IF s = first THEN "done" ELSE "none")]
        /\ current = [s \in Scripts |-> s = first]

-----------------------------------------------------------------------------
(* The content script.                                                     *)

\* init: marks the root and asks.  A later content script of the document has
\* a token of its own and takes the mark over.
StartScript(d, n) ==
    /\ d = tab /\ script[<<d, n>>].pc = "none"
    /\ n > 1 => script[<<d, n - 1>>].pc # "none"
    /\ doc' = [doc EXCEPT ![d].mark = <<d, n>>]
    /\ script' = [script EXCEPT ![<<d, n>>].pc = "asking"]
    /\ UNCHANGED <<tab, toTab, current, failures>>

Marked(s) == doc[s[1]].mark = s

\* inject, the answer is there: no rules or a lost mark end it; the styles need
\* a head, which the document may not have yet.
Receive(s) ==
    /\ script[s].pc = "answered"
    /\ script' = [script EXCEPT ![s].pc =
            IF ~Marked(s) \/ script[s].css = {} THEN "done" ELSE "head"]
    /\ UNCHANGED <<tab, doc, toTab, current, failures>>

\* injectCss of every style, when the document has a node for them.
Insert(s) ==
    /\ script[s].pc = "head"
    /\ doc' = IF Marked(s)
              THEN [doc EXCEPT ![s[1]].styled = @ \cup ({s} \X script[s].css)]
              ELSE doc
    /\ script' = [script EXCEPT ![s].pc = "done"]
    /\ UNCHANGED <<tab, toTab, current, failures>>

-----------------------------------------------------------------------------
(* The background.                                                         *)

\* getPageInjections up to the reads: what is to be read is settled here and is
\* not looked at again.  The request of a document that has gone is handled too.
HandleRequest(s) ==
    /\ script[s].pc = "asking"
    /\ script' = [script EXCEPT ![s].pc = "reading", ![s].files = Active(doc[s[1]].site)]
    /\ current' = [current EXCEPT ![s] = TRUE]
    /\ UNCHANGED <<tab, doc, toTab, failures>>

\* The reads are done.  A rule with a file that cannot be read is left out; the
\* JavaScript of the others goes to the tab and their CSS into the answer.
Resolved(s) ==
    LET wanted == {f[1] : f \in script[s].files}
    IN  \E failed \in SUBSET wanted :
            LET read == {f \in script[s].files : f[1] \notin failed}
            IN  /\ script[s].pc = "reading"
                /\ Cardinality(failed) + failures <= MaxFailures
                /\ failures' = failures + Cardinality(failed)
                /\ current' = [current EXCEPT ![s] = @ /\ failed = {}]
                /\ toTab' = toTab \cup {<<s, r>> : r \in {f[1] : f \in {g \in read : g[2] = "js"}}}
                /\ script' = [script EXCEPT ![s].css = {f[1] : f \in {g \in read : g[2] = "css"}},
                                            ![s].pc = IF s[1] = tab THEN "answered" ELSE "gone"]
                /\ UNCHANGED <<tab, doc>>

\* Mutant: the token is not compared.
ExecuteAnywhere(m) ==
    /\ m \in toTab
    /\ toTab' = toTab \ {m}
    /\ doc' = [doc EXCEPT ![tab].ran = @ \cup {m}]
    /\ UNCHANGED <<tab, script, current, failures>>

\* functionToInject in the document the tab shows when the script arrives.
Execute(m) ==
    /\ m \in toTab
    /\ toTab' = toTab \ {m}
    /\ doc' = IF doc[tab].mark = m[1]
              THEN [doc EXCEPT ![tab].ran = @ \cup {m}]
              ELSE doc
    /\ UNCHANGED <<tab, script, current, failures>>

\* chrome.scripting.executeScript is refused: logged, nobody is told.
ExecuteFails(m) ==
    /\ m \in toTab /\ failures < MaxFailures
    /\ toTab' = toTab \ {m}
    /\ failures' = failures + 1
    /\ current' = [current EXCEPT ![m[1]] = FALSE]
    /\ UNCHANGED <<tab, doc, script>>

-----------------------------------------------------------------------------
(* The tab.                                                                *)

\* The tab gets a new document; the scripts of the old one end with it, their
\* requests and the JavaScript sent for them do not.
NewDocument(site) ==
    /\ tab < MaxDocs
    /\ tab' = tab + 1
    /\ doc' = [doc EXCEPT ![tab + 1] = Blank(site)]
    /\ script' = [s \in Scripts |->
            IF s[1] = tab /\ script[s].pc \in {"answered", "head"}
            THEN [script[s] EXCEPT !.pc = "gone"] ELSE script[s]]
    /\ UNCHANGED <<toTab, current, failures>>

\* browser.tabs.reload
ReloadTab == NewDocument(doc[tab].site)

\* Somebody else changed the rules: what was handled before is out of date.
Outdated == current' = [s \in Scripts |-> FALSE]

PageStep ==
    \/ StartScript(tab, 1)
    \/ \E s \in Scripts : \/ HandleRequest(s) \/ Resolved(s)
                          \/ Receive(s) \/ Insert(s)
    \/ \E m \in toTab : Execute(m) \/ ExecuteFails(m)

-----------------------------------------------------------------------------

\* What took effect in a document was asked for by a script of that document.
OwnEffects ==
    \A d \in Docs : \A m \in doc[d].ran \cup doc[d].styled : m[1][1] = d

\* The script whose mark the document of the tab bears has done all it will do.
Settled ==
    /\ script[doc[tab].mark].pc = "done"
    /\ \A m \in toTab : m[1] # doc[tab].mark

\* What the marking script put into the document of the tab.
InEffect ==
    LET s == doc[tab].mark
    IN  {f \in RuleIds \X Kinds :
            <<s, f[1]>> \in (IF f[2] = "js" THEN doc[tab].ran ELSE doc[tab].styled)}
=============================================================================
