---------------------------- MODULE MCRuleStore ----------------------------
(* Small instances of RuleStore for TLC. *)
EXTENDS RuleStore, TLC

CONSTANTS h1, h2, raw1, r1

Both == [k \in Kinds |-> TRUE]
Unset == [k \in Kinds |-> None]
Flags(js, css) == [k \in Kinds |-> IF k = "js" THEN js ELSE css]

MCHostOf == [s \in RawSites |-> h1]

\* Both files on h1, only a script on h2; no site, no path, a path that is none.
MCDrafts ==
    {[site |-> raw1, path |-> Flags("absolute", "url")],
     [site |-> h2, path |-> Flags("url", "none")],
     [site |-> None, path |-> Flags("url", "url")],
     [site |-> h1, path |-> Flags("none", "none")],
     [site |-> h1, path |-> Flags("url", "other")]}

One(site, flag) ==
    [rules |-> [r \in Rules |->
                  IF r = r1 THEN [site |-> site, path |-> Both, flag |-> flag, enabled |-> TRUE]
                  ELSE None],
     blocklist |-> {}]

\* A first start, data of version 1, of the current and of a newer version, and
\* a list of which one entry is no rule and one has no flag for its script.
MCInitialStates ==
    {[schema |-> 0, state |-> [rules |-> NoRules, blocklist |-> {}]],
     [schema |-> 1, state |-> One(h1, Unset)],
     [schema |-> 2, state |-> One(raw1, Flags(TRUE, FALSE))],
     [schema |-> 2, state |-> [One(h1, Flags(None, FALSE))
                                 EXCEPT !.rules = [r \in Rules |-> IF @[r] = None THEN Malformed
                                                                              ELSE @[r]]]],
     [schema |-> 3, state |-> One(h1, Flags(FALSE, TRUE))]}
=============================================================================
