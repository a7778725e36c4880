--------------------------- MODULE ExtensionPages ---------------------------
(***************************************************************************)
(* The options page and the popup, which show what the background told     *)
(* them when they opened and change their view by the answers to their own *)
(* calls; the background, which handles the calls of a page in the order   *)
(* they were sent; the settings chain, which persists a pause or a choice  *)
(* of language before it takes effect; and the tab, which the popup has    *)
(* reloaded after a change.  Nobody tells a page of the changes of the     *)
(* other one, except for the language, which is broadcast.                 *)
(*                                                                         *)
(* Nothing waits for an answer before the next click: a view and the rules *)
(* are apart whenever a call is on its way.                                *)
(***************************************************************************)
EXTENDS PageInjections, DemoCard, Localization, SequencesExt

CONSTANTS MaxActs,      \* bound: what the user does, and content scripts that come late
          Offered       \* bound: the languages the user chooses among

ASSUME PagesAssumption ==
    MaxActs \in Nat /\ Contexts = {"options", "popup"} /\ Offered \subseteq Preferences

VARIABLES
    page,       \* page[p]: InjectionsStore of the options page, SettingsStore of the popup
    calls,      \* calls[p]: the calls of a page that are not answered yet
    writes,     \* settingsWrite: settings being persisted, with the page that asked
    language,   \* background: the saved preference
    told,       \* told[p]: languages on their way to a page, broadcast or answered
    reloads,    \* reloads of the tab the browser was asked for
    behind,     \* behind[p]: changed by somebody else since the page was told
    twice,      \* a switch was clicked again before the answer to the first click
    refilled,   \* a copy came into a list that had been emptied
    acts

pagesVars == <<page, calls, told>>
settingsVars == <<writes, language>>
ghosts == <<behind, twice, refilled>>
vars == <<background, settingsVars, pageVars, reloads, cardVars, localeVars, pagesVars, ghosts, acts>>

Pages == {"options", "popup"}
NoRules == [r \in RuleIds |-> None]
Closed == [pc |-> "closed", rules |-> NoRules, enabled |-> TRUE, off |-> FALSE,
           site |-> None, language |-> LanguageAuto]

Ops == {"add", "copy", "update", "file", "remove", "switch", "pause", "site", "language"}
Call(op, rule, site, what, value) ==
    [op |-> op, rule |-> rule, site |-> site, what |-> what, value |-> value,
     pc |-> "sent", reply |-> None]

TypeOK ==
    /\ PageTypeOK /\ CardTypeOK /\ LocaleTypeOK
    /\ \A p \in Pages :
        /\ page[p] \in [pc : {"closed", "loading", "told", "localizing", "open"},
                        rules : [RuleIds -> {None} \cup RuleRecords], enabled : BOOLEAN,
                        off : BOOLEAN, site : {None} \cup Sites, language : Preferences]
        /\ \A i \in DOMAIN calls[p] :
            calls[p][i] \in [op : Ops, rule : {0} \cup RuleIds, site : {None} \cup Sites,
                             what : {"none"} \cup Kinds \cup Preferences, value : BOOLEAN,
                             pc : {"sent", "writing", "handled", "failed"},
                             reply : {None} \cup RuleRecords]
        /\ told[p] \in Seq(Preferences)
    /\ writes \in Seq([page : Pages, op : {"pause", "language"}, what : {"none"} \cup Preferences,
                       value : BOOLEAN])
    /\ language \in Preferences
    /\ reloads \in Nat /\ acts \in 0..MaxActs
    /\ behind \in [Pages -> BOOLEAN] /\ twice \in BOOLEAN /\ refilled \in BOOLEAN

\* The rules the popup is shown: those of the host of the tab.
Shown(site) == [r \in RuleIds |-> IF r \in Matching(site) THEN rules[r] ELSE None]

\* What a page is told when it loads: the options page everything, the popup
\* what concerns the site of the tab.
ToldPage(p, site) ==
    [pc |-> "told", enabled |-> enabled, language |-> language,
     rules |-> IF p = "popup" THEN Shown(site) ELSE rules,
     off |-> p = "popup" /\ site \in blocked,
     site |-> IF p = "popup" THEN site ELSE None]

Init ==
    /\ \E r1 \in {None, [site |-> CHOOSE s \in Sites : TRUE, on |-> TRUE, js |-> TRUE, css |-> TRUE]} :
        /\ rules = [r \in RuleIds |-> IF r = 1 THEN r1 ELSE None]
        /\ created = IF r1 = None THEN 0 ELSE 1
    /\ enabled = TRUE /\ blocked = {} /\ language = LanguageAuto
    /\ \E site \in Sites : PageInit(site)
    /\ CardInit
    /\ \E there \in SUBSET Pages :
        /\ LocaleInit(there)
        /\ page = [p \in Pages |-> IF p \in there THEN [ToldPage(p, doc[tab].site) EXCEPT !.pc = "open"] ELSE Closed]
    /\ calls = [p \in Pages |-> << >>] /\ told = [p \in Pages |-> << >>]
    /\ writes = << >> /\ reloads = 0
    /\ behind = [p \in Pages |-> FALSE] /\ twice = FALSE /\ refilled = FALSE
    /\ acts = 0

-----------------------------------------------------------------------------
(* Opening and closing.                                                    *)

\* GET_OPTIONS_DATA, GET_POPUP_DATA: the background answers a page that loads.
Tell(p) ==
    /\ page[p].pc = "loading"
    /\ page' = [page EXCEPT ![p] = ToldPage(p, @.site)]
    /\ behind' = [behind EXCEPT ![p] = p = "popup" /\ page[p].site # doc[tab].site]
    /\ UNCHANGED <<background, settingsVars, pageVars, reloads, cardVars, localeVars,
                   calls, told, twice, refilled, acts>>

\* getOptionsData, getPopupData: the answer is there, its language is loaded ...
Localize(p) ==
    /\ page[p].pc = "told"
    /\ SetPreference(p, page[p].language, TRUE)
    /\ page' = [page EXCEPT ![p].pc = "localizing"]
    /\ UNCHANGED <<background, settingsVars, pageVars, reloads, cardVars, calls, told, ghosts, acts>>

\* ... and when that load has ended, the page shows itself.
Loaded(p) ==
    /\ page[p].pc = "localizing"
    /\ \A x \in loads[p] : x.locale # Resolve(page[p].language)
    /\ page' = [page EXCEPT ![p].pc = "open"]
    /\ UNCHANGED <<background, settingsVars, pageVars, reloads, cardVars, localeVars, calls, told, ghosts, acts>>

\* A page opens, the popup over the tab, whose site it keeps.  (It opens again
\* when the calls of the last time are done with.)
Open(p) ==
    /\ page[p].pc = "closed" /\ calls[p] = << >> /\ acts < MaxActs
    /\ page' = [page EXCEPT ![p] = [Closed EXCEPT !.pc = "loading",
                                        !.site = IF p = "popup" THEN doc[tab].site ELSE None]]
    /\ acts' = acts + 1
    /\ UNCHANGED <<background, settingsVars, pageVars, reloads, cardVars, localeVars, calls, told, ghosts>>

\* The popup closes; its calls are handled all the same, but nothing comes
\* after the answers: a tab it would have reloaded keeps its document.
ClosePopup ==
    /\ page["popup"].pc # "closed"
    /\ page' = [page EXCEPT !["popup"] = Closed]
    /\ told' = [told EXCEPT !["popup"] = << >>]
    /\ ForgetLocale("popup")
    /\ IF \E i \in DOMAIN calls["popup"] : calls["popup"][i].pc = "handled" /\ calls["popup"][i].op # "site"
       THEN Outdated ELSE UNCHANGED current
    /\ UNCHANGED <<background, settingsVars, tab, doc, script, toTab, failures, reloads, cardVars,
                   calls, ghosts, acts>>

-----------------------------------------------------------------------------
(* Clicks: a call goes to the background, the view stays as it is.         *)

Send(p, call) ==
    /\ page[p].pc = "open" /\ acts < MaxActs
    /\ acts' = acts + 1
    /\ calls' = [calls EXCEPT ![p] = Append(@, call)]
    /\ UNCHANGED <<background, settingsVars, pageVars, reloads, cardVars, localeVars,
                   page, told, behind, refilled>>

InView(p, r) == page[p].rules[r] # None

\* toggleInjection: the opposite of what the row shows is asked for.
Switch(r) ==
    /\ InView("options", r)
    /\ Send("options", Call("switch", r, None, "none", ~page["options"].rules[r].on))
    /\ twice' = (twice \/ \E i \in DOMAIN calls["options"] :
                            calls["options"][i].op = "switch" /\ calls["options"][i].rule = r)

\* The menu of a row: a copy that is off, the switch of a file.
RowMenu(r) ==
    LET rule == page["options"].rules[r]
    IN  /\ InView("options", r)
        /\ \/ Send("options", Call("copy", 0, rule.site, "none", FALSE))
           \/ \E k \in Kinds : Send("options", Call("file", r, None, k, ~rule[k]))
        /\ UNCHANGED twice

\* The row asks before it has its rule removed.
ConfirmRemoval(r) ==
    /\ InView("options", r)
    /\ Send("options", Call("remove", r, None, "none", TRUE))
    /\ UNCHANGED twice

\* handleSubmit of the editor, with a valid form: a new rule, or another site
\* for one of the list.  The editor may be cancelled and opened again meanwhile.
EditorSubmit(site) ==
    /\ \/ Send("options", Call("add", 0, site, "none", TRUE))
       \/ \E r \in RuleIds : InView("options", r) /\ Send("options", Call("update", r, site, "none", TRUE))
    /\ UNCHANGED twice

\* toggleAppEnabled.  Only the toolbar of a list of rules pauses, whereas the
\* strip of a paused page resumes.
PauseOptions ==
    /\ page["options"].enabled => page["options"].rules # NoRules
    /\ Send("options", Call("pause", 0, None, "none", ~page["options"].enabled))
    /\ UNCHANGED twice

\* disableApp and enableApp: the header of the popup.
PausePopup ==
    /\ Send("popup", Call("pause", 0, None, "none", ~page["popup"].enabled))
    /\ UNCHANGED twice

\* handleLanguageChange of the settings: nothing when the language is the one
\* that was chosen already.
ChooseLanguage(pref) ==
    /\ pref # ui["options"].pref
    /\ Send("options", Call("language", 0, None, pref, TRUE))
    /\ UNCHANGED twice

\* getRuleFileEntries: what the popup makes of a file of a rule.
Entry(r, k) ==
    LET rule == page["popup"].rules[r]
    IN  [checked |-> rule.on /\ rule[k], ruleDisabled |-> ~rule.on]

\* toggleInjectionFile; the switch is disabled when paused or when the rule is off.
PopupFile(r, k) ==
    /\ InView("popup", r) /\ page["popup"].enabled /\ ~Entry(r, k).ruleDisabled
    /\ Send("popup", Call("file", r, None, k, ~Entry(r, k).checked))
    /\ UNCHANGED twice

\* disableInjectionsForSite, enableInjectionsForSite: of the tab as it is now.
PopupSite ==
    /\ page["popup"].enabled /\ page["popup"].rules # NoRules
    /\ Send("popup", Call("site", 0, doc[tab].site, "none", ~page["popup"].off))
    /\ UNCHANGED twice

-----------------------------------------------------------------------------
(* The background handles the calls of a page in the order they were sent. *)

\* addInjection, updateInjection, removeInjection, enableInjection and
\* disableInjection, setInjectionFileEnabled, on the rules.
RulesAfter(c, new) ==
    CASE c.op \in {"add", "copy"} ->
            [rules EXCEPT ![new] = [site |-> c.site, on |-> c.value, js |-> TRUE, css |-> TRUE]]
      [] c.op = "update" /\ rules[c.rule] # None -> [rules EXCEPT ![c.rule].site = c.site]
      [] c.op = "file" /\ rules[c.rule] # None -> [rules EXCEPT ![c.rule][c.what] = c.value]
      [] c.op = "switch" /\ rules[c.rule] # None -> [rules EXCEPT ![c.rule].on = c.value]
      [] c.op = "remove" -> [rules EXCEPT ![c.rule] = None]
      [] OTHER -> rules

\* disableInjectionsForSite, enableInjectionsForSite; and removeInjection, which
\* unblocks the site of the rule when it was the last one there.
BlockedAfter(c) ==
    CASE c.op = "site" -> IF c.value THEN blocked \cup {c.site} ELSE blocked \ {c.site}
      [] c.op = "remove" /\ rules[c.rule] # None /\ Matching(rules[c.rule].site) = {c.rule} ->
            blocked \ {rules[c.rule].site}
      [] OTHER -> blocked

\* The other page is behind, and unless the popup will have the tab reloaded,
\* so are the documents.
Changed(p, c) ==
    /\ behind' = [q \in Pages |-> behind[q] \/ (q # p /\ page[q].pc \notin {"closed", "loading"})]
    /\ IF p = "popup" /\ (page[p].pc = "open" \/ c.op = "site") THEN UNCHANGED current ELSE Outdated

\* Mutant: calls overtake each other.
SentAtAll(p, i) == calls[p][i].pc = "sent"

\* gateMessageHandler and messageHandler: nothing is awaited before the rules
\* change, so the calls of a page take effect as they were sent.
NextSent(p, i) ==
    /\ calls[p][i].pc = "sent"
    /\ \A j \in 1..(i - 1) : calls[p][j].pc # "sent"

Handle(p, i) ==
    LET c == calls[p][i]
        new == created + 1
        id == IF c.op \in {"add", "copy"} THEN new ELSE c.rule
    IN  /\ NextSent(p, i) /\ c.op \notin {"pause", "language"}
        /\ c.op \in {"add", "copy"} => new \in RuleIds
        /\ created' = IF c.op \in {"add", "copy"} THEN new ELSE created
        /\ rules' = RulesAfter(c, new)
        /\ blocked' = BlockedAfter(c)
        /\ reloads' = reloads + (IF c.op = "site" THEN 1 ELSE 0)
        /\ calls' = [calls EXCEPT ![p][i].pc = "handled", ![p][i].rule = id,
                        ![p][i].reply = IF id = 0 THEN None ELSE RulesAfter(c, new)[id]]
        /\ IF <<rules', blocked'>> = <<rules, blocked>>
           THEN UNCHANGED <<behind, current>> ELSE Changed(p, c)
        /\ UNCHANGED <<enabled, settingsVars, tab, doc, script, toTab, failures, cardVars, localeVars,
                       page, told, twice, refilled, acts>>

\* DISABLE_APP, ENABLE_APP, SET_INTERFACE_LANGUAGE: queueSettingsWrite.
HandleSetting(p, i) ==
    LET c == calls[p][i] IN
    /\ NextSent(p, i) /\ c.op \in {"pause", "language"}
    /\ writes' = Append(writes, [page |-> p, op |-> c.op, what |-> c.what, value |-> c.value])
    /\ calls' = [calls EXCEPT ![p][i].pc = "writing"]
    /\ UNCHANGED <<background, language, pageVars, reloads, cardVars, localeVars, page, told, ghosts, acts>>

\* A page's oldest call that is being written.
Writing(p) ==
    CHOOSE n \in DOMAIN calls[p] :
        /\ calls[p][n].pc = "writing"
        /\ \A m \in 1..(n - 1) : calls[p][m].pc # "writing"

\* The write at the head of the chain has landed and takes effect.
PauseWritten ==
    LET w == Head(writes) IN
    /\ writes # << >> /\ w.op = "pause"
    /\ writes' = Tail(writes)
    /\ enabled' = w.value
    /\ calls' = [calls EXCEPT ![w.page][Writing(w.page)].pc = "handled"]
    /\ IF enabled' = enabled THEN UNCHANGED <<behind, current>>
       ELSE Changed(w.page, calls[w.page][Writing(w.page)])
    /\ UNCHANGED <<rules, created, blocked, language, tab, doc, script, toTab, failures, reloads,
                   cardVars, localeVars, page, told, twice, refilled, acts>>

\* The language is broadcast to the pages that are there, and then answered.
LanguageWritten ==
    LET w == Head(writes) IN
    /\ writes # << >> /\ w.op = "language"
    /\ writes' = Tail(writes)
    /\ language' = w.what
    /\ told' = [p \in Pages |-> IF page[p].pc = "closed" THEN << >>
                                ELSE told[p] \o (IF p = w.page THEN <<w.what, w.what>> ELSE <<w.what>>)]
    /\ calls' = [calls EXCEPT ![w.page] = RemoveAt(@, Writing(w.page))]
    /\ UNCHANGED <<background, pageVars, reloads, cardVars, localeVars, page, ghosts, acts>>

WriteFails ==
    /\ writes # << >> /\ failures < MaxFailures
    /\ writes' = Tail(writes)
    /\ failures' = failures + 1
    /\ calls' = [calls EXCEPT ![Head(writes).page][Writing(Head(writes).page)].pc = "failed"]
    /\ UNCHANGED <<background, language, tab, doc, script, toTab, current, reloads,
                   cardVars, localeVars, page, told, ghosts, acts>>

-----------------------------------------------------------------------------
(* The answers.  Those of the rules come in the order of the calls, so do  *)
(* those of the settings chain and those of the blocklist.                 *)

Lane(op) ==
    CASE op \in {"pause", "language"} -> "settings"
      [] op = "site" -> "site"
      [] OTHER -> "rules"

\* What the continuation of a call makes of the view of its page.
OptionsAfter(v, c) ==
    CASE c.op = "pause" -> [v EXCEPT !.enabled = c.value]
      [] c.op = "remove" -> [v EXCEPT !.rules[c.rule] = None]
      [] c.op = "switch" -> IF v.rules[c.rule] = None THEN v ELSE [v EXCEPT !.rules[c.rule].on = ~@]
      [] c.op \in {"add", "copy"} -> [v EXCEPT !.rules[c.rule] = c.reply]
      [] OTHER -> IF c.reply = None \/ v.rules[c.rule] = None THEN v ELSE [v EXCEPT !.rules[c.rule] = c.reply]

PopupAfter(v, c) ==
    CASE c.op = "pause" -> [v EXCEPT !.enabled = c.value]
      [] c.op = "site" -> [v EXCEPT !.off = c.value]
      [] OTHER -> IF c.reply = None THEN v ELSE [v EXCEPT !.rules[c.rule] = c.reply]

ViewAfter(p, c) ==
    IF c.pc = "failed" THEN page[p]
    ELSE IF p = "popup" THEN PopupAfter(page[p], c) ELSE OptionsAfter(page[p], c)

\* The popup has the tab reloaded once its call has succeeded.
AsksForReload(p, c) ==
    /\ p = "popup" /\ page[p].pc = "open" /\ c.pc = "handled"
    /\ c.op = "pause" \/ (c.op = "file" /\ c.reply # None)

\* addInjection resets the card; a copy does not.  A page that has closed does
\* nothing.
Answer(p, i) ==
    LET c == calls[p][i] IN
    /\ c.pc \in {"handled", "failed"}
    /\ \A j \in 1..(i - 1) : Lane(calls[p][j].op) # Lane(c.op)
    /\ calls' = [calls EXCEPT ![p] = RemoveAt(@, i)]
    /\ page' = IF page[p].pc = "open" THEN [page EXCEPT ![p] = ViewAfter(p, c)] ELSE page
    /\ refilled' = (refilled \/ (c.op = "copy" /\ page[p].rules = NoRules))
    /\ reloads' = reloads + (IF AsksForReload(p, c) THEN 1 ELSE 0)
    /\ IF c.op = "add" THEN ResetCard ELSE UNCHANGED cardVars
    /\ UNCHANGED <<background, settingsVars, pageVars, localeVars, told, behind, twice, acts>>

\* The listener of the language channel, or what follows the answer: the page
\* takes the language over.
TakeLanguage(p) ==
    /\ told[p] # << >> /\ page[p].pc # "told"
    /\ SetPreference(p, Head(told[p]), FALSE)
    /\ told' = [told EXCEPT ![p] = Tail(@)]
    /\ UNCHANGED <<background, settingsVars, pageVars, reloads, cardVars, page, calls, ghosts, acts>>

-----------------------------------------------------------------------------
(* The tab, the card, the content scripts.                                 *)

Reload ==
    /\ reloads > 0 /\ reloads' = reloads - 1
    /\ ReloadTab
    /\ UNCHANGED <<background, settingsVars, cardVars, localeVars, pagesVars, ghosts, acts>>

\* The user goes elsewhere, or reloads; a popup that is open was told of the
\* site that was there before.
Navigate(site) ==
    /\ acts < MaxActs /\ acts' = acts + 1
    /\ NewDocument(site)
    /\ behind' = [behind EXCEPT !["popup"] = @ \/ (site # doc[tab].site)]
    /\ UNCHANGED <<background, settingsVars, reloads, cardVars, localeVars, pagesVars, twice, refilled>>

\* The browser runs a content script in a document that has one (the extension
\* was updated or allowed again).
AnotherScript ==
    /\ acts < MaxActs /\ acts' = acts + 1
    /\ \E n \in 2..MaxScripts : StartScript(tab, n)
    /\ UNCHANGED <<background, settingsVars, reloads, cardVars, localeVars, pagesVars, ghosts>>

\* The card is there while the page shows no rules; its button not when paused.
ClickRunDemo ==
    /\ page["options"].pc = "open" /\ page["options"].rules = NoRules /\ page["options"].enabled
    /\ acts < MaxActs /\ acts' = acts + 1
    /\ RunDemo
    /\ UNCHANGED <<background, settingsVars, pageVars, reloads, localeVars, pagesVars, ghosts>>

CardWorks ==
    CardStep /\ UNCHANGED <<background, settingsVars, pageVars, reloads, localeVars, pagesVars, ghosts, acts>>
ScriptsWork ==
    PageStep /\ UNCHANGED <<background, settingsVars, reloads, cardVars, localeVars, pagesVars, ghosts, acts>>

CatalogEnds(p, catalog) ==
    /\ \/ CatalogArrives(p, catalog) /\ UNCHANGED failures
       \/ /\ failures < MaxFailures /\ failures' = failures + 1
          /\ CatalogFails(p, catalog)
    /\ UNCHANGED <<background, settingsVars, tab, doc, script, toTab, current, reloads, cardVars,
                   pagesVars, ghosts, acts>>

Next ==
    \/ \E p \in Pages : \/ Open(p) \/ Tell(p) \/ Localize(p) \/ Loaded(p) \/ TakeLanguage(p)
                        \/ \E i \in DOMAIN calls[p] : Handle(p, i) \/ HandleSetting(p, i) \/ Answer(p, i)
                        \/ \E catalog \in Locales : CatalogEnds(p, catalog)
    \/ \E r \in RuleIds : Switch(r) \/ RowMenu(r) \/ ConfirmRemoval(r) \/ \E k \in Kinds : PopupFile(r, k)
    \/ \E site \in Sites : EditorSubmit(site) \/ Navigate(site)
    \/ \E pref \in Offered : ChooseLanguage(pref)
    \/ PauseOptions \/ PausePopup \/ PopupSite \/ ClosePopup \/ Reload \/ AnotherScript
    \/ PauseWritten \/ LanguageWritten \/ WriteFails
    \/ ClickRunDemo \/ CardWorks \/ ScriptsWork

Spec == Init /\ [][Next]_vars

-----------------------------------------------------------------------------
(* What the pages, the card and the tab come to.                           *)

\* Nothing the user did is still on its way.
Quiet(p) == page[p].pc = "open" /\ calls[p] = << >>

\* JavaScript and CSS take effect only in the document whose content script
\* asked for them; and once the tab has settled, with nothing changed by the
\* options page, failed or abandoned since its request was handled, it has
\* exactly the active files of its site: what the popup changed is what the tab
\* it reloads shows.
PageIsAsRuled ==
    /\ OwnEffects
    /\ (/\ doc[tab].mark # <<0, 0>> /\ Settled /\ current[doc[tab].mark]
        /\ reloads = 0 /\ calls["popup"] = << >>)
       => InEffect = Active(doc[tab].site)

\* getSiteStatus of the popup: the number of rules it calls active.
ActiveCount(v) ==
    IF ~v.enabled \/ v.off THEN 0
    ELSE Cardinality({r \in RuleIds : v.rules[r] # None /\ v.rules[r].on /\ (v.rules[r].js \/ v.rules[r].css)})

\* However many calls of a page overlapped, once they are all answered it shows
\* what the background holds, unless another page changed that behind it or a
\* switch was clicked twice before its answer; the popup calls as many rules
\* active as would be injected; and a page is in the language that was saved,
\* whoever chose it, unless loads of catalogs overlapped or one failed.
ViewIsTrue ==
    /\ (Quiet("options") /\ ~behind["options"] /\ ~twice) =>
            page["options"].rules = rules /\ page["options"].enabled = enabled
    /\ (Quiet("popup") /\ ~behind["popup"]) =>
            /\ page["popup"].rules = Shown(page["popup"].site)
            /\ page["popup"].enabled = enabled
            /\ page["popup"].off = (page["popup"].site \in blocked)
            /\ ActiveCount(page["popup"]) = Cardinality({f[1] : f \in Active(page["popup"].site)})
    /\ \A p \in Pages :
            (page[p].pc = "open" /\ told[p] = << >> /\ loads[p] = {}) => RenderedAsTold(p, language)

\* The card never waits for nothing and never shows the end of an earlier run:
\* behind a list of rules it is as new, so that it reappears as new (FR-016).
CardIsCurrent ==
    /\ CardMovesOn
    /\ (page["options"].rules # NoRules /\ ~refilled) => status = "idle"

\* The type invariant of the pages, with the state of the card.
Inv == TypeOK /\ CardIsCurrent
=============================================================================
