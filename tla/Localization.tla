---------------------------- MODULE Localization ----------------------------
(***************************************************************************)
(* The language of the pages: TranslationStore of each page, and its       *)
(* TranslationService, which loads the catalogs.  Every change of the      *)
(* preference is a load of its own: the catalog of the base locale first,  *)
(* then the one of the locale; each is fetched once, kept, and waited for  *)
(* by all the loads that need it.  Nothing orders the loads: the last one  *)
(* to end says what the page is rendered in.                               *)
(***************************************************************************)
EXTENDS Integers, SequencesExt

CONSTANTS Contexts,             \* the pages
          AvailableLocales,     \* in the order of the code
          Parts,                \* Parts[l]: a locale split at its underscores, in lower case
          BaseLocale, LanguageAuto,
          UILanguage            \* the language of the browser, in parts as well

Locales == Range(AvailableLocales)

ASSUME LocaleAssumption ==
    /\ AvailableLocales \in Seq(Locales)
    /\ BaseLocale \in Locales /\ LanguageAuto \notin Locales
    /\ DOMAIN Parts = Locales /\ IsInjective(Parts)

VARIABLES
    ui,         \* TranslationStore
    cache,      \* localeCache: the catalogs a page has
    loads,      \* loads under way: the locale, and the catalog it waits for
    crossed     \* loads of different locales overlapped, or a catalog failed to load

localeVars == <<ui, cache, loads, crossed>>

Preferences == {LanguageAuto} \cup Locales
FreshUI == [pref |-> LanguageAuto, locale |-> BaseLocale, isLoading |-> FALSE, initialized |-> FALSE]

LocaleTypeOK ==
    /\ ui \in [Contexts -> [pref : Preferences, locale : Locales,
                            isLoading : BOOLEAN, initialized : BOOLEAN]]
    /\ cache \in [Contexts -> SUBSET Locales]
    /\ loads \in [Contexts -> SUBSET [locale : Locales, at : Locales]]
    /\ crossed \in [Contexts -> BOOLEAN]

\* checkLocale and resolveLocale: the locale itself, for Chinese the simplified
\* one unless the language asks for the traditional script, the bare language,
\* the first locale of the language, or else the base.
CheckLocale(parts) ==
    LET of(ps) == CHOOSE l \in Locales : Parts[l] = ps
        exists(ps) == \E l \in Locales : Parts[l] = ps
        some(names) == \E i \in DOMAIN parts : parts[i] \in names
        cousins == {i \in DOMAIN AvailableLocales : Parts[AvailableLocales[i]][1] = parts[1]}
        first == CHOOSE i \in cousins : \A j \in cousins : i <= j
    IN  IF exists(parts) THEN of(parts)
        ELSE IF parts[1] = "zh"
        THEN IF ~some({"hant", "tw", "hk", "mo"}) /\ (Len(parts) = 1 \/ some({"hans", "cn", "sg"}))
                /\ exists(<<"zh", "cn">>)
             THEN of(<<"zh", "cn">>) ELSE BaseLocale
        ELSE IF exists(<<parts[1]>>) THEN of(<<parts[1]>>)
        ELSE IF cousins # {} THEN AvailableLocales[first] ELSE BaseLocale

Resolve(pref) == CheckLocale(IF pref = LanguageAuto THEN UILanguage ELSE Parts[pref])

Rendered(u, locale) == [u EXCEPT !.locale = locale, !.isLoading = FALSE, !.initialized = TRUE]

\* The pages that are there are rendered already.
LocaleInit(there) ==
    /\ ui = [p \in Contexts |-> IF p \in there THEN Rendered(FreshUI, Resolve(LanguageAuto)) ELSE FreshUI]
    /\ cache = [p \in Contexts |-> IF p \in there THEN {BaseLocale, Resolve(LanguageAuto)} ELSE {}]
    /\ loads = [p \in Contexts |-> {}]
    /\ crossed = [p \in Contexts |-> FALSE]

\* A page that opens again starts with nothing.
ForgetLocale(p) ==
    /\ ui' = [ui EXCEPT ![p] = FreshUI]
    /\ cache' = [cache EXCEPT ![p] = {}] /\ loads' = [loads EXCEPT ![p] = {}]
    /\ crossed' = [crossed EXCEPT ![p] = FALSE]

\* setLocalePreference and loadLocaleData up to the first catalog that is not
\* there yet; init forces what is otherwise skipped when nothing changes.
SetPreference(p, pref, force) ==
    LET wanted == Resolve(pref)
        asked == [ui[p] EXCEPT !.pref = pref, !.isLoading = TRUE]
        waits == [locale |-> wanted, at |-> IF BaseLocale \in cache[p] THEN wanted ELSE BaseLocale]
    IN  IF ~force /\ ui[p].initialized /\ ~ui[p].isLoading /\ pref = ui[p].pref
        THEN UNCHANGED localeVars
        ELSE /\ crossed' = [crossed EXCEPT ![p] = \E x \in loads[p] : x.locale # wanted]
             /\ IF {BaseLocale, wanted} \subseteq cache[p]
                THEN ui' = [ui EXCEPT ![p] = Rendered(asked, wanted)] /\ UNCHANGED loads
                ELSE /\ ui' = [ui EXCEPT ![p] = asked]
                     /\ loads' = [loads EXCEPT ![p] = @ \cup {waits}]
             /\ UNCHANGED cache

Waiting(p, catalog) == {x \in loads[p] : x.at = catalog}

\* A catalog has arrived: loads that wanted the base only to begin with go on to
\* the catalog of their locale, the others are done.
CatalogArrives(p, catalog) ==
    LET done == {x \in Waiting(p, catalog) : x.locale = catalog}
        on == Waiting(p, catalog) \ done
    IN  /\ Waiting(p, catalog) # {}
        /\ cache' = [cache EXCEPT ![p] = @ \cup {catalog}]
        /\ loads' = [loads EXCEPT ![p] = (@ \ Waiting(p, catalog))
                                         \cup {[locale |-> x.locale, at |-> x.locale] : x \in on}]
        /\ ui' = IF done = {} THEN ui ELSE [ui EXCEPT ![p] = Rendered(@, catalog)]
        /\ UNCHANGED crossed

\* It could not be fetched: every load that waits for it ends in the base locale.
CatalogFails(p, catalog) ==
    /\ Waiting(p, catalog) # {}
    /\ loads' = [loads EXCEPT ![p] = @ \ Waiting(p, catalog)]
    /\ ui' = [ui EXCEPT ![p] = Rendered(@, BaseLocale)]
    /\ crossed' = [crossed EXCEPT ![p] = TRUE]
    /\ UNCHANGED cache

\* Loads that did not overlap leave the page in the language it was told last.
RenderedAsTold(p, language) ==
    ui[p].pref = language /\ (crossed[p] \/ ui[p].locale = Resolve(language))
=============================================================================
