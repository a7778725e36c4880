-------------------------- MODULE MCExtensionPages --------------------------
(* Small instances of ExtensionPages: two rules, and a browser in Austrian  *)
(* German that is offered English, German and two locales with a region.    *)
EXTENDS ExtensionPages

MCRuleIds == {1, 2}
MCLocales == <<"de", "en", "pt_BR", "zh_CN">>
MCParts == [de |-> <<"de">>, en |-> <<"en">>, pt_BR |-> <<"pt", "br">>, zh_CN |-> <<"zh", "cn">>]
MCUILanguage == <<"de", "at">>

\* What checkLocale promises of any language of up to three parts: a locale of
\* that language if there is one, never the simplified script for who reads the
\* traditional one, and the base locale for everybody else.
Subtags == {"de", "pt", "zh", "fr", "br", "cn", "hk", "hans", "hant"}
ASSUME LocaleChoice ==
    \A parts \in SeqOf(Subtags, 3) \ {<< >>} :
        LET l == CheckLocale(parts)
            offered == \E x \in Locales : Parts[x][1] = parts[1]
        IN  CASE parts[1] = "zh" /\ Range(parts) \cap {"hk", "hant"} # {} -> l = BaseLocale
              [] parts[1] = "zh" /\ (Len(parts) = 1 \/ Range(parts) \cap {"cn", "hans"} # {})
                 /\ Range(parts) \cap {"hk", "hant"} = {} -> l = "zh_CN"
              [] OTHER -> IF offered /\ parts[1] # "zh" THEN Parts[l][1] = parts[1] ELSE l = BaseLocale
=============================================================================
