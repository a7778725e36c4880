SPECIFICATION Spec
CONSTANTS
    RuleIds <- MCRuleIds
    Sites = {here, there}
    None = None
    MaxDocs = 2
    MaxScripts = 2
    MaxFailures = 1
    MaxRuns = 3
    MaxPolls = 2
    MaxActs = 3
    Contexts = {"options", "popup"}
    AvailableLocales <- MCLocales
    Parts <- MCParts
    BaseLocale = "en"
    LanguageAuto = "auto"
    UILanguage <- MCUILanguage
    Offered = {"auto", "en"}
INVARIANTS
    Inv
    PageIsAsRuled
    ViewIsTrue
CHECK_DEADLOCK FALSE
