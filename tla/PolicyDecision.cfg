\* Every array of up to two bindings, over five scopes, three ranks and six
\* policies, many of three, and two actions; and every edit of six policies by
\* up to four handlers.
CONSTANTS
    a1 = a1
    a2 = a2
    g1 = g1
    g2 = g2
    None = None
    Agent = {a1, a2}
    Group = {g1, g2}
    Self = a1
    Memberships = {g1}
    RanksUsed = {None, 50, 100}
    Inputs <- Arrays
    Actions <- ActionsUsed
    DefaultTtl = 4
    MaxTtl = 5
    eur = eur
    usd = usd
    both = both
    text1 = text1
    pattern1 = pattern1
    padded = padded
    twoLines = twoLines
    Blank = Blank
    Bad = Bad
    Unparsable = Unparsable
    Matches <- MCMatches
    Texts <- MCTexts
    Entries <- MCEntries
    TypedParams = {Blank, Bad, text1}
    TypedPaths <- MCTypedPaths
    TypedValues <- MCTypedValues
    TypedOps = {"eq", "in", "exists", "regex"}
    Defaults = {"allow", "deny"}
    ObligationTypes <- MCObligationTypes
    OtherTypes = {"CUSTOM"}
    Levels = {"LOW", "HIGH"}
    Regexes = {pattern1}
    CsvItems <- MCCsvItems
    OneLiners <- MCOneLiners
    Trims <- MCTrims
    MaxEdits = 4
    Acts <- MCActs
SPECIFICATION MCSpec
INVARIANT DecidedBySpecificity
INVARIANT AnswersSound
INVARIANT SavesFaithful
PROPERTY RemovalsMeanGone
\* An answered request is finished, and so is a page after MaxEdits handlers.
CHECK_DEADLOCK FALSE
