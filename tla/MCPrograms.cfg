CONSTANTS
    MAXARGS = 3
    Letter = {"a", "b"}
    PAGE = 16
    NARGV = 3
    TextSizes = {1, 16, 30}
    Lines <- MCLines
    Tables <- MCTables
    Patterns <- MCPatterns
    Texts <- MCTexts
SPECIFICATION Spec
INVARIANTS
    ParserMatchesGrammar
    PipesWired
    ArgsPassed
    GrepMatches
