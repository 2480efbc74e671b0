SPECIFICATION Spec
CONSTANTS
    NoText = NoText
    Error = NoText
    Chars <- Alphabet
    Beginnings <- Drafts
    MaxTyped = 4
    MaxIDLen = 3
    MaxPhraseLen = 4
    MinWordlist = 2
INVARIANTS
    ChallengesAgree
    ListIsOneToOne
    PhraseSurvives
    PhrasesAreDrawnWidely
    NamesStayWithHost
