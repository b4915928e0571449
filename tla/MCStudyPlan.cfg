SPECIFICATION Spec
CONSTANTS
    Dictionary <- ThisDictionary
    KanaTable <- ThisTable
    Decks <- AllDecks
    FirstDeck = "first"
    Documents <- TheDocuments
    Studied <- OneEach
    Scan = 2
    MaxDisturbances = 3
    MoreNotes <- OtherWords
    MoreKana <- OtherKana
    WantedOptions = 2
INVARIANTS
    TypeOK
    NothingLeftBehind
    OfferIsRight
    ChoicesAreFair
PROPERTIES
    CardsKeepTheirNote
    CountsFollow
    EveryLessonComes
CHECK_DEADLOCK FALSE
