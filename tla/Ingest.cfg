SPECIFICATION Spec
CONSTANTS
    None = None
    PageSize <- MCPageSize
    Listing <- MCListing
    Spare <- MCSpare
    Bad <- MCBad
    MaxEdits = 2
    MaxOutages = 1
    Corpus <- MCCorpus
    Concurrency = 2
    MobilityEntry <- MCMobilityEntry
    Curated <- MCCurated
    HostOf <- MCHostOf
    Sibling <- MCSibling
    Answers <- MCAnswers
    Limits = {0, 2}
INVARIANTS
    TypeOK
    LinksAgree
    EveryUrlIsDecided
    FeedsAgreeWithRows
PROPERTIES
    ReadsTheList
    LostFileCostsItsOwn
    RunEnds
CHECK_DEADLOCK FALSE
