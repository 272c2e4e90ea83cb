SPECIFICATION HealthySpec
CONSTANTS
    camp1 = camp1
    camp2 = camp2
    Campaign <- TwoCampaigns
    NoCampaign = NoCampaign
    NoList = NoList
    Answer <- Lists
    MaxScreens = 2
    MaxIdentifies = 1
    MaxRepeats = 1
    MaxRefusals = 1
INVARIANTS
    EnrollsOnce
    StockCreditsItsLink
PROPERTIES
    LoadingEnds
CHECK_DEADLOCK FALSE
