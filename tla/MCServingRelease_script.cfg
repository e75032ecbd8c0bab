SPECIFICATION FairSpec
CONSTANTS
    north = north
    grown = grown
    NoPlaces = NoPlaces
    Releases = {1, 2, 3}
    Publishers = {"a", "b"}
    PlacesOf <- SamePlaces
    Keep = 1
    HistoryLimit = 2
    OneAtATime = TRUE
    MaxFaults = 2
INVARIANTS
    ActiveReleaseComplete
    HistoryRemembers
PROPERTIES
    KeepsShelf
    PromotionCompletes
