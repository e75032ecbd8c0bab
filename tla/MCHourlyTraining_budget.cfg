SPECIFICATION TrainingSpec
CONSTANTS
    LastMeasured = 4
    AirStations = {1}
    WeatherStations = {1, 2}
    Match <- MCMatch
    Champions <- MCChampions
    Measured <- MCMeasured
    Order <- MCOrder
    WeatherTargets <- MCWeatherTargets
    Algorithms <- MCAlgorithms
    Horizons = {1, 2}
    Tolerance = 1
    MaximumRows = 6
    KeepRecent = 2
    MinimumRows = 4
    MinimumTimes = 3
    Folds = 2
    FoldRows = 2
    HoldoutParts = 3
    Scores = {1, 2, 3}
    MinGain = 2
INVARIANTS
    TrainingSafe
    BudgetNeverStarves
PROPERTIES
    ActivatedImproves
    
CHECK_DEADLOCK FALSE
