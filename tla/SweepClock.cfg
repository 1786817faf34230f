SPECIFICATION FairSpec
CONSTANTS
    Timeout = 2
    Pause = 1
    Lag = 1
    StaleSeconds = {4, 5, 6, 7, 8, 9, 12, 13, 14, 15}
    Cap = 17
PROPERTIES
    LiveRunnerSpared
    DeadRowIsSwept
