SPECIFICATION LauncherSpec
CONSTANTS
    Launchers = {11, 12}
    Pids = {1, 2, 3, 4}
    MaxCrashes = 0
    MaxLate = 0
    MaxRaces = 0
PROPERTY StopErrorIsTrue
CHECK_DEADLOCK FALSE
