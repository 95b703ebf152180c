CONSTANTS
    Updaters = {auto, panel}
    MaxRelease = 2
    MaxFiles = 3

SPECIFICATION Spec

INVARIANT InstalledVerified

\* The agent has nothing to do once the last release is installed.
CHECK_DEADLOCK FALSE
