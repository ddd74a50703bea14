\* Three files, a clean or unclean stop, half lines, failing saves and reopenings.
CONSTANTS
    MaxGen = 3
    MaxLines = 2
    MaxStops = 1
    FpSize = 2
    Before = {2}
    Refusals <- FirstRefused
    Strangers <- FromStranger
    Opens <- Opening
    Closes <- Removing
    ReloadInTime = TRUE
    MaxFaults = 1
    NoFP = NoFP
SPECIFICATION FairSpec
INVARIANTS NoLineVanishes LinesKeptOnce
PROPERTIES EveryLineIsRead
