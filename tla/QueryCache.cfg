SPECIFICATION FairSpec
CONSTANTS
    Screens <- MCScreens
    MaxVersion = 2
    MaxFaults = 1
CHECK_DEADLOCK FALSE
INVARIANTS TypeOK AtRestFresh LoadedNeverOverlaps
PROPERTIES ShownNeverGoesBack ToldIsShown PollCatchesUp JobEndIsSeen
