SPECIFICATION FairSpec
CONSTANTS
    Slots = 2
    Generations = 2
    Budget = 2
    MaxFires = 3
    MaxReruns = 1
    MaxSignals = 1
    MaxEdits = 1
    MaxFaults = 1
    Torn = Torn
    Nothing = Nothing
INVARIANTS TypeOK FiresAreAlone OneActiveCycle
PROPERTIES FiresAreDue DiscoveryGoesOn
CHECK_DEADLOCK FALSE
CONSTRAINT OneDisturbance
