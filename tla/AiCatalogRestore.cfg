SPECIFICATION Spec
CONSTANTS
    NumProjects = 1
    Words = {w1, w2}
    MaxPerRun = 1
    MaxTexts = 4
    MaxChanges = 3
    MaxFaults = 1
    None = None
INVARIANTS OnlyPeoplesWords
CHECK_DEADLOCK FALSE
