CONSTANTS
    Partitions = {1, 2}
    Groups = {1, 2, 3}
    Stored <- MCStored
    AgeAtStart <- MCAgeAtStart
    Late <- MCLate
    MinFilesL0 = 2
    MinFilesL1 = 2
    Mature = 4
    CurrentFP = 1
    HasRule = {2}
    Unknown = {5}
    Failing <- MCFailing
    MaxConcurrent = 1
    PerTenant = 1
    MaxWait = 2
    MaxEvents = 2
SPECIFICATION Spec
PROPERTY
    DrainStartsNothing
CHECK_DEADLOCK FALSE
