\* The stored events and their analysis.
CONSTANTS
    MaxId = 5
    Senders <- MCSenders
    PerRun = 2
    BatchLimit = 1
    Slowloris = {3, 5}
    Unanswerable = {1}
SPECIFICATION Spec
PROPERTIES   OthersAreAnalyzed
