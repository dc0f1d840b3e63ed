SPECIFICATION CliSpec
CONSTANTS
    Commands = {c1, c2}
    Nothing = Nothing
    MaxToken = 3
    MaxFile = 0
    MaxBreakers = 2
    Kinds = {"plain"}
    MaxRuns = 3
    MaxKills = 1
    MaxFaults = 1
INVARIANTS OneTokenAtATime
CHECK_DEADLOCK FALSE
