\* A workspace of at most two agents and a few commands.
CONSTANTS
    MaxAgents = 2
    MaxPanes = 6
    MaxTokens = 4
    MaxCommands = 3
    MaxMishaps = 2
SPECIFICATION LauncherSpec
INVARIANTS  OneSession OneVoice  StartedWorks OnlyNewTurnsCut
 
CHECK_DEADLOCK FALSE
