SPECIFICATION Spec
CONSTANTS
    r1 = r1
    r2 = r2
    Reports = {r1, r2}
    Ask = Ask
    OutCap = 1
    InCap = 1
    NetCap = 1
    UpCap = 1
    DownCap = 1
    ReplyCap = 1
    MaxRetries = 2
    MaxBreaks = 1
    MaxCommands = 2
    MaxAnswers = 1
INVARIANT TypeOK
PROPERTIES
    ImplementsPipe
    ReconnectsOrFails
    OnlyCirclesStick
CHECK_DEADLOCK FALSE
