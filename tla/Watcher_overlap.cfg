SPECIFICATION Spec
CONSTANTS
    Tools = {t1}
    MaxRetries = 1
    MaxEdits = 1
    MaxChains = 2
    ListenerMayStop = FALSE
PROPERTIES
    StopCancelsTimers
