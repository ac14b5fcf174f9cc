SPECIFICATION Spec
CONSTANTS
    Tools = {t1, t2}
    MaxRetries = 2
    MaxEdits = 1
    MaxChains = 2
    ListenerMayStop = TRUE
INVARIANTS
    NoChangeForgotten
PROPERTIES
    ChangeSettles
