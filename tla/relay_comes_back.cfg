CONSTANTS
    Tabs = {t1}
    Launching = {t1}
    MaxRequests = 1
    MaxSockets = 2
    MaxAsks = 2
    MaxDrops = 0
SPECIFICATION LinkSpec
INVARIANT ComesBack
CHECK_DEADLOCK FALSE
