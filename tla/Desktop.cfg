\* The window and the tray, every operation, two addresses; launches, quits and crashes.
SPECIFICATION FairSpec
CONSTANTS
    window = window
    tray = tray
    local = local
    lan = lan
    Callers <- TwoCallers
    Addresses <- TwoAddresses
    FirstAddr = local
    Torn = Torn
    Failures <- CutOff
INVARIANTS
    OneServer
    TunnelServesControl
PROPERTIES
    CallsEnd
