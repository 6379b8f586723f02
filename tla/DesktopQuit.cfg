\* A start that waits for Shutdown's stop of the tunnel.
SPECIFICATION Spec
CONSTANTS
    window = window
    tray = tray
    local = local
    lan = lan
    Callers <- TwoCallers
    Addresses <- TwoAddresses
    FirstAddr = local
    Torn = Torn
    Failures <- CutOff
PROPERTIES
    NoTunnelOutlivesQuit
