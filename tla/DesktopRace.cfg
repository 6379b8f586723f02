\* A tunnel started while the address changes.
SPECIFICATION Spec
CONSTANTS
    window = window
    tray = tray
    local = local
    lan = lan
    Callers <- TwoCallers
    Addresses <- TwoAddresses
    FirstAddr = local
    Torn = Torn
    Failures <- CutOff
SYMMETRY CallerSymmetry
INVARIANTS
    TunnelAlwaysServes
