\* One call after the other.
SPECIFICATION Spec
CONSTANTS
    window = window
    tray = tray
    local = local
    lan = lan
    Callers <- OneCaller
    Addresses <- TwoAddresses
    FirstAddr = local
    Torn = Torn
    Failures <- AnyFailure
INVARIANTS
    SettingsTellTunnel
