SPECIFICATION DesktopFairSpec
CONSTANTS
    Parts = {"dump", "dictation", "hotkeys"}
    DumpSessions = {1, 2}
    BridgeSessions = {b1}
    NoSession = none
    StartsFail = FALSE
    MaxLines = 2
    Presses = {1, 2}
    NoPress = none
    Renderer = renderer
    MaxEvents = 2
    Faults = {"capture", "microphone", "inject", "stop", "request", "renderer", "helper"}
    Accelerators = {default, key1}
    Default = default
    Unset = unset
    MaxAttempts = 2
CHECK_DEADLOCK FALSE
INVARIANTS
    DesktopTypeOK ImportedWhenClosed RecordingsCanEnd RecordingIsShown InjectedIsFinal
    SessionFollowsPhase KeysAreBound
PROPERTIES DesktopSettles
