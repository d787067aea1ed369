SPECIFICATION Spec
CONSTANTS
    syncthing = syncthing
    searxng = searxng
    Order <- SearxngAlone
    Backend = backend
    Installed = {searxng}
    AwaitsReady = {searxng}
    Sidecar = searxng
    Flows = {f1, f2}
    Procs = {p1, p2, p3, p4}
    NoProc = NoProc
    MaxRestarts = 1
    Events = {e1}
    Gentle = {}
    Punctual = {backend}
INVARIANTS RestartBudget
PROPERTIES QuitEnds CrashIsNoticed
CHECK_DEADLOCK FALSE
