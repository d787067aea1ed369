SPECIFICATION Spec
CONSTANTS
    syncthing = syncthing
    searxng = searxng
    Order <- WithSyncthing
    Backend = backend
    Installed = {syncthing, searxng}
    AwaitsReady = {syncthing, searxng}
    Sidecar = searxng
    Flows = {f1}
    Procs = {p1, p2, p3, p4}
    NoProc = NoProc
    MaxRestarts = 1
    Events = {e1}
    Gentle = {syncthing}
    Punctual = {searxng, backend}
INVARIANTS TypeOK NoChildLost ExitReachesChildren
CHECK_DEADLOCK FALSE
