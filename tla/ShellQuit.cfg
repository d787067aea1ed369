SPECIFICATION Spec
CONSTANTS
    syncthing = syncthing
    searxng = searxng
    Order <- WithSyncthing
    Backend = backend
    Installed = {syncthing, searxng}
    AwaitsReady = {syncthing, searxng}
    Sidecar = searxng
    Flows = {f1}
    Procs = {p1, p2, p3, p4, p5}
    NoProc = NoProc
    MaxRestarts = 1
    Events = {}
    Gentle = {syncthing}
    Punctual = {searxng, backend}
PROPERTIES NothingStartsAfterStopAll
CHECK_DEADLOCK FALSE
