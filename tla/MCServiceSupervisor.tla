------------------------ MODULE MCServiceSupervisor ------------------------
EXTENDS ServiceSupervisor

CONSTANTS syncthing, searxng

\* main.ts:180-191 registers Syncthing, Python's sidecar and SearXNG in this order.
\* Syncthing is the one whose stop does not wait for the exit, SearXNG the one that
\* the backend's settings events restart.
WithSyncthing == <<syncthing, searxng>>
SearxngAlone == <<searxng>>

=============================================================================
