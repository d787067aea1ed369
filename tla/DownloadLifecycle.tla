-------------------------- MODULE DownloadLifecycle --------------------------
(***************************************************************************)
(* What the downloads manager promises its clients, as the state diagram   *)
(* of docs/runbooks/model-downloads.md draws it: the states a download may *)
(* go through, never more than MaxConcurrent of them transferring, and a   *)
(* model installed by the time its download is Completed.  Files, retries, *)
(* requests and the semaphore are ModelDownloads' own business.            *)
(***************************************************************************)
EXTENDS Naturals, FiniteSets

CONSTANTS Downloads, Models, ModelOf, MaxConcurrent

VARIABLES state,     \* the state of each download, "Absent" before it is added
          lost,      \* downloads whose run died with the process
          installed  \* models whose file is complete

vars == <<state, lost, installed>>

Ongoing == {"Queued", "Downloading", "Finalizing"}

Transferring == {d \in Downloads \ lost : state[d] \in {"Downloading", "Finalizing"}}

Init == /\ state = [d \in Downloads |-> "Absent"]
        /\ lost = {}
        /\ installed = {}

Becomes(d, from, to) == /\ d \notin lost
                        /\ state[d] \in from
                        /\ state' = [state EXCEPT ![d] = to]
                        /\ UNCHANGED <<lost, installed>>

Queue(d) == Becomes(d, {"Absent"}, "Queued")

Start(d) == /\ Cardinality(Transferring) < MaxConcurrent
            /\ Becomes(d, {"Queued"}, "Downloading")

Finalize(d) == Becomes(d, {"Downloading"}, "Finalizing")

Install(d) == /\ d \notin lost
              /\ state[d] = "Finalizing"
              /\ installed' = installed \cup {ModelOf[d]}
              /\ UNCHANGED <<state, lost>>

Complete(d) == /\ ModelOf[d] \in installed
               /\ Becomes(d, {"Finalizing"}, "Completed")

Fail(d) == Becomes(d, {"Downloading", "Finalizing"}, "Failed")

Cancel(d) == Becomes(d, {"Queued", "Downloading"}, "Cancelled")

\* A restart loses every download under way: nothing takes it up again.
Restart == /\ lost' = lost \cup {d \in Downloads : state[d] \in Ongoing}
           /\ UNCHANGED <<state, installed>>

Next == \/ \E d \in Downloads : \/ Queue(d) \/ Start(d) \/ Finalize(d) \/ Install(d)
                                \/ Complete(d) \/ Fail(d) \/ Cancel(d)
        \/ Restart

Spec == Init /\ [][Next]_vars

=============================================================================
