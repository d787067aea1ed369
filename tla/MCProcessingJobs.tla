-------------------------- MODULE MCProcessingJobs --------------------------
(* Instances of ProcessingJobs for TLC.                                     *)
EXTENDS ProcessingJobs, TLC

\* Every job processes the same recording.
OneRecording == [j \in Jobs |-> CHOOSE r \in Recordings : TRUE]

\* Requests are interchangeable: no action names one.
RequestSymmetry == Permutations(Requests)
=============================================================================
