--------------------------- MODULE MCModelDownloads ---------------------------
(***************************************************************************)
(* Instances of ModelDownloads for TLC.                                    *)
(***************************************************************************)
EXTENDS ModelDownloads, TLC

CONSTANTS m1, m2, p1, p2

\* Every request asks for one model.
OneModel == [d \in Downloads |-> m1]

OnePath == [m \in Models |-> p1]

\* Two models, each with a file of its own.
OwnPath == [m \in Models |-> IF m = m1 THEN p1 ELSE p2]

CONSTANTS d1, d2, d3

\* One request for the second model, the others for the first.
LastAsksSecond == [d \in Downloads |-> IF d = d3 THEN m2 ELSE m1]

\* One request for each model.
OneEach == [d \in Downloads |-> IF d = d1 THEN m1 ELSE m2]

\* Requests for the same model are interchangeable.
SameModel == Permutations({d1, d2, d3})
FirstTwo == Permutations({d1, d2})
=============================================================================
