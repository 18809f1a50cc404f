--------------------------- MODULE MCBatchProducer ---------------------------
(* Small instances of BatchProducer for TLC.                               *)
EXTENDS BatchProducer, TLC

CONSTANTS c1, c2, c3, big, f1, f2

\* Two small records share a batch, the third fills one alone, "big" fits nowhere.
AllSizes   == (c1 :> 1) @@ (c2 :> 1) @@ (c3 :> 2) @@ (big :> 3)
MCSizes    == [c \in Callers |-> AllSizes[c]]
MCMaxSize  == 2

\* The small records are alike, and so are the flush() calls, unless only one of
\* them may be dropped.
MCSymmetry == Permutations({c1, c2}) \cup Permutations({f1, f2})
=============================================================================
