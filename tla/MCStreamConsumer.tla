-------------------------- MODULE MCStreamConsumer ---------------------------
(* A small instance of StreamConsumer for TLC.                             *)
EXTENDS StreamConsumer

\* A batch of two records, a control batch, a batch that compaction left a gap in,
\* and a batch of one record.
MCLog == <<[first |-> 0, last |-> 1, offsets |-> {0, 1}, size |-> 2, control |-> FALSE],
           [first |-> 2, last |-> 2, offsets |-> {2}, size |-> 1, control |-> TRUE],
           [first |-> 3, last |-> 5, offsets |-> {3, 5}, size |-> 2, control |-> FALSE],
           [first |-> 6, last |-> 6, offsets |-> {6}, size |-> 1, control |-> FALSE]>>

MCStart(kind) == [kind |-> kind, at |-> 0]
MCAt(o)       == [kind |-> "At", at |-> o]

MCStartAll  == {MCStart("Earliest"), MCStart("Latest")} \cup {MCAt(o) : o \in 0 .. 8}
MCEarliest  == {MCStart("Earliest")}
=============================================================================
