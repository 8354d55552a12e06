------------------------------ MODULE ChartBatch ------------------------------
(***************************************************************************)
(* What a run of generate-charts.py promises for its destination (spec     *)
(* sections 5-7): the chart entries are generated one at a time in the     *)
(* order of charts-config.yaml, each into its own directories; generating  *)
(* an entry may leave its directories part-written, but the next entry     *)
(* starts only once they all hold this entry's output; a fatal error ends  *)
(* the run there; nothing else of the destination is touched.              *)
(***************************************************************************)
EXTENDS ChartLayout, SequencesExt

CONSTANTS
    Absent,         \* a directory that does not exist
    Prev,           \* a directory holding an earlier run's output
    Partial,        \* a directory part-way through being written
    InitialOutput   \* the destinations a run may start from

VARIABLES
    entries,   \* the chart entries of charts-config.yaml
    clone,     \* chart-path -> what the cloned repository holds there
    out,       \* directory -> Absent, Prev, Partial, or the entry it holds
    next,      \* the entry being generated
    status     \* "running", "finished" or "failed"

avars == <<entries, clone, out, next, status>>

Init ==
    /\ entries \in BoundedSeq(Entry, MaxCharts)
    /\ clone \in [ChartPaths -> Clone]
    /\ out \in InitialOutput
    /\ next = 1
    /\ status = "running"

\* A directory of the current entry is (re)written.
Touch ==
    /\ status = "running" /\ next <= Len(entries)
    /\ \E p \in PathsOf(entries[next], clone) \cap Paths : out' = [out EXCEPT ![p] = Partial]
    /\ UNCHANGED <<entries, clone, next, status>>

\* The current entry is generated: all its directories hold it.
Complete ==
    /\ status = "running" /\ next <= Len(entries)
    /\ out' = [p \in Paths |-> IF p \in PathsOf(entries[next], clone) THEN next ELSE out[p]]
    /\ next' = next + 1
    /\ status' = IF next = Len(entries) THEN "finished" ELSE "running"
    /\ UNCHANGED <<entries, clone>>

\* The run stops, possibly half-way through writing a directory of the
\* current entry.
Fail ==
    /\ status = "running"
    /\ status' = "failed"
    /\ \/ UNCHANGED out
       \/ /\ next <= Len(entries)
          /\ \E p \in PathsOf(entries[next], clone) \cap Paths :
                out' = [out EXCEPT ![p] = Partial]
    /\ UNCHANGED <<entries, clone, next>>

Finish ==
    /\ status = "running" /\ next > Len(entries)
    /\ status' = "finished"
    /\ UNCHANGED <<entries, clone, out, next>>

Next == Touch \/ Complete \/ Fail \/ Finish

\* A run does not stop half-way without an error.
Spec == Init /\ [][Next]_avars /\ WF_avars(Complete \/ Fail \/ Finish)
=============================================================================
